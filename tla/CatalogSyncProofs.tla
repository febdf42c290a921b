------------------------- MODULE CatalogSyncProofs -------------------------
(***************************************************************************)
(* What holds of the catalogue synchronisation for every number of         *)
(* references, calls, runs, attempts, changes and failures.                *)
(*                                                                         *)
(* A call keeps in memory the run it inserted, the items it claimed and    *)
(* the runs it is about to close, while others work beside it once it has  *)
(* outlived its lease.  The proofs rest on what nobody else touches: a run *)
(* that is being staged (StageOK), the items in a queue (ItemHasOneWorker) *)
(* and the items of a run that was listed as finished (EndsOK).            *)
(***************************************************************************)
EXTENDS CatalogSync, TLAPS

\* Where a call stands, and what it then holds.
PhaseOK ==
    \A c \in Calls :
        /\ pc[c] \in {"write", "variants", "complete"} => cur[c] \in queue[c]
        /\ pc[c] \in {"odWrite", "odVariants", "odDone"} => cur[c] \in {NoRun} \X Refs
        /\ queue[c] # {} => pc[c] \in {"work", "write", "variants", "complete"}
        /\ ends[c] # {} => pc[c] = "finalize"
        /\ pc[c] \in {"variants", "odVariants"} => snap[c] # 0

\* A run that is being staged is its call's own, and has nothing yet for the
\* references still to be asked for.
StageOK ==
    \A c \in Calls : pc[c] = "stage" =>
        /\ run[c] \in RunIds
        /\ runStatus[run[c]] \in {"discovering", "failed"}
        /\ \A r \in left[c] : item[<<run[c], r>>] = "none"
        /\ \A d \in Calls : d # c /\ pc[d] = "stage" => run[d] # run[c]
        /\ \A d \in Calls : \A e \in ends[d] : e.run # run[c]

\* Rows that are not there have nothing.
Untouched ==
    \A i \in Items :
        /\ item[i] = "none" => attempts[i] = 0
        /\ runStatus[i[1]] = "none" => item[i] = "none"

\* What a call is about to close was over when it was listed, and still is.
EndsOK ==
    \A c \in Calls : \A e \in ends[c] :
        /\ runStatus[e.run] \notin {"none", "discovering"}
        /\ \A i \in ItemsOf(e.run) : item[i] \notin {"pending", "processing"}
        /\ e.ok => NoneFailed(e.run)

Base == TypeOK /\ PhaseOK /\ StageOK /\ Untouched /\ EndsOK /\ ItemHasOneWorker

-----------------------------------------------------------------------------
USE NoneAssumption, NatAssumption, OverlapAssumption
USE DEF erpVars, stateVars, runVars, itemVars, prodVars, callVars, history

LEMMA Pairs ==
    /\ \A i \in Items : i[1] \in RunIds /\ i[2] \in Refs /\ i = <<i[1], i[2]>>
    /\ \A R \in RunIds, r \in Refs : <<R, r>> \in Items /\ <<R, r>>[1] = R /\ <<R, r>>[2] = r
    /\ NoRun \notin RunIds /\ RunIds \subseteq Nat
BY DEF Items, RunIds, NoRun

LEMMA RetriedBounds ==
    ASSUME TypeOK, NEW i \in Items, item[i] = "processing"
    PROVE  /\ attempts[i] + 1 \in 0 .. MaxAttempts
           /\ Retried(i) \in {"pending", "failed"}
           /\ Retried(i) = "pending" => attempts[i] + 1 < MaxAttempts
BY DEF TypeOK, Retried

\* The steps with which a call leaves its work.
Leaves(c) == \/ NotAcquired(c) \/ OnDemandEnds(c) \/ SyncFails(c) \/ MarkFailed(c)
             \/ Release(c) \/ Crash(c)

LEMMA Leaving ==
    ASSUME TypeOK, NEW c \in Calls, Leaves(c)
    PROVE  \E p \in {"idle", "fail", "release"}, q \in RunIds \cup {NoRun} : LeaveFor(c, p, q)
<1>0. run[c] \in RunIds \cup {NoRun}
  BY DEF TypeOK
<1>1. CASE NotAcquired(c) \/ OnDemandEnds(c) \/ Release(c) \/ Crash(c)
  BY <1>1 DEF NotAcquired, OnDemandEnds, Release, Crash, Return
<1>2. CASE MarkFailed(c)
  BY <1>2 DEF MarkFailed
<1>3. CASE SyncFails(c)
  BY <1>0, <1>3 DEF SyncFails
<1> QED
  BY <1>1, <1>2, <1>3 DEF Leaves

LEMMA LeaveTypes ==
    ASSUME TypeOK, NEW c \in Calls, NEW p \in {"idle", "fail", "release"},
           NEW q \in RunIds \cup {NoRun}, LeaveFor(c, p, q)
    PROVE  /\ pc' \in [Calls -> Phases] /\ mode' \in [Calls -> Modes] /\ from' \in [Calls -> Nat]
           /\ run' \in [Calls -> RunIds \cup {NoRun}] /\ upTo' \in [Calls -> Nat]
           /\ left' \in [Calls -> SUBSET Refs] /\ queue' \in [Calls -> SUBSET Items]
           /\ cur' \in [Calls -> ((RunIds \cup {NoRun}) \X Refs) \cup {None}]
           /\ snap' \in [Calls -> Nat] /\ pub' \in [Calls -> BOOLEAN]
           /\ ends' \in [Calls -> SUBSET [run : RunIds, ok : BOOLEAN]]
<1>1. pc' \in [Calls -> Phases] /\ mode' \in [Calls -> Modes]
  BY DEF TypeOK, LeaveFor, Phases, Modes
<1>2. pub' \in [Calls -> BOOLEAN]
  BY DEF TypeOK, LeaveFor
<1>3. /\ from' \in [Calls -> Nat] /\ run' \in [Calls -> RunIds \cup {NoRun}]
      /\ upTo' \in [Calls -> Nat] /\ left' \in [Calls -> SUBSET Refs]
      /\ queue' \in [Calls -> SUBSET Items]
  BY DEF TypeOK, LeaveFor
<1>4. /\ cur' \in [Calls -> ((RunIds \cup {NoRun}) \X Refs) \cup {None}]
      /\ snap' \in [Calls -> Nat] /\ ends' \in [Calls -> SUBSET [run : RunIds, ok : BOOLEAN]]
  BY DEF TypeOK, LeaveFor
<1> QED
  BY <1>1, <1>2, <1>3, <1>4

\* What ItemFails and Complete do to their item.
LEMMA DoneTypes ==
    ASSUME TypeOK, NEW c \in Calls, NEW i \in Items, NEW s \in ItemStatuses, ItemDone(c, i, s),
           attempts' \in [Items -> 0 .. MaxAttempts], disturbances' \in Nat,
           s \in {"pending", "processing"} => attempts'[i] < MaxAttempts,
           \A j \in Items \ {i} : attempts'[j] = attempts[j]
    PROVE  TypeOK'
<1>1. item' \in [Items -> ItemStatuses] /\ queue' \in [Calls -> SUBSET Items]
      /\ \A j \in Items : item'[j] \in {"pending", "processing"} => attempts'[j] < MaxAttempts
  BY DEF ItemDone, TypeOK
<1>2. /\ cur' \in [Calls -> ((RunIds \cup {NoRun}) \X Refs) \cup {None}]
      /\ snap' \in [Calls -> Nat] /\ pc' \in [Calls -> Phases]
  BY DEF ItemDone, TypeOK, Phases
<1>3. pub' \in [Calls -> BOOLEAN]
  BY DEF ItemDone, TypeOK
<1> QED
  BY <1>1, <1>2, <1>3 DEF ItemDone, TypeOK

\* The item a call is working on.
LEMMA CurrentItem ==
    ASSUME Base, NEW c \in Calls, pc[c] \in {"write", "variants", "complete"}
    PROVE  cur[c] \in Items /\ cur[c] \in queue[c] /\ item[cur[c]] = "processing"
BY DEF Base, TypeOK, PhaseOK, ItemHasOneWorker

LEMMA WriterRef ==
    ASSUME Base, NEW c \in Calls,
           pc[c] \in {"write", "variants", "odWrite", "odVariants"}
    PROVE  /\ cur[c] \in (RunIds \cup {NoRun}) \X Refs
           /\ cur[c][1] \in RunIds \cup {NoRun} /\ cur[c][2] \in Refs
           /\ cur[c][1] # NoRun => cur[c] \in Items /\ cur[c] \in queue[c]
                                   /\ item[cur[c]] = "processing"
           /\ snap[c] \in Nat
<1>1. snap[c] \in Nat
  BY DEF Base, TypeOK
<1>2. CASE pc[c] \in {"write", "variants"}
  BY <1>1, <1>2, CurrentItem, Pairs DEF Items
<1>3. CASE pc[c] \in {"odWrite", "odVariants"}
  BY <1>1, <1>3 DEF Base, PhaseOK
<1> QED
  BY <1>2, <1>3

LEMMA ItemFailsEffect ==
    ASSUME Base, NEW c \in Calls, NEW i \in Items, ItemFails(c, i)
    PROVE  /\ i \in queue[c] /\ item[i] = "processing"
           /\ ItemDone(c, i, Retried(i)) /\ Retried(i) \in {"pending", "failed"}
           /\ attempts' = [attempts EXCEPT ![i] = @ + 1] /\ Disturbance
           /\ attempts[i] + 1 \in 0 .. MaxAttempts
           /\ Retried(i) = "pending" => attempts[i] + 1 < MaxAttempts
<1>1. i \in queue[c]
  BY CurrentItem DEF ItemFails
<1>2. item[i] = "processing"
  BY <1>1 DEF Base, ItemHasOneWorker
<1> QED
  BY <1>1, <1>2, RetriedBounds DEF ItemFails, Base

LEMMA CompleteEffect ==
    ASSUME Base, NEW c \in Calls, Complete(c)
    PROVE  \E i \in Items : /\ i \in queue[c] /\ item[i] = "processing"
                            /\ ItemDone(c, i, "succeeded")
                            /\ UNCHANGED <<attempts, disturbances>>
BY CurrentItem DEF Complete

LEMMA TypeStep ==
    ASSUME Base, [Next]_vars
    PROVE  TypeOK'
<1> USE Pairs DEF Disturbance
<1>1. CASE UNCHANGED vars
  BY <1>1 DEF vars, Base, TypeOK
<1>2. CASE Tick \/ LeaseExpires
  <2>1. CASE Tick
    <3>1. clock' \in Nat
      BY <2>1 DEF Tick, Base, TypeOK
    <3>2. fullDue' \in BOOLEAN
      BY <2>1, Zenon DEF Tick, Base, TypeOK
    <3> QED
      BY <2>1, <3>1, <3>2 DEF Tick, Base, TypeOK
  <2>2. CASE LeaseExpires
    <3>1. disturbances' \in Nat /\ late' \in BOOLEAN
      BY <2>2 DEF LeaseExpires, InSync, Base, TypeOK
    <3> QED
      BY <2>2, <3>1 DEF LeaseExpires, Base, TypeOK
  <2> QED
    BY <1>2, <2>1, <2>2
<1>3. ASSUME NEW r \in Refs, NEW t \in 0 .. MaxClock, NEW k \in Kinds, ErpChange(r, t, k)
      PROVE  TypeOK'
  <2>1. /\ erpVer' \in [Refs -> Nat] /\ changes' \in Nat
        /\ listed' \subseteq Refs /\ blocked' \subseteq Refs \ listed'
    BY <1>3 DEF ErpChange, Base, TypeOK
  <2> QED
    BY <1>3, <2>1 DEF ErpChange, Base, TypeOK
<1>4. ASSUME NEW c \in Calls, NEW requested \in Modes, StartSync(c, requested)
      PROVE  TypeOK'
  <2>1. ChooseMode(requested) \in Modes /\ WindowStart(ChooseMode(requested)) \in Nat
    BY DEF ChooseMode, WindowStart, Modes, Base, TypeOK
  <2> QED
    BY <1>4, <2>1 DEF StartSync, Base, TypeOK, Phases
<1>5. ASSUME NEW c \in Calls, Acquire(c)
      PROVE  TypeOK'
  BY <1>5 DEF Acquire, Base, TypeOK, Phases
<1>6. ASSUME NEW c \in Calls, FailInterrupted(c)
      PROVE  TypeOK'
  <2>1. runStatus' \in [RunIds -> RunStatuses] /\ run' \in [Calls -> RunIds \cup {NoRun}]
        /\ upTo' \in [Calls -> Nat] /\ pc' \in [Calls -> Phases]
    BY <1>6 DEF FailInterrupted, Base, TypeOK, RunStatuses, Phases
  <2> QED
    BY <1>6, <2>1 DEF FailInterrupted, Base, TypeOK
<1>7. ASSUME NEW c \in Calls, Leaves(c)
      PROVE  TypeOK'
  <2>1. PICK p \in {"idle", "fail", "release"}, q \in RunIds \cup {NoRun} : LeaveFor(c, p, q)
    BY <1>7, Leaving DEF Base
  <2>2. lease' \in Calls \cup {None}
    BY <1>7 DEF Leaves, NotAcquired, OnDemandEnds, SyncFails, MarkFailed, Release, Crash,
                LeaseReleasedBy, Base, TypeOK
  <2>3. runStatus' \in [RunIds -> RunStatuses] /\ stranded' \subseteq Items /\ disturbances' \in Nat
    BY <1>7 DEF Leaves, NotAcquired, OnDemandEnds, SyncFails, MarkFailed, Release, Crash, Base,
                TypeOK, RunStatuses
  <2>4. UNCHANGED <<erpVars, checkpoint, fullDue, runMode, windowEnd, itemVars, prodVars, changes,
                    late, raced, hidden, marked>>
    BY <1>7 DEF Leaves, NotAcquired, OnDemandEnds, SyncFails, MarkFailed, Release, Crash
  <2> QED
    BY <2>1, <2>2, <2>3, <2>4, LeaveTypes DEF Base, TypeOK
<1>8. ASSUME NEW c \in Calls, FindOpenRun(c)
      PROVE  TypeOK'
  <2>1. run' \in [Calls -> RunIds \cup {NoRun}]
    <3>1. UNCHANGED run \/ \E R \in RunIds : run' = [run EXCEPT ![c] = R]
      <4>1. OpenFullRuns \subseteq RunIds
        BY DEF OpenFullRuns
      <4> QED
        BY <1>8, <4>1 DEF FindOpenRun
    <3> QED
      BY <3>1 DEF Base, TypeOK
  <2>2. pc' \in [Calls -> Phases]
    <3>1. \E p \in {"interrupted", "insert", "claim"} : pc' = [pc EXCEPT ![c] = p]
      BY <1>8, Zenon DEF FindOpenRun
    <3> QED
      BY <3>1 DEF Base, TypeOK, Phases
  <2>3. upTo' \in [Calls -> Nat]
    <3>1. UNCHANGED upTo \/ upTo' = [upTo EXCEPT ![c] = clock]
      BY <1>8, Zenon DEF FindOpenRun
    <3> QED
      BY <3>1 DEF Base, TypeOK
  <2> QED
    BY <1>8, <2>1, <2>2, <2>3 DEF FindOpenRun, Base, TypeOK
<1>9. ASSUME NEW c \in Calls, InsertRun(c)
      PROVE  TypeOK'
  <2>1. /\ runStatus' \in [RunIds -> RunStatuses] /\ runMode' \in [RunIds -> Modes]
        /\ windowEnd' \in [RunIds -> Nat] /\ run' \in [Calls -> RunIds \cup {NoRun}]
    BY <1>9 DEF InsertRun, Base, TypeOK, RunStatuses
  <2>2. /\ left' \in [Calls -> SUBSET Refs] /\ pc' \in [Calls -> Phases]
        /\ upTo' \in [Calls -> Nat]
    BY <1>9 DEF InsertRun, Base, TypeOK, Phases
  <2> QED
    BY <1>9, <2>1, <2>2 DEF InsertRun, Base, TypeOK
<1>10. ASSUME NEW c \in Calls, NEW P \in SUBSET Refs, NEW S \in SUBSET Refs, StagePage(c, P, S)
       PROVE  TypeOK'
  <2>1. left' \in [Calls -> SUBSET Refs] /\ item' \in [Items -> ItemStatuses]
    BY <1>10 DEF StagePage, Base, TypeOK, ItemStatuses
  <2>2. \A i \in Items : item'[i] \in {"pending", "processing"} => attempts[i] < MaxAttempts
    <3> TAKE i \in Items
    <3>1. CASE i[1] = run[c] /\ i[2] \in S
      <4>1. i = <<run[c], i[2]>> /\ i[2] \in left[c]
        BY <3>1, <1>10 DEF StagePage
      <4>2. attempts[i] = 0
        BY <4>1, <1>10 DEF StagePage, Base, StageOK, Untouched
      <4> QED
        BY <4>2
    <3>2. CASE ~ (i[1] = run[c] /\ i[2] \in S)
      <4>1. item'[i] = item[i]
        BY <3>2, <1>10 DEF StagePage
      <4> QED
        BY <4>1 DEF Base, TypeOK
    <3> QED
      BY <3>1, <3>2
  <2> QED
    BY <1>10, <2>1, <2>2 DEF StagePage, Base, TypeOK
<1>11. ASSUME NEW c \in Calls, MarkDiscoveryComplete(c)
       PROVE  TypeOK'
  <2>1. runStatus' \in [RunIds -> RunStatuses] /\ checkpoint' \in Nat
    BY <1>11 DEF MarkDiscoveryComplete, Base, TypeOK, StageOK, RunStatuses
  <2>2. mode' \in [Calls -> Modes] /\ from' \in [Calls -> Nat] /\ pc' \in [Calls -> Phases]
    BY <1>11 DEF MarkDiscoveryComplete, Base, TypeOK, Modes, Phases
  <2> QED
    BY <1>11, <2>1, <2>2 DEF MarkDiscoveryComplete, Base, TypeOK
<1>12. ASSUME NEW c \in Calls, NEW C \in SUBSET Items, Claim(c, C)
       PROVE  TypeOK'
  <2>1. item' \in [Items -> ItemStatuses]
        /\ \A i \in Items : item'[i] \in {"pending", "processing"} => attempts[i] < MaxAttempts
    BY <1>12 DEF Claim, PendingItems, Base, TypeOK, ItemStatuses
  <2>2. queue' \in [Calls -> SUBSET Items] /\ pc' \in [Calls -> Phases]
    BY <1>12 DEF Claim, Base, TypeOK, Phases
  <2> QED
    BY <1>12, <2>1, <2>2 DEF Claim, Base, TypeOK
<1>13. ASSUME NEW c \in Calls, NEW i \in Items, Fetch(c, i)
       PROVE  TypeOK'
  <2>1. AtErp(i[2]) \in Nat
    BY DEF AtErp, Base, TypeOK
  <2>2. cur' \in [Calls -> ((RunIds \cup {NoRun}) \X Refs) \cup {None}]
    BY <1>13 DEF Fetch, Base, TypeOK, Items
  <2>3. snap' \in [Calls -> Nat] /\ pc' \in [Calls -> Phases]
    BY <1>13, <2>1 DEF Fetch, Base, TypeOK, Phases
  <2>4. pub' \in [Calls -> BOOLEAN]
    BY <1>13 DEF Fetch, Base, TypeOK
  <2> QED
    BY <1>13, <2>2, <2>3, <2>4 DEF Fetch, Base, TypeOK
<1>14. ASSUME NEW c \in Calls, NEW i \in Items, ItemFails(c, i)
       PROVE  TypeOK'
  <2>0. TypeOK /\ disturbances \in Nat
    BY DEF Base, TypeOK
  <2>1. TypeOK /\ disturbances' \in Nat
    BY <1>14, <2>0 DEF ItemFails
  <2>2. Retried(i) \in ItemStatuses
    BY <1>14, ItemFailsEffect DEF ItemStatuses
  <2>3. attempts' \in [Items -> 0 .. MaxAttempts] /\ attempts'[i] = attempts[i] + 1
        /\ \A j \in Items \ {i} : attempts'[j] = attempts[j]
    <3>1. attempts' = [attempts EXCEPT ![i] = @ + 1] /\ attempts[i] + 1 \in 0 .. MaxAttempts
      BY <1>14, ItemFailsEffect
    <3>2. attempts \in [Items -> 0 .. MaxAttempts]
      BY <2>1 DEF TypeOK
    <3> QED
      BY <3>1, <3>2
  <2>4. Retried(i) \in {"pending", "processing"} => attempts'[i] < MaxAttempts
    BY <1>14, <2>3, ItemFailsEffect
  <2>5. ItemDone(c, i, Retried(i))
    BY <1>14, ItemFailsEffect
  <2> QED
    BY <2>1, <2>2, <2>3, <2>4, <2>5, DoneTypes
<1>15. ASSUME NEW c \in Calls, Complete(c)
       PROVE  TypeOK'
  <2>1. PICK i \in Items : /\ ItemDone(c, i, "succeeded") /\ UNCHANGED <<attempts, disturbances>>
    BY <1>15, CompleteEffect
  <2>2. "succeeded" \in ItemStatuses /\ TypeOK
    BY DEF ItemStatuses, Base
  <2>3. attempts' \in [Items -> 0 .. MaxAttempts] /\ disturbances' \in Nat
    BY <2>1, <2>2 DEF TypeOK
  <2> QED
    BY <2>1, <2>2, <2>3, DoneTypes
<1>16. ASSUME NEW c \in Calls, WriteProduct(c)
       PROVE  TypeOK'
  <2>1. /\ cur[c][2] \in Refs /\ snap[c] \in Nat /\ cur[c][1] \in RunIds \cup {NoRun}
        /\ cur[c][1] # NoRun => cur[c] \in Items
    BY <1>16, WriterRef DEF WriteProduct
  <2>2. Seen(c) \in RunIds \cup {NoRun}
    BY <2>1 DEF Seen, InFullRun, Base, TypeOK
  <2>3. ver' \in [Refs -> Nat] /\ seenBy' \in [Refs -> RunIds \cup {NoRun}]
    <3>1. CASE snap[c] = 0
      BY <1>16, <3>1 DEF WriteProduct, Base, TypeOK
    <3>2. CASE snap[c] # 0
      <4>1. ver' = [ver EXCEPT ![cur[c][2]] = snap[c]] /\ seenBy' = [seenBy EXCEPT ![cur[c][2]] = Seen(c)]
        BY <1>16, <3>2 DEF WriteProduct
      <4> QED
        BY <4>1, <2>1, <2>2 DEF Base, TypeOK
    <3> QED
      BY <3>1, <3>2
  <2>4. active' \subseteq Refs /\ hidden' \subseteq Refs /\ raced' \subseteq Refs /\ marked' \subseteq Items
    BY <1>16, <2>1 DEF WriteProduct, Publish, NoteRace, InFullRun, Base, TypeOK
  <2>5. pc' \in [Calls -> Phases]
    BY <1>16 DEF WriteProduct, Base, TypeOK, Phases
  <2> QED
    BY <1>16, <2>3, <2>4, <2>5 DEF WriteProduct, Base, TypeOK
<1>17. ASSUME NEW c \in Calls, WriteVariants(c)
       PROVE  TypeOK'
  <2>1. cur[c][2] \in Refs /\ snap[c] \in Nat
    BY <1>17, WriterRef DEF WriteVariants
  <2>2. variants' \in [Refs -> Nat] /\ active' \subseteq Refs /\ hidden' \subseteq Refs /\ raced' \subseteq Refs
    BY <1>17, <2>1 DEF WriteVariants, Publish, NoteRace, Base, TypeOK
  <2>3. pc' \in [Calls -> Phases]
    BY <1>17 DEF WriteVariants, Base, TypeOK, Phases
  <2> QED
    BY <1>17, <2>2, <2>3 DEF WriteVariants, Base, TypeOK
<1>18. ASSUME NEW c \in Calls, NEW r \in Refs, OnDemandFetch(c, r)
       PROVE  TypeOK'
  <2>1. AtErp(r) \in Nat
    BY DEF AtErp, Base, TypeOK
  <2>2. cur' \in [Calls -> ((RunIds \cup {NoRun}) \X Refs) \cup {None}]
    BY <1>18 DEF OnDemandFetch, Base, TypeOK
  <2>3. snap' \in [Calls -> Nat] /\ pc' \in [Calls -> Phases]
    BY <1>18, <2>1 DEF OnDemandFetch, Base, TypeOK, Phases
  <2>4. pub' \in [Calls -> BOOLEAN]
    BY <1>18 DEF OnDemandFetch, Base, TypeOK
  <2> QED
    BY <1>18, <2>2, <2>3, <2>4 DEF OnDemandFetch, Base, TypeOK
<1>19. ASSUME NEW c \in Calls, ListFinalizable(c)
       PROVE  TypeOK'
  <2>1. \A R \in RunIds : [run |-> R, ok |-> NoneFailed(R)] \in [run : RunIds, ok : BOOLEAN]
    BY DEF NoneFailed
  <2>2. ends' \in [Calls -> SUBSET [run : RunIds, ok : BOOLEAN]]
    BY <1>19, <2>1 DEF ListFinalizable, Base, TypeOK
  <2>3. pc' \in [Calls -> Phases]
    BY <1>19 DEF ListFinalizable, Base, TypeOK, Phases
  <2> QED
    BY <1>19, <2>2, <2>3 DEF ListFinalizable, Base, TypeOK
<1>20. ASSUME NEW c \in Calls, NEW e \in ends[c], FinalizeRun(c, e)
       PROVE  TypeOK'
  <2>1. ends' \in [Calls -> SUBSET [run : RunIds, ok : BOOLEAN]]
    BY <1>20 DEF FinalizeRun, Base, TypeOK
  <2>2. active' \subseteq Refs /\ hidden' \subseteq Refs /\ fullDue' \in BOOLEAN
    BY <1>20 DEF FinalizeRun, SeenIn, Base, TypeOK
  <2>3. runStatus' \in [RunIds -> RunStatuses]
    BY <1>20 DEF FinalizeRun, Base, TypeOK, RunStatuses
  <2> QED
    BY <1>20, <2>1, <2>2, <2>3 DEF FinalizeRun, Base, TypeOK
<1> QED
  BY <1>1, <1>2, <1>3, <1>4, <1>5, <1>6, <1>7, <1>8, <1>9, <1>10, <1>11, <1>12, <1>13,
     <1>14, <1>15, <1>16, <1>17, <1>18, <1>19, <1>20 DEF Next, Leaves

-----------------------------------------------------------------------------
(* Where the calls stand                                                    *)

LEMMA PhaseStep ==
    ASSUME Base, [Next]_vars, TypeOK'
    PROVE  PhaseOK'
<1>0. TypeOK /\ PhaseOK
  BY DEF Base
<1> USE <1>0
<1>1. CASE UNCHANGED vars
  BY <1>1 DEF vars, PhaseOK
<1>2. CASE Tick \/ LeaseExpires
  BY <1>2 DEF Tick, LeaseExpires, PhaseOK
<1>3. ASSUME NEW r \in Refs, NEW t \in 0 .. MaxClock, NEW k \in Kinds, ErpChange(r, t, k)
      PROVE  PhaseOK'
  BY <1>3 DEF ErpChange, PhaseOK
<1>4. ASSUME NEW c \in Calls, NEW requested \in Modes, StartSync(c, requested)
      PROVE  PhaseOK'
  BY <1>4 DEF StartSync, PhaseOK, TypeOK
<1>5. ASSUME NEW c \in Calls, Acquire(c)
      PROVE  PhaseOK'
  BY <1>5 DEF Acquire, PhaseOK, TypeOK
<1>6. ASSUME NEW c \in Calls, FailInterrupted(c)
      PROVE  PhaseOK'
  BY <1>6 DEF FailInterrupted, PhaseOK, TypeOK
<1>7. ASSUME NEW c \in Calls, Leaves(c)
      PROVE  PhaseOK'
  <2>1. PICK p \in {"idle", "fail", "release"}, q \in RunIds \cup {NoRun} : LeaveFor(c, p, q)
    BY <1>7, Leaving
  <2>2. \A d \in Calls : d # c => pc'[d] = pc[d] /\ cur'[d] = cur[d] /\ queue'[d] = queue[d]
                                   /\ ends'[d] = ends[d] /\ snap'[d] = snap[d]
    BY <2>1 DEF LeaveFor, TypeOK
  <2>3. pc'[c] = p /\ queue'[c] = {} /\ ends'[c] = {}
    BY <2>1 DEF LeaveFor, TypeOK
  <2> QED
    BY <2>1, <2>2, <2>3 DEF PhaseOK
<1>8. ASSUME NEW c \in Calls, FindOpenRun(c)
      PROVE  PhaseOK'
  <2>1. /\ \E p \in {"interrupted", "insert", "claim"} : pc' = [pc EXCEPT ![c] = p]
        /\ pc[c] = "open" /\ UNCHANGED <<queue, cur, snap, ends>>
    BY <1>8, Zenon DEF FindOpenRun
  <2> QED
    BY <2>1 DEF PhaseOK, TypeOK
<1>9. ASSUME NEW c \in Calls, InsertRun(c)
      PROVE  PhaseOK'
  BY <1>9 DEF InsertRun, PhaseOK, TypeOK
<1>10. ASSUME NEW c \in Calls, NEW P \in SUBSET Refs, NEW S \in SUBSET Refs, StagePage(c, P, S)
       PROVE  PhaseOK'
  BY <1>10 DEF StagePage, PhaseOK
<1>11. ASSUME NEW c \in Calls, MarkDiscoveryComplete(c)
       PROVE  PhaseOK'
  BY <1>11 DEF MarkDiscoveryComplete, PhaseOK, TypeOK
<1>12. ASSUME NEW c \in Calls, NEW C \in SUBSET Items, Claim(c, C)
       PROVE  PhaseOK'
  BY <1>12 DEF Claim, PhaseOK, TypeOK
<1>13. ASSUME NEW c \in Calls, NEW i \in Items, Fetch(c, i)
       PROVE  PhaseOK'
  BY <1>13 DEF Fetch, PhaseOK, TypeOK
<1>14. ASSUME NEW c \in Calls, NEW i \in Items, NEW s \in ItemStatuses, ItemDone(c, i, s),
              pc[c] \in {"work", "write", "variants", "complete"}
       PROVE  PhaseOK'
  BY <1>14 DEF ItemDone, PhaseOK, TypeOK
<1>15. ASSUME NEW c \in Calls, NEW i \in Items, ItemFails(c, i)
       PROVE  PhaseOK'
  <2>1. ItemDone(c, i, Retried(i)) /\ Retried(i) \in ItemStatuses
    BY <1>15, ItemFailsEffect DEF ItemStatuses
  <2>2. pc[c] \in {"work", "write", "variants", "complete"}
    BY <1>15 DEF ItemFails
  <2> QED
    BY <2>1, <2>2, <1>14
<1>16. ASSUME NEW c \in Calls, Complete(c)
       PROVE  PhaseOK'
  <2>1. \E i \in Items : ItemDone(c, i, "succeeded")
    BY <1>16, CompleteEffect
  <2>2. "succeeded" \in ItemStatuses /\ pc[c] = "complete"
    BY <1>16 DEF ItemStatuses, Complete
  <2> QED
    BY <2>1, <2>2, <1>14
<1>17. ASSUME NEW c \in Calls, WriteProduct(c)
       PROVE  PhaseOK'
  BY <1>17 DEF WriteProduct, PhaseOK, TypeOK
<1>18. ASSUME NEW c \in Calls, WriteVariants(c)
       PROVE  PhaseOK'
  BY <1>18 DEF WriteVariants, PhaseOK, TypeOK
<1>19. ASSUME NEW c \in Calls, NEW r \in Refs, OnDemandFetch(c, r)
       PROVE  PhaseOK'
  <2>1. \A d \in Calls : d # c => pc'[d] = pc[d] /\ cur'[d] = cur[d] /\ queue'[d] = queue[d]
                                   /\ ends'[d] = ends[d] /\ snap'[d] = snap[d]
    BY <1>19 DEF OnDemandFetch, TypeOK
  <2>2. pc'[c] = "odWrite" /\ cur'[c] = <<NoRun, r>> /\ queue'[c] = {} /\ ends'[c] = {}
    BY <1>19 DEF OnDemandFetch, TypeOK, PhaseOK
  <2> QED
    BY <2>1, <2>2 DEF PhaseOK
<1>20. ASSUME NEW c \in Calls, ListFinalizable(c)
       PROVE  PhaseOK'
  BY <1>20 DEF ListFinalizable, PhaseOK, TypeOK
<1>21. ASSUME NEW c \in Calls, NEW e \in ends[c], FinalizeRun(c, e)
       PROVE  PhaseOK'
  BY <1>21 DEF FinalizeRun, PhaseOK, TypeOK
<1> QED
  BY <1>1, <1>2, <1>3, <1>4, <1>5, <1>6, <1>7, <1>8, <1>9, <1>10, <1>11, <1>12, <1>13, <1>15,
     <1>16, <1>17, <1>18, <1>19, <1>20, <1>21 DEF Next, Leaves

-----------------------------------------------------------------------------
(* The items in the queues                                                  *)

\* What a step does to items that no queue holds and that are not in work is
\* of no interest to the workers.
LEMMA WorkersFrame ==
    ASSUME ItemHasOneWorker, UNCHANGED queue, stranded' = stranded,
           \A i \in Items : item'[i] = item[i] \/ (item[i] # "processing" /\ item'[i] # "processing"),
           TypeOK
    PROVE  ItemHasOneWorker'
BY DEF ItemHasOneWorker, Owned, TypeOK

LEMMA WorkersReturn ==
    ASSUME ItemHasOneWorker, TypeOK, NEW c \in Calls, NEW p, NEW q, LeaveFor(c, p, q),
           UNCHANGED item, stranded' = stranded \cup queue[c]
    PROVE  ItemHasOneWorker'
<1>1. queue'[c] = {} /\ \A d \in Calls : d # c => queue'[d] = queue[d]
  BY DEF LeaveFor, TypeOK
<1>2. \A i \in Owned : i \in Owned' \cup stranded'
  BY <1>1 DEF Owned
<1>3. \A d \in Calls : queue'[d] \subseteq queue[d]
  BY <1>1
<1>4. \A d, d2 \in Calls : d # d2 => queue'[d] \cap queue'[d2] = {}
  BY <1>3, Zenon DEF ItemHasOneWorker
<1>5. \A d \in Calls : \A i \in queue'[d] : item'[i] = "processing"
  BY <1>3 DEF ItemHasOneWorker
<1>6. \A i \in Items : item'[i] = "processing" => i \in Owned' \cup stranded'
  BY <1>2 DEF ItemHasOneWorker
<1> QED
  BY <1>4, <1>5, <1>6 DEF ItemHasOneWorker

LEMMA WorkersDone ==
    ASSUME ItemHasOneWorker, TypeOK, NEW c \in Calls, NEW i \in Items, i \in queue[c],
           NEW s \in ItemStatuses, s # "processing", ItemDone(c, i, s)
    PROVE  ItemHasOneWorker'
<1>1. /\ queue'[c] = queue[c] \ {i} /\ \A d \in Calls : d # c => queue'[d] = queue[d]
      /\ item'[i] = s /\ \A j \in Items : j # i => item'[j] = item[j]
      /\ stranded' = stranded
  BY DEF ItemDone, TypeOK
<1>2. \A d \in Calls : queue'[d] \subseteq queue[d] /\ i \notin queue'[d] /\ queue'[d] \subseteq Items
  BY <1>1 DEF ItemHasOneWorker, TypeOK
<1>3. \A d, d2 \in Calls : d # d2 => queue'[d] \cap queue'[d2] = {}
  BY <1>2, Zenon DEF ItemHasOneWorker
<1>4. \A d \in Calls : \A j \in queue'[d] : item'[j] = "processing"
  BY <1>1, <1>2 DEF ItemHasOneWorker
<1>5. ASSUME NEW j \in Items, item'[j] = "processing"
      PROVE  j \in Owned' \cup stranded'
  <2>1. j # i /\ item[j] = "processing"
    BY <1>5, <1>1
  <2>2. j \in Owned \cup stranded
    BY <2>1 DEF ItemHasOneWorker
  <2> QED
    BY <2>1, <2>2, <1>1 DEF Owned
<1> QED
  BY <1>3, <1>4, <1>5 DEF ItemHasOneWorker

LEMMA WorkersStep ==
    ASSUME Base, [Next]_vars, TypeOK'
    PROVE  ItemHasOneWorker'
<1>0. TypeOK /\ PhaseOK /\ ItemHasOneWorker
  BY DEF Base
<1> USE <1>0
<1>1. CASE UNCHANGED <<queue, item, stranded>>
  BY <1>1, WorkersFrame
<1>2. ASSUME NEW c \in Calls, Leaves(c)
      PROVE  ItemHasOneWorker'
  <2>1. \E p, q : LeaveFor(c, p, q)
    BY <1>2, Leaving
  <2>2. stranded' = stranded \cup queue[c] /\ UNCHANGED item
    BY <1>2 DEF Leaves, NotAcquired, OnDemandEnds, SyncFails, MarkFailed, Release, Crash, PhaseOK
  <2> QED
    BY <2>1, <2>2, WorkersReturn
<1>3. ASSUME NEW c \in Calls, NEW P \in SUBSET Refs, NEW S \in SUBSET Refs, StagePage(c, P, S)
      PROVE  ItemHasOneWorker'
  <2>1. \A i \in Items : item'[i] = item[i] \/ (item[i] # "processing" /\ item'[i] # "processing")
    <3> TAKE i \in Items
    <3>1. CASE i[1] = run[c] /\ i[2] \in S
      <4>1. i = <<run[c], i[2]>> /\ i[2] \in left[c] /\ item'[i] = "pending"
        BY <3>1, <1>3, Pairs DEF StagePage
      <4> QED
        BY <4>1, <1>3 DEF StagePage, Base, StageOK
    <3>2. CASE ~ (i[1] = run[c] /\ i[2] \in S)
      BY <3>2, <1>3 DEF StagePage
    <3> QED
      BY <3>1, <3>2
  <2>2. UNCHANGED <<queue, stranded>>
    BY <1>3 DEF StagePage
  <2> QED
    BY <2>1, <2>2, WorkersFrame
<1>4. ASSUME NEW c \in Calls, NEW C \in SUBSET Items, Claim(c, C)
      PROVE  ItemHasOneWorker'
  <2>1. /\ queue'[c] = C /\ \A d \in Calls : d # c => queue'[d] = queue[d]
        /\ \A i \in C : item[i] = "pending" /\ item'[i] = "processing"
        /\ \A i \in Items \ C : item'[i] = item[i]
        /\ stranded' = stranded /\ queue[c] = {}
    <3>1. queue' = [queue EXCEPT ![c] = C] /\ stranded' = stranded /\ pc[c] = "claim"
      BY <1>4 DEF Claim
    <3>2. C \subseteq {i \in Items : item[i] = "pending"}
          /\ item' = [i \in Items |-> IF i \in C THEN "processing" ELSE item[i]]
      BY <1>4 DEF Claim, PendingItems
    <3>3. queue[c] = {}
      BY <3>1 DEF PhaseOK
    <3> QED
      BY <3>1, <3>2, <3>3 DEF TypeOK
  <2>2. \A d \in Calls : d # c => queue[d] \cap C = {} /\ queue[d] \subseteq Items \ C
    BY <2>1 DEF ItemHasOneWorker, TypeOK
  <2>3. \A d, d2 \in Calls : d # d2 => queue'[d] \cap queue'[d2] = {}
    <3> TAKE d, d2 \in Calls
    <3>1. CASE d # c /\ d2 # c
      <4>1. queue'[d] = queue[d] /\ queue'[d2] = queue[d2]
        BY <3>1, <2>1
      <4> QED
        BY <4>1, Zenon DEF ItemHasOneWorker
    <3> QED
      BY <3>1, <2>1, <2>2
  <2>4. \A d \in Calls : \A i \in queue'[d] : item'[i] = "processing"
    BY <2>1, <2>2 DEF ItemHasOneWorker
  <2>5. ASSUME NEW i \in Items, item'[i] = "processing"
        PROVE  i \in Owned' \cup stranded'
    <3>1. CASE i \in C
      BY <3>1, <2>1 DEF Owned
    <3>2. CASE i \notin C
      <4>1. i \in Owned \cup stranded
        BY <3>2, <2>1, <2>5 DEF ItemHasOneWorker
      <4> QED
        BY <4>1, <2>1 DEF Owned
    <3> QED
      BY <3>1, <3>2
  <2> QED
    BY <2>3, <2>4, <2>5 DEF ItemHasOneWorker
<1>5. ASSUME NEW c \in Calls, NEW i \in Items, ItemFails(c, i)
      PROVE  ItemHasOneWorker'
  <2>1. Retried(i) \in ItemStatuses /\ Retried(i) # "processing"
    BY <1>5, ItemFailsEffect DEF ItemStatuses
  <2> QED
    BY <1>5, <2>1, ItemFailsEffect, WorkersDone
<1>6. ASSUME NEW c \in Calls, Complete(c)
      PROVE  ItemHasOneWorker'
  <2>1. "succeeded" \in ItemStatuses
    BY DEF ItemStatuses
  <2> QED
    BY <1>6, <2>1, CompleteEffect, WorkersDone
<1>7. ASSUME NEW c \in Calls,
             \/ FindOpenRun(c) \/ FailInterrupted(c) \/ InsertRun(c) \/ MarkDiscoveryComplete(c) \/ WriteProduct(c)
             \/ WriteVariants(c) \/ ListFinalizable(c) \/ Acquire(c)
      PROVE  UNCHANGED <<queue, item, stranded>>
  BY <1>7 DEF FindOpenRun, FailInterrupted, InsertRun, MarkDiscoveryComplete, WriteProduct, WriteVariants,
              ListFinalizable, Acquire
<1>8. ASSUME NEW c \in Calls,
             \/ \E requested \in Modes : StartSync(c, requested)
             \/ \E i \in Items : Fetch(c, i)
             \/ \E r \in Refs : OnDemandFetch(c, r)
             \/ \E e \in ends[c] : FinalizeRun(c, e)
      PROVE  UNCHANGED <<queue, item, stranded>>
  BY <1>8 DEF StartSync, Fetch, OnDemandFetch, FinalizeRun
<1>9. CASE Tick \/ LeaseExpires \/ \E r \in Refs, t \in 0 .. MaxClock, k \in Kinds : ErpChange(r, t, k)
  BY <1>9, <1>1 DEF Tick, LeaseExpires, ErpChange
<1>10. CASE UNCHANGED vars
  BY <1>10, <1>1 DEF vars
<1> QED
  BY <1>1, <1>2, <1>3, <1>4, <1>5, <1>6, <1>7, <1>8, <1>9, <1>10 DEF Next, Leaves

-----------------------------------------------------------------------------
(* What the steps do to the rows                                            *)

\* An item that is staged or given up or imported stays as it is until the
\* call that works on it, or the one that stages its run, touches it.
LEMMA ItemStep ==
    ASSUME Base, [Next]_vars, NEW i \in Items
    PROVE  \/ item'[i] = item[i] /\ attempts'[i] = attempts[i]
           \/ item[i] \in {"pending", "processing"} /\ item'[i] # "none"
           \/ /\ attempts'[i] = attempts[i] /\ item'[i] = "pending" /\ item[i] = "none"
              /\ \E c \in Calls, P, S \in SUBSET Refs :
                    StagePage(c, P, S) /\ i[1] = run[c] /\ i[2] \in S
<1> DEFINE Goal == \/ item'[i] = item[i] /\ attempts'[i] = attempts[i]
                   \/ item[i] \in {"pending", "processing"} /\ item'[i] # "none"
                   \/ /\ attempts'[i] = attempts[i] /\ item'[i] = "pending" /\ item[i] = "none"
                      /\ \E c \in Calls, P, S \in SUBSET Refs :
                            StagePage(c, P, S) /\ i[1] = run[c] /\ i[2] \in S
<1>0. TypeOK
  BY DEF Base
<1>1. CASE UNCHANGED <<item, attempts>>
  BY <1>1
<1>2. ASSUME NEW c \in Calls, NEW j \in Items, NEW s \in ItemStatuses, ItemDone(c, j, s), s # "none",
             item[j] = "processing", \A k \in Items : k # j => attempts'[k] = attempts[k]
      PROVE  Goal
  BY <1>0, <1>2 DEF ItemDone, TypeOK
<1>3. ASSUME NEW c \in Calls, NEW j \in Items, ItemFails(c, j)
      PROVE  Goal
  <2>1. \A k \in Items : k # j => attempts'[k] = attempts[k]
    BY <1>0, <1>3 DEF ItemFails, TypeOK
  <2>2. Retried(j) \in ItemStatuses /\ Retried(j) # "none"
    BY <1>3, ItemFailsEffect DEF ItemStatuses
  <2> QED
    BY <2>1, <2>2, <1>2, <1>3, ItemFailsEffect
<1>4. ASSUME NEW c \in Calls, Complete(c)
      PROVE  Goal
  BY <1>2, <1>4, CompleteEffect DEF ItemStatuses
<1>5. ASSUME NEW c \in Calls, NEW P \in SUBSET Refs, NEW S \in SUBSET Refs, StagePage(c, P, S)
      PROVE  Goal
  <2>0. attempts'[i] = attempts[i]
    BY <1>5 DEF StagePage
  <2>1. CASE i[1] = run[c] /\ i[2] \in S
    <3>1. item'[i] = "pending"
      BY <2>1, <1>5, <1>0 DEF StagePage, TypeOK
    <3>2. i = <<run[c], i[2]>> /\ i[2] \in left[c] /\ pc[c] = "stage"
      BY <2>1, <1>5, Pairs DEF StagePage
    <3>3. item[i] = "none"
      BY <3>2, Zenon DEF Base, StageOK
    <3> QED
      BY <2>0, <2>1, <3>1, <3>3, <1>5
  <2>2. CASE ~ (i[1] = run[c] /\ i[2] \in S)
    <3>1. item'[i] = item[i]
      BY <2>2, <1>5, <1>0 DEF StagePage, TypeOK
    <3> QED
      BY <2>0, <3>1
  <2> QED
    BY <2>1, <2>2
<1>6. ASSUME NEW c \in Calls, NEW C \in SUBSET Items, Claim(c, C)
      PROVE  Goal
  BY <1>6, <1>0 DEF Claim, PendingItems, TypeOK
<1>7. ASSUME NEW c \in Calls,
             \/ FindOpenRun(c) \/ FailInterrupted(c) \/ InsertRun(c) \/ MarkDiscoveryComplete(c) \/ WriteProduct(c)
             \/ WriteVariants(c) \/ ListFinalizable(c) \/ Acquire(c)
             \/ Leaves(c)
      PROVE  UNCHANGED <<item, attempts>>
  BY <1>7 DEF FindOpenRun, FailInterrupted, InsertRun, MarkDiscoveryComplete, WriteProduct, WriteVariants,
              ListFinalizable, Acquire, Leaves, NotAcquired, OnDemandEnds, SyncFails, MarkFailed, Release, Crash
<1>8. ASSUME NEW c \in Calls,
             \/ \E requested \in Modes : StartSync(c, requested)
             \/ \E j \in Items : Fetch(c, j)
             \/ \E r \in Refs : OnDemandFetch(c, r)
             \/ \E e \in ends[c] : FinalizeRun(c, e)
      PROVE  UNCHANGED <<item, attempts>>
  BY <1>8 DEF StartSync, Fetch, OnDemandFetch, FinalizeRun
<1>9. CASE Tick \/ LeaseExpires \/ \E r \in Refs, t \in 0 .. MaxClock, k \in Kinds : ErpChange(r, t, k)
  BY <1>9, <1>1 DEF Tick, LeaseExpires, ErpChange
<1>10. CASE UNCHANGED vars
  BY <1>10, <1>1 DEF vars
<1>11. Goal
  BY <1>1, <1>3, <1>4, <1>5, <1>6, <1>7, <1>8, <1>9, <1>10 DEF Next, Leaves
<1> QED
  BY <1>11

\* A run row is created by InsertRun, in discovery; afterwards it may fail at
\* any time, go on to its items, or be closed as it was listed.  Its mode and
\* its window are those of its creation.
LEMMA RunStep ==
    ASSUME Base, [Next]_vars, NEW R \in RunIds
    PROVE  \/ /\ runStatus[R] = "none" /\ runStatus'[R] = "discovering" /\ windowEnd'[R] <= clock
              /\ \E c \in Calls : InsertRun(c) /\ run'[c] = R /\ runMode'[R] = mode[c]
           \/ /\ runMode'[R] = runMode[R] /\ windowEnd'[R] = windowEnd[R]
              /\ \/ runStatus'[R] = runStatus[R]
                 \/ runStatus'[R] = "failed"
                 \/ /\ runStatus'[R] = "processing"
                    /\ \E c \in Calls : MarkDiscoveryComplete(c) /\ run[c] = R
                 \/ /\ runStatus'[R] = "succeeded"
                    /\ \E c \in Calls : \E e \in ends[c] : FinalizeRun(c, e) /\ e.run = R /\ e.ok
<1> DEFINE Goal ==
           \/ /\ runStatus[R] = "none" /\ runStatus'[R] = "discovering" /\ windowEnd'[R] <= clock
              /\ \E c \in Calls : InsertRun(c) /\ run'[c] = R /\ runMode'[R] = mode[c]
           \/ /\ runMode'[R] = runMode[R] /\ windowEnd'[R] = windowEnd[R]
              /\ \/ runStatus'[R] = runStatus[R]
                 \/ runStatus'[R] = "failed"
                 \/ /\ runStatus'[R] = "processing"
                    /\ \E c \in Calls : MarkDiscoveryComplete(c) /\ run[c] = R
                 \/ /\ runStatus'[R] = "succeeded"
                    /\ \E c \in Calls : \E e \in ends[c] : FinalizeRun(c, e) /\ e.run = R /\ e.ok
<1>0. TypeOK
  BY DEF Base
<1>1. CASE UNCHANGED runVars
  BY <1>1
<1>2. ASSUME NEW c \in Calls, InsertRun(c)
      PROVE  Goal
  <2>1. PICK Q \in RunIds, t \in upTo[c] .. clock :
                /\ runStatus[Q] = "none"
                /\ runStatus' = [runStatus EXCEPT ![Q] = "discovering"]
                /\ runMode' = [runMode EXCEPT ![Q] = mode[c]]
                /\ windowEnd' = [windowEnd EXCEPT ![Q] = t]
                /\ run' = [run EXCEPT ![c] = Q]
    BY <1>2 DEF InsertRun
  <2>2. CASE R = Q
    BY <2>1, <2>2, <1>0, <1>2 DEF TypeOK
  <2>3. CASE R # Q
    BY <2>1, <2>3, <1>0 DEF TypeOK
  <2> QED
    BY <2>2, <2>3
<1>3. ASSUME NEW c \in Calls, MarkDiscoveryComplete(c)
      PROVE  Goal
  <2>1. /\ runStatus' = [runStatus EXCEPT ![run[c]] = "processing"] /\ UNCHANGED <<runMode, windowEnd>>
    BY <1>3 DEF MarkDiscoveryComplete
  <2>2. CASE R = run[c]
    BY <2>1, <2>2, <1>0, <1>3 DEF TypeOK
  <2>3. CASE R # run[c]
    BY <2>1, <2>3, <1>0 DEF TypeOK
  <2> QED
    BY <2>2, <2>3
<1>4. ASSUME NEW c \in Calls, NEW e \in ends[c], FinalizeRun(c, e)
      PROVE  Goal
  <2>1. /\ runStatus' = [runStatus EXCEPT ![e.run] = IF e.ok THEN "succeeded" ELSE "failed"]
        /\ UNCHANGED <<runMode, windowEnd>>
    BY <1>4 DEF FinalizeRun
  <2>2. CASE R = e.run
    BY <2>1, <2>2, <1>0, <1>4 DEF TypeOK
  <2>3. CASE R # e.run
    BY <2>1, <2>3, <1>0 DEF TypeOK
  <2> QED
    BY <2>2, <2>3
<1>5. ASSUME NEW c \in Calls, FailInterrupted(c) \/ MarkFailed(c)
      PROVE  Goal
  <2>1. /\ runStatus' = runStatus \/ runStatus' = [runStatus EXCEPT ![run[c]] = "failed"]
        /\ UNCHANGED <<runMode, windowEnd>>
    BY <1>5 DEF FailInterrupted, MarkFailed
  <2> QED
    BY <2>1, <1>0 DEF TypeOK
<1>6. ASSUME NEW c \in Calls,
             \/ FindOpenRun(c) \/ WriteProduct(c) \/ Complete(c)
             \/ WriteVariants(c) \/ ListFinalizable(c) \/ Acquire(c)
             \/ NotAcquired(c) \/ OnDemandEnds(c) \/ SyncFails(c) \/ Release(c) \/ Crash(c)
      PROVE  UNCHANGED runVars
  BY <1>6 DEF FindOpenRun, WriteProduct, WriteVariants, Complete, ItemDone,
              ListFinalizable, Acquire, NotAcquired, OnDemandEnds, SyncFails, Release, Crash
<1>7. ASSUME NEW c \in Calls,
             \/ \E requested \in Modes : StartSync(c, requested)
             \/ \E j \in Items : Fetch(c, j) \/ ItemFails(c, j)
             \/ \E r \in Refs : OnDemandFetch(c, r)
             \/ \E P, S \in SUBSET Refs : StagePage(c, P, S)
             \/ \E C \in SUBSET Items : Claim(c, C)
      PROVE  UNCHANGED runVars
  BY <1>7 DEF StartSync, Fetch, ItemFails, ItemDone, OnDemandFetch, StagePage, Claim
<1>8. CASE Tick \/ LeaseExpires \/ \E r \in Refs, t \in 0 .. MaxClock, k \in Kinds : ErpChange(r, t, k)
  BY <1>8, <1>1 DEF Tick, LeaseExpires, ErpChange
<1>9. CASE UNCHANGED vars
  BY <1>9, <1>1 DEF vars
<1>10. Goal
  BY <1>1, <1>2, <1>3, <1>4, <1>5, <1>6, <1>7, <1>8, <1>9 DEF Next
<1> QED
  BY <1>10

\* A call that stages was staging or has just inserted its run; one that has
\* runs to close had them or has just listed them.
LEMMA CallStep ==
    ASSUME Base, [Next]_vars, NEW c \in Calls
    PROVE  /\ pc'[c] = "stage" => \/ /\ pc[c] = "stage" /\ run'[c] = run[c]
                                     /\ left'[c] \subseteq left[c] /\ ~ MarkDiscoveryComplete(c)
                                  \/ InsertRun(c)
           /\ ends'[c] \subseteq ends[c] \/ ListFinalizable(c)
<1> DEFINE Goal == 
           /\ pc'[c] = "stage" => \/ /\ pc[c] = "stage" /\ run'[c] = run[c]
                                     /\ left'[c] \subseteq left[c] /\ ~ MarkDiscoveryComplete(c)
                                  \/ InsertRun(c)
           /\ ends'[c] \subseteq ends[c] \/ ListFinalizable(c)
<1>0. TypeOK
  BY DEF Base
<1>a. MarkDiscoveryComplete(c) => pc'[c] = "claim"
  BY <1>0 DEF MarkDiscoveryComplete, TypeOK
<1>1. CASE UNCHANGED <<pc, run, left, ends>>
  BY <1>1, <1>a
<1>2. ASSUME NEW d \in Calls, NEW p \in {"idle", "fail", "release"}, NEW q, LeaveFor(d, p, q)
      PROVE  Goal
  BY <1>0, <1>a, <1>2 DEF LeaveFor, TypeOK
<1>3. ASSUME NEW d \in Calls,
             \/ FindOpenRun(d) \/ FailInterrupted(d) \/ MarkDiscoveryComplete(d)
             \/ WriteProduct(d) \/ WriteVariants(d) \/ Acquire(d)
             \/ \E requested \in Modes : StartSync(d, requested)
             \/ \E j \in Items : Fetch(d, j)
             \/ \E r \in Refs : OnDemandFetch(d, r)
             \/ \E C \in SUBSET Items : Claim(d, C)
      PROVE  Goal
  <2>1. UNCHANGED <<left, ends>> /\ (UNCHANGED run \/ FindOpenRun(d) \/ FailInterrupted(d))
    BY <1>3 DEF FindOpenRun, FailInterrupted, MarkDiscoveryComplete, WriteProduct, WriteVariants, Acquire,
                StartSync, Fetch, OnDemandFetch, Claim
  <2>2. \E p \in Phases \ {"stage"} : pc' = [pc EXCEPT ![d] = p]
    <3>1. CASE WriteProduct(d)
      BY <3>1 DEF WriteProduct, Phases
    <3>2. CASE FindOpenRun(d)
      <4>1. \E p \in {"interrupted", "insert", "claim"} : pc' = [pc EXCEPT ![d] = p]
        BY <3>2, Zenon DEF FindOpenRun
      <4> QED
        BY <4>1 DEF Phases
    <3>3. CASE MarkDiscoveryComplete(d) \/ FailInterrupted(d)
      BY <3>3 DEF MarkDiscoveryComplete, FailInterrupted, Phases
    <3>4. CASE WriteVariants(d) \/ Acquire(d)
      BY <3>4, <1>0 DEF WriteVariants, Acquire, Phases, TypeOK
    <3>5. CASE \/ \E requested \in Modes : StartSync(d, requested)
               \/ \E j \in Items : Fetch(d, j)
               \/ \E r \in Refs : OnDemandFetch(d, r)
               \/ \E C \in SUBSET Items : Claim(d, C)
      BY <3>5 DEF StartSync, Fetch, OnDemandFetch, Claim, Phases
    <3> QED
      BY <1>3, <3>1, <3>2, <3>3, <3>4, <3>5
  <2>3. d # c => pc'[c] = pc[c] /\ run'[c] = run[c]
    <3>1. UNCHANGED run \/ \E R : run' = [run EXCEPT ![d] = R]
      BY <2>1 DEF FindOpenRun, FailInterrupted
    <3> QED
      BY <2>2, <3>1, <1>0 DEF TypeOK
  <2>4. d = c => pc'[c] # "stage"
    BY <2>2, <1>0 DEF TypeOK
  <2> QED
    BY <2>1, <2>3, <2>4, <1>a
<1>4. ASSUME NEW d \in Calls, InsertRun(d)
      PROVE  Goal
  <2>1. ends' = ends /\ pc' = [pc EXCEPT ![d] = "stage"] /\ left' = [left EXCEPT ![d] = Refs]
    BY <1>4 DEF InsertRun
  <2>2. \E R \in RunIds : run' = [run EXCEPT ![d] = R]
    BY <1>4 DEF InsertRun
  <2>3. CASE d = c
    BY <2>1, <2>3, <1>4
  <2>4. CASE d # c
    BY <2>1, <2>2, <2>4, <1>0, <1>a DEF TypeOK
  <2> QED
    BY <2>3, <2>4
<1>5. ASSUME NEW d \in Calls, NEW P \in SUBSET Refs, NEW S \in SUBSET Refs, StagePage(d, P, S)
      PROVE  Goal
  BY <1>5, <1>0, <1>a DEF StagePage, TypeOK
<1>6. ASSUME NEW d \in Calls, NEW i \in Items, NEW s \in ItemStatuses, ItemDone(d, i, s)
      PROVE  Goal
  BY <1>6, <1>0, <1>a DEF ItemDone, TypeOK
<1>7. ASSUME NEW d \in Calls, NEW i \in Items, ItemFails(d, i)
      PROVE  Goal
  BY <1>6, <1>7, ItemFailsEffect DEF ItemStatuses
<1>8. ASSUME NEW d \in Calls, Complete(d)
      PROVE  Goal
  BY <1>6, <1>8, CompleteEffect DEF ItemStatuses
<1>9. ASSUME NEW d \in Calls, ListFinalizable(d) \/ \E e \in ends[d] : FinalizeRun(d, e)
      PROVE  Goal
  BY <1>9, <1>0, <1>a DEF ListFinalizable, FinalizeRun, TypeOK
<1>10. ASSUME NEW d \in Calls,
              Leaves(d)
       PROVE  Goal
  BY <1>0, <1>2, <1>10, Leaving
<1>11. CASE Tick \/ LeaseExpires \/ \E r \in Refs, t \in 0 .. MaxClock, k \in Kinds : ErpChange(r, t, k)
  BY <1>11, <1>1 DEF Tick, LeaseExpires, ErpChange
<1>12. CASE UNCHANGED vars
  BY <1>12, <1>1 DEF vars
<1>13. Goal
  BY <1>3, <1>4, <1>5, <1>7, <1>8, <1>9, <1>10, <1>11, <1>12 DEF Next, Leaves
<1> QED
  BY <1>13

LEMMA UntouchedStep ==
    ASSUME Base, [Next]_vars, TypeOK'
    PROVE  Untouched'
<1> SUFFICES ASSUME NEW i \in Items
             PROVE  /\ item'[i] = "none" => attempts'[i] = 0
                    /\ runStatus'[i[1]] = "none" => item'[i] = "none"
  BY DEF Untouched
<1>1. i[1] \in RunIds
  BY Pairs
<1>2. item'[i] = "none" => item[i] = "none" /\ attempts'[i] = attempts[i]
  BY ItemStep
<1>3. item[i] = "none" => attempts[i] = 0
  BY DEF Base, Untouched
<1>4. runStatus'[i[1]] = "none" => runStatus[i[1]] = "none"
  BY <1>1, RunStep
<1>5. runStatus[i[1]] = "none" => item[i] = "none"
  BY DEF Base, Untouched
<1>6. ASSUME runStatus'[i[1]] = "none", item'[i] # "none"
      PROVE  FALSE
  <2>1. item[i] = "none" /\ runStatus[i[1]] = "none"
    BY <1>4, <1>5, <1>6
  <2>2. \E c \in Calls : pc[c] = "stage" /\ i[1] = run[c]
    BY <2>1, <1>6, ItemStep DEF StagePage
  <2> QED
    BY <2>1, <2>2 DEF Base, StageOK
<1> QED
  BY <1>2, <1>3, <1>6

LEMMA StageStep ==
    ASSUME Base, [Next]_vars, TypeOK'
    PROVE  StageOK'
<1>0. TypeOK /\ StageOK /\ Untouched /\ EndsOK
  BY DEF Base
\* The run that a call has just inserted.
<1>1. ASSUME NEW c \in Calls, InsertRun(c)
      PROVE  /\ pc'[c] = "stage" /\ run'[c] \in RunIds /\ runStatus[run'[c]] = "none"
             /\ runStatus'[run'[c]] = "discovering" /\ item' = item /\ ends' = ends
             /\ \A d \in Calls : d # c => pc'[d] = pc[d] /\ run'[d] = run[d]
  BY <1>0, <1>1 DEF InsertRun, TypeOK
<1>2. ASSUME NEW c \in Calls, NEW d \in Calls, d # c, pc[c] = "stage", pc[d] = "stage"
      PROVE  run[c] # run[d]
  BY <1>0, <1>2 DEF StageOK
\* A run that is staged and goes on being staged.
<1>3. ASSUME NEW c \in Calls, pc[c] = "stage", pc'[c] = "stage", run'[c] = run[c],
             ~ MarkDiscoveryComplete(c)
      PROVE  runStatus'[run[c]] \in {"discovering", "failed"}
  <2>1. run[c] \in RunIds /\ runStatus[run[c]] \in {"discovering", "failed"}
    BY <1>0, <1>3 DEF StageOK
  <2>2. ~ \E d \in Calls : MarkDiscoveryComplete(d) /\ run[d] = run[c]
    BY <1>2, <1>3 DEF MarkDiscoveryComplete
  <2>3. ~ \E d \in Calls : \E e \in ends[d] : e.run = run[c]
    BY <1>0, <1>3 DEF StageOK
  <2> QED
    BY <2>1, <2>2, <2>3, RunStep
<1>4. ASSUME NEW c \in Calls, pc[c] = "stage", NEW r \in left[c]
      PROVE  \/ item'[<<run[c], r>>] = "none"
             \/ \E P, S \in SUBSET Refs : StagePage(c, P, S) /\ r \in P
  <2>1. r \in Refs /\ run[c] \in RunIds /\ item[<<run[c], r>>] = "none"
    BY <1>0, <1>4 DEF StageOK, TypeOK
  <2>2. <<run[c], r>> \in Items /\ <<run[c], r>>[1] = run[c] /\ <<run[c], r>>[2] = r
    BY <2>1, Pairs
  <2>3. \/ item'[<<run[c], r>>] = "none"
        \/ \E d \in Calls, P, S \in SUBSET Refs : StagePage(d, P, S) /\ run[c] = run[d] /\ r \in P
    <3>1. \A d \in Calls, P, S \in SUBSET Refs : StagePage(d, P, S) => S \subseteq P
      BY DEF StagePage
    <3> QED
      BY <2>1, <2>2, <3>1, ItemStep
  <2>4. ASSUME NEW d \in Calls, NEW P \in SUBSET Refs, NEW S \in SUBSET Refs, StagePage(d, P, S), run[c] = run[d]
        PROVE  d = c
    BY <2>4, <1>2, <1>4 DEF StagePage
  <2> QED
    BY <2>3, <2>4
<1> SUFFICES ASSUME NEW c \in Calls, pc'[c] = "stage"
             PROVE  /\ run'[c] \in RunIds
                    /\ runStatus'[run'[c]] \in {"discovering", "failed"}
                    /\ \A r \in left'[c] : item'[<<run'[c], r>>] = "none"
                    /\ \A d \in Calls : d # c /\ pc'[d] = "stage" => run'[d] # run'[c]
                    /\ \A d \in Calls : \A e \in ends'[d] : e.run # run'[c]
  BY DEF StageOK
<1>5. CASE InsertRun(c)
  <2>1. \A r \in left'[c] : item'[<<run'[c], r>>] = "none"
    <3> TAKE r \in left'[c]
    <3>1. r \in Refs
      BY DEF TypeOK
    <3> QED
      BY <3>1, <1>0, <1>1, <1>5, Pairs DEF Untouched
  <2>2. \A d \in Calls : d # c /\ pc'[d] = "stage" => run'[d] # run'[c]
    BY <1>0, <1>1, <1>5 DEF StageOK
  <2>3. \A d \in Calls : \A e \in ends'[d] : e.run # run'[c]
    BY <1>0, <1>1, <1>5 DEF EndsOK
  <2> QED
    BY <1>1, <1>5, <2>1, <2>2, <2>3
<1>6. CASE pc[c] = "stage" /\ run'[c] = run[c] /\ left'[c] \subseteq left[c] /\ ~ MarkDiscoveryComplete(c)
  <2>1. run'[c] \in RunIds /\ runStatus'[run'[c]] \in {"discovering", "failed"}
    BY <1>0, <1>3, <1>6 DEF StageOK
  <2>2. \A r \in left'[c] : item'[<<run'[c], r>>] = "none"
    <3> TAKE r \in left'[c]
    <3>1. r \in left[c]
      BY <1>6
    <3>2. ~ \E P, S \in SUBSET Refs : StagePage(c, P, S) /\ r \in P
      BY <1>0 DEF StagePage, TypeOK
    <3> QED
      BY <3>1, <3>2, <1>4, <1>6
  <2>3. \A d \in Calls : d # c /\ pc'[d] = "stage" => run'[d] # run'[c]
    <3> TAKE d \in Calls
    <3>1. CASE InsertRun(d) /\ d # c
      BY <3>1, <1>0, <1>1, <1>6 DEF StageOK
    <3>2. CASE pc[d] = "stage" /\ run'[d] = run[d]
      BY <3>2, <1>2, <1>6
    <3> QED
      BY <3>1, <3>2, CallStep
  <2>4. \A d \in Calls : \A e \in ends'[d] : e.run # run'[c]
    <3> TAKE d \in Calls
    <3>1. CASE ends'[d] \subseteq ends[d]
      BY <3>1, <1>0, <1>6 DEF StageOK
    <3>2. CASE ListFinalizable(d)
      <4>1. \A e \in ends'[d] : runStatus[e.run] = "processing"
        BY <3>2, <1>0 DEF ListFinalizable, Finalizable, TypeOK
      <4>2. runStatus[run[c]] \in {"discovering", "failed"}
        BY <1>0, <1>6 DEF StageOK
      <4> QED
        BY <4>1, <4>2, <1>6
    <3> QED
      BY <3>1, <3>2, CallStep
  <2> QED
    BY <2>1, <2>2, <2>3, <2>4
<1> QED
  BY <1>5, <1>6, CallStep

LEMMA EndsStep ==
    ASSUME Base, [Next]_vars, TypeOK'
    PROVE  EndsOK'
<1>0. TypeOK /\ StageOK /\ EndsOK
  BY DEF Base
<1> SUFFICES ASSUME NEW c \in Calls, NEW e \in ends'[c]
             PROVE  /\ runStatus'[e.run] \notin {"none", "discovering"}
                    /\ \A i \in ItemsOf(e.run) : item'[i] \notin {"pending", "processing"}
                    /\ e.ok => NoneFailed(e.run)'
  BY DEF EndsOK, ItemsOf
<1>1. e.run \in RunIds
  BY DEF TypeOK
\* Before the step the run was over as well.
<1>2. /\ runStatus[e.run] \notin {"none", "discovering"}
      /\ \A i \in ItemsOf(e.run) : item[i] \notin {"pending", "processing"}
      /\ e.ok => NoneFailed(e.run)
  <2>1. CASE ends'[c] \subseteq ends[c]
    BY <2>1, <1>0 DEF EndsOK
  <2>2. CASE ListFinalizable(c)
    <3>1. \E R \in RunIds : Finalizable(R) /\ e = [run |-> R, ok |-> NoneFailed(R)]
      BY <2>2, <1>0 DEF ListFinalizable, TypeOK
    <3> QED
      BY <3>1 DEF Finalizable
  <2> QED
    BY <2>1, <2>2, CallStep
<1>3. runStatus'[e.run] \notin {"none", "discovering"}
  BY <1>1, <1>2, RunStep
<1>4. \A i \in ItemsOf(e.run) : item'[i] = item[i]
  <2> TAKE i \in ItemsOf(e.run)
  <2>1. i \in Items /\ i[1] = e.run /\ item[i] \notin {"pending", "processing"}
    BY <1>2 DEF ItemsOf
  <2>2. ~ \E d \in Calls, P, S \in SUBSET Refs : StagePage(d, P, S) /\ i[1] = run[d]
    <3> SUFFICES ASSUME NEW d \in Calls, NEW P \in SUBSET Refs, NEW S \in SUBSET Refs, StagePage(d, P, S), e.run = run[d]
                 PROVE  FALSE
      BY <2>1
    <3>1. pc[d] = "stage" /\ ends' = ends
      BY DEF StagePage
    <3> QED
      BY <3>1, <1>0 DEF StageOK
  <2> QED
    BY <2>1, <2>2, ItemStep
<1> QED
  BY <1>2, <1>3, <1>4 DEF NoneFailed, ItemsOf

LEMMA InitBase ==
    ASSUME Init
    PROVE  Base
<1>1. TypeOK
  <2>1. /\ clock \in Nat /\ erpVer \in [Refs -> Nat]
        /\ listed \subseteq Refs /\ blocked \subseteq Refs \ listed
        /\ checkpoint \in Nat /\ lease \in Calls \cup {None}
        /\ changes \in Nat /\ disturbances \in Nat
    BY DEF Init
  <2>2. fullDue \in BOOLEAN /\ late \in BOOLEAN
    BY DEF Init
  <2>3. /\ runMode \in [RunIds -> Modes] /\ runStatus \in [RunIds -> RunStatuses]
        /\ windowEnd \in [RunIds -> Nat]
        /\ item \in [Items -> ItemStatuses] /\ attempts \in [Items -> 0 .. MaxAttempts]
        /\ \A i \in Items : item[i] \in {"pending", "processing"} => attempts[i] < MaxAttempts
    BY DEF Init, Modes, RunStatuses, ItemStatuses
  <2>4. /\ ver \in [Refs -> Nat] /\ variants \in [Refs -> Nat] /\ active \subseteq Refs
        /\ seenBy \in [Refs -> RunIds \cup {NoRun}]
        /\ stranded \subseteq Items /\ raced \subseteq Refs /\ hidden \subseteq Refs /\ marked \subseteq Items
    BY DEF Init
  <2>5. /\ pc \in [Calls -> Phases] /\ mode \in [Calls -> Modes] /\ from \in [Calls -> Nat]
        /\ run \in [Calls -> RunIds \cup {NoRun}] /\ left \in [Calls -> SUBSET Refs]
        /\ queue \in [Calls -> SUBSET Items]
        /\ cur \in [Calls -> ((RunIds \cup {NoRun}) \X Refs) \cup {None}]
        /\ upTo \in [Calls -> Nat] /\ pub \in [Calls -> BOOLEAN]
        /\ snap \in [Calls -> Nat] /\ ends \in [Calls -> SUBSET [run : RunIds, ok : BOOLEAN]]
    BY DEF Init, Modes, Phases
  <2> QED
    BY <2>1, <2>2, <2>3, <2>4, <2>5 DEF TypeOK
<1>2. PhaseOK /\ StageOK /\ Untouched
  BY Pairs DEF Init, PhaseOK, StageOK, Untouched
<1>3. EndsOK /\ ItemHasOneWorker
  BY DEF Init, EndsOK, ItemHasOneWorker
<1> QED
  BY <1>1, <1>2, <1>3 DEF Base

\* Base is inductive: a step keeps each of its conjuncts.
LEMMA BaseStep ==
    ASSUME Base, [Next]_vars
    PROVE  Base'
<1>1. TypeOK'
  BY TypeStep
<1> QED
  BY <1>1, PhaseStep, StageStep, UntouchedStep, EndsStep, WorkersStep DEF Base

LEMMA AlwaysBase == Spec => []Base
BY InitBase, BaseStep, PTL DEF Spec

\* The tables and the calls keep their types, and an item that is open has
\* attempts left.
THEOREM TypeCorrect == Spec => []TypeOK
<1>1. Base => TypeOK
  BY DEF Base
<1> QED
  BY <1>1, AlwaysBase, PTL

\* However many calls go on after their lease ran out, no two of them work on
\* one item (claimDueCatalogSyncItemRows), and an item in 'processing' that no
\* call holds was left by a call that stopped.
THEOREM OneWorkerPerItem == Spec => []ItemHasOneWorker
<1>1. Base => ItemHasOneWorker
  BY DEF Base
<1> QED
  BY <1>1, AlwaysBase, PTL

-----------------------------------------------------------------------------
(* Runs that are closed                                                     *)

\* A run that is closed as succeeded imported everything it staged: nothing is
\* added to a run that was listed as finished (listFinalizableCatalogSyncRunRows),
\* and no call still works on its items.
THEOREM SucceededRunsAreComplete == Spec => []SucceededRunIsComplete
<1>1. Init => SucceededRunIsComplete
  BY DEF Init, SucceededRunIsComplete
<1>2. ASSUME Base, SucceededRunIsComplete, [Next]_vars
      PROVE  SucceededRunIsComplete'
  <2> SUFFICES ASSUME NEW R \in RunIds, runStatus'[R] = "succeeded", NEW i \in Items, i[1] = R
               PROVE  item'[i] \in {"none", "succeeded"}
    BY DEF SucceededRunIsComplete, ItemsOf
  <2>0. StageOK /\ EndsOK /\ TypeOK
    BY <1>2 DEF Base
  <2>1. item[i] \in {"none", "succeeded"} /\ runStatus[R] \notin {"none", "discovering"}
        /\ ~ \E c \in Calls : pc[c] = "stage" /\ run[c] = R
    <3>1. CASE runStatus[R] = "succeeded"
      BY <3>1, <2>0, <1>2 DEF SucceededRunIsComplete, ItemsOf, StageOK
    <3>2. CASE \E c \in Calls : \E e \in ends[c] : FinalizeRun(c, e) /\ e.run = R /\ e.ok
      <4>1. PICK c \in Calls : \E e \in ends[c] : e.run = R /\ e.ok
        BY <3>2
      <4>2. item[i] \notin {"pending", "processing"} /\ item[i] # "failed"
        BY <4>1, <2>0 DEF EndsOK, NoneFailed, ItemsOf
      <4>3. item[i] \in ItemStatuses
        BY <2>0 DEF TypeOK
      <4> QED
        BY <4>1, <4>2, <4>3, <2>0 DEF EndsOK, StageOK, ItemStatuses
    <3> QED
      BY <3>1, <3>2, <1>2, RunStep
  <2> QED
    BY <2>1, <1>2, ItemStep DEF StagePage
<1> QED
  BY <1>1, <1>2, AlwaysBase, PTL DEF Spec

-----------------------------------------------------------------------------
(* The lease and the checkpoint                                             *)

\* Nothing is dated after now, and no window starts less than the overlap ago.
Dates ==
    /\ checkpoint <= clock
    /\ \A R \in RunIds : windowEnd[R] <= clock
    /\ \A c \in Calls : from[c] = 0 \/ from[c] + Overlap <= clock

\* As long as no call outlived its lease, the call at work holds it, and the
\* window it is discovering ends after the checkpoint.
LeaseOK ==
    ~ late => \A c \in Calls :
        /\ InSync(c) => lease = c
        /\ pc[c] = "insert" => upTo[c] >= checkpoint
        /\ pc[c] = "stage" => windowEnd[run[c]] >= checkpoint

LEMMA FromMoves ==
    ASSUME Base, [Next]_vars, NEW c \in Calls
    PROVE  from'[c] = from[c] \/ from'[c] = 0 \/ from'[c] + Overlap = checkpoint
<1>0. TypeOK
  BY DEF Base
<1>1. CASE UNCHANGED from
  BY <1>1
<1>2. ASSUME NEW d \in Calls, NEW requested \in Modes, StartSync(d, requested)
      PROVE  from'[c] = from[c] \/ from'[c] = 0 \/ from'[c] + Overlap = checkpoint
  <2>1. CASE d # c
    BY <2>1, <1>2, <1>0 DEF StartSync, TypeOK
  <2>2. CASE d = c
    <3>1. from'[c] = WindowStart(ChooseMode(requested))
      BY <2>2, <1>2, <1>0 DEF StartSync, TypeOK
    <3> QED
      BY <3>1, <1>0 DEF WindowStart, TypeOK
  <2> QED
    BY <2>1, <2>2
<1>3. ASSUME NEW d \in Calls, MarkDiscoveryComplete(d) \/ \E p, q : LeaveFor(d, p, q)
      PROVE  from'[c] = from[c] \/ from'[c] = 0
  BY <1>3, <1>0 DEF LeaveFor, MarkDiscoveryComplete, TypeOK
<1>4. CASE \E d \in Calls :
           \/ Acquire(d) \/ FindOpenRun(d) \/ FailInterrupted(d) \/ InsertRun(d)
           \/ \E P, S \in SUBSET Refs : StagePage(d, P, S)
           \/ \E C \in SUBSET Items : Claim(d, C)
           \/ \E i \in Items : Fetch(d, i) \/ ItemFails(d, i)
           \/ Complete(d) \/ WriteProduct(d) \/ WriteVariants(d)
           \/ \E r \in Refs : OnDemandFetch(d, r)
           \/ ListFinalizable(d)
           \/ \E e \in ends[d] : FinalizeRun(d, e)
  BY <1>4, <1>1 DEF Acquire, FindOpenRun, FailInterrupted, InsertRun, StagePage, Claim, Fetch, ItemFails, ItemDone,
                    Complete, WriteProduct, WriteVariants, OnDemandFetch, ListFinalizable, FinalizeRun
<1>5. CASE \E d \in Calls : Leaves(d)
  BY <1>0, <1>5, <1>3, Leaving
<1>6. CASE Tick \/ LeaseExpires \/ \E r \in Refs, t \in 0 .. MaxClock, k \in Kinds : ErpChange(r, t, k)
  BY <1>6, <1>1 DEF Tick, LeaseExpires, ErpChange
<1>7. CASE UNCHANGED vars
  BY <1>7, <1>1 DEF vars
<1> QED
  BY <1>2, <1>3, <1>4, <1>5, <1>6, <1>7 DEF Next, Leaves

LEMMA CheckpointMoves ==
    ASSUME Base, [Next]_vars
    PROVE  \/ checkpoint' = checkpoint
           \/ \E c \in Calls : MarkDiscoveryComplete(c) /\ checkpoint' = windowEnd[run[c]]
<1>1. CASE UNCHANGED checkpoint
  BY <1>1
<1>2. ASSUME NEW c \in Calls,
             \/ \E requested \in Modes : StartSync(c, requested)
             \/ Acquire(c) \/ NotAcquired(c) \/ FindOpenRun(c) \/ FailInterrupted(c) \/ InsertRun(c)
             \/ \E P, S \in SUBSET Refs : StagePage(c, P, S)
             \/ \E C \in SUBSET Items : Claim(c, C)
             \/ \E i \in Items : Fetch(c, i)
             \/ \E i \in Items : ItemFails(c, i)
             \/ Complete(c)
      PROVE  UNCHANGED checkpoint
  BY <1>2 DEF StartSync, Acquire, NotAcquired, FindOpenRun, FailInterrupted, InsertRun, StagePage, Claim, Fetch,
              ItemFails, ItemDone, Complete
<1>3. ASSUME NEW c \in Calls,
             \/ WriteProduct(c) \/ WriteVariants(c)
             \/ \E r \in Refs : OnDemandFetch(c, r)
             \/ OnDemandEnds(c) \/ ListFinalizable(c)
             \/ \E e \in ends[c] : FinalizeRun(c, e)
             \/ SyncFails(c) \/ MarkFailed(c) \/ Release(c) \/ Crash(c)
      PROVE  UNCHANGED checkpoint
  BY <1>3 DEF WriteProduct, WriteVariants, OnDemandFetch, OnDemandEnds, ListFinalizable,
              FinalizeRun, SyncFails, MarkFailed, Release, Crash
<1>4. ASSUME NEW c \in Calls, MarkDiscoveryComplete(c)
      PROVE  checkpoint' = windowEnd[run[c]]
  BY <1>4 DEF MarkDiscoveryComplete
<1>5. CASE Tick \/ LeaseExpires \/ \E r \in Refs, t \in 0 .. MaxClock, k \in Kinds : ErpChange(r, t, k)
  BY <1>5, <1>1 DEF Tick, LeaseExpires, ErpChange
<1>6. CASE UNCHANGED vars
  BY <1>6, <1>1 DEF vars
<1> QED
  BY <1>1, <1>2, <1>3, <1>4, <1>5, <1>6 DEF Next

LEMMA DatesStep ==
    ASSUME Base, Dates, [Next]_vars
    PROVE  Dates'
<1>0. TypeOK /\ StageOK
  BY DEF Base
<1>1. clock' >= clock /\ clock' \in Nat
  <2>1. CASE Tick
    BY <2>1, <1>0 DEF Tick, TypeOK
  <2>2. CASE UNCHANGED clock
    BY <2>2, <1>0 DEF TypeOK
  <2>3. CASE \E c \in Calls :
             \/ \E requested \in Modes : StartSync(c, requested)
             \/ Acquire(c) \/ NotAcquired(c) \/ FindOpenRun(c) \/ FailInterrupted(c) \/ InsertRun(c)
             \/ \E P, S \in SUBSET Refs : StagePage(c, P, S)
             \/ MarkDiscoveryComplete(c)
             \/ \E C \in SUBSET Items : Claim(c, C)
    BY <2>3, <2>2 DEF StartSync, Acquire, NotAcquired, FindOpenRun, FailInterrupted, InsertRun, StagePage,
                      MarkDiscoveryComplete, Claim
  <2>4. CASE \E c \in Calls :
             \/ \E i \in Items : Fetch(c, i) \/ ItemFails(c, i)
             \/ Complete(c) \/ WriteProduct(c) \/ WriteVariants(c)
             \/ \E r \in Refs : OnDemandFetch(c, r)
             \/ OnDemandEnds(c) \/ ListFinalizable(c)
             \/ \E e \in ends[c] : FinalizeRun(c, e)
             \/ SyncFails(c) \/ MarkFailed(c) \/ Release(c) \/ Crash(c)
    BY <2>4, <2>2 DEF Fetch, ItemFails, ItemDone, Complete, WriteProduct, WriteVariants,
                      OnDemandFetch, OnDemandEnds, ListFinalizable, FinalizeRun, SyncFails, MarkFailed, Release, Crash
  <2>5. CASE LeaseExpires \/ \E r \in Refs, t \in 0 .. MaxClock, k \in Kinds : ErpChange(r, t, k)
    BY <2>5, <2>2 DEF LeaseExpires, ErpChange
  <2>6. CASE UNCHANGED vars
    BY <2>6, <2>2 DEF vars
  <2> QED
    BY <2>1, <2>3, <2>4, <2>5, <2>6 DEF Next
<1>2. checkpoint' \in Nat /\ checkpoint' <= clock'
  <2>1. CASE checkpoint' = checkpoint
    BY <2>1, <1>0, <1>1 DEF Dates, TypeOK
  <2>2. ASSUME NEW c \in Calls, MarkDiscoveryComplete(c), checkpoint' = windowEnd[run[c]]
        PROVE  checkpoint' \in Nat /\ checkpoint' <= clock'
    <3>1. run[c] \in RunIds
      BY <2>2, <1>0 DEF MarkDiscoveryComplete, StageOK
    <3> QED
      BY <2>2, <3>1, <1>0, <1>1 DEF Dates, TypeOK
  <2> QED
    BY <2>1, <2>2, CheckpointMoves
<1>3. \A R \in RunIds : windowEnd'[R] <= clock'
  <2> TAKE R \in RunIds
  <2>1. windowEnd'[R] = windowEnd[R] \/ windowEnd'[R] <= clock
    BY RunStep
  <2>2. windowEnd[R] <= clock /\ windowEnd[R] \in Nat /\ clock \in Nat /\ windowEnd'[R] \in Nat
    BY <1>0, TypeStep DEF Dates, TypeOK
  <2> QED
    BY <1>1, <2>1, <2>2
<1>4. \A c \in Calls : from'[c] = 0 \/ from'[c] + Overlap <= clock'
  BY <1>0, <1>1, FromMoves DEF Dates, TypeOK
<1> QED
  BY <1>2, <1>3, <1>4 DEF Dates

\* A call gets into the sync through the lease only.
LEMMA SyncStep ==
    ASSUME Base, [Next]_vars, NEW c \in Calls, InSync(c)'
    PROVE  InSync(c) \/ Acquire(c)
<1>0. TypeOK /\ PhaseOK
  BY DEF Base
<1> USE DEF InSync
<1>1. CASE UNCHANGED pc
  BY <1>1
<1>2. ASSUME NEW d \in Calls, NEW p \in Phases, pc' = [pc EXCEPT ![d] = p],
             InSync(d) \/ p \in {"idle", "lease", "odWrite", "odVariants", "odDone"} \/ Acquire(d)
      PROVE  InSync(c) \/ Acquire(c)
  BY <1>0, <1>2 DEF TypeOK
<1>3. ASSUME NEW d \in Calls,
             \/ \E requested \in Modes : StartSync(d, requested)
             \/ \E r \in Refs : OnDemandFetch(d, r)
             \/ Acquire(d) \/ InsertRun(d) \/ MarkDiscoveryComplete(d)
             \/ \E C \in SUBSET Items : Claim(d, C)
             \/ \E i \in Items : Fetch(d, i)
             \/ FailInterrupted(d) \/ ListFinalizable(d)
      PROVE  InSync(c) \/ Acquire(c)
  <2>1. \E p \in Phases : pc' = [pc EXCEPT ![d] = p] /\
           (InSync(d) \/ p \in {"idle", "lease", "odWrite", "odVariants", "odDone"} \/ Acquire(d))
    BY <1>3 DEF StartSync, OnDemandFetch, Acquire, InsertRun, MarkDiscoveryComplete, Claim, Fetch,
                FailInterrupted, ListFinalizable, Phases
  <2> QED
    BY <2>1, <1>2
<1>4. ASSUME NEW d \in Calls, FindOpenRun(d)
      PROVE  InSync(c) \/ Acquire(c)
  <2>1. \E p \in {"interrupted", "insert", "claim"} : pc' = [pc EXCEPT ![d] = p]
    BY <1>4, Zenon DEF FindOpenRun
  <2>2. InSync(d)
    BY <1>4 DEF FindOpenRun
  <2> QED
    BY <2>1, <2>2, <1>2 DEF Phases
<1>5. ASSUME NEW d \in Calls, WriteProduct(d)
      PROVE  InSync(c) \/ Acquire(c)
  <2>1. \E p \in Phases : pc' = [pc EXCEPT ![d] = p] /\
           (InSync(d) \/ p \in {"odVariants", "odDone"})
    BY <1>5 DEF WriteProduct, Phases
  <2> QED
    BY <2>1, <1>2
<1>6. ASSUME NEW d \in Calls, WriteVariants(d)
      PROVE  InSync(c) \/ Acquire(c)
  BY <1>6, <1>0 DEF WriteVariants, TypeOK
<1>7. ASSUME NEW d \in Calls, NEW i \in Items, ItemFails(d, i)
      PROVE  InSync(c) \/ Acquire(c)
  BY <1>7, <1>2 DEF ItemFails, ItemDone, Phases
<1>8. ASSUME NEW d \in Calls, Complete(d)
      PROVE  InSync(c) \/ Acquire(c)
  BY <1>8, <1>2 DEF Complete, ItemDone, Phases
<1>9. ASSUME NEW d \in Calls,
             \/ \E P, S \in SUBSET Refs : StagePage(d, P, S)
             \/ \E e \in ends[d] : FinalizeRun(d, e)
      PROVE  UNCHANGED pc
  BY <1>9 DEF StagePage, FinalizeRun
<1>10. ASSUME NEW d \in Calls,
              Leaves(d)
       PROVE  InSync(c) \/ Acquire(c)
  <2>1. CASE NotAcquired(d) \/ OnDemandEnds(d) \/ Release(d) \/ Crash(d)
    <3>1. pc' = [pc EXCEPT ![d] = "idle"]
      BY <2>1 DEF NotAcquired, OnDemandEnds, Release, Crash, Return, LeaveFor
    <3> QED
      BY <3>1, <1>2 DEF Phases
  <2>2. CASE SyncFails(d) \/ MarkFailed(d)
    <3>1. \E p \in {"fail", "release"} : pc' = [pc EXCEPT ![d] = p]
      BY <2>2 DEF SyncFails, MarkFailed, LeaveFor
    <3>2. InSync(d)
      BY <2>2 DEF SyncFails, MarkFailed
    <3> QED
      BY <3>1, <3>2, <1>2 DEF Phases
  <2> QED
    BY <1>10, <2>1, <2>2 DEF Leaves
<1>11. CASE Tick \/ LeaseExpires \/ \E r \in Refs, t \in 0 .. MaxClock, k \in Kinds : ErpChange(r, t, k)
  BY <1>11, <1>1 DEF Tick, LeaseExpires, ErpChange
<1>12. CASE UNCHANGED vars
  BY <1>12, <1>1 DEF vars
<1> QED
  BY <1>1, <1>3, <1>4, <1>5, <1>6, <1>7, <1>8, <1>9, <1>10, <1>11, <1>12 DEF Next, Leaves

LEMMA LeaseMoves ==
    ASSUME Base, [Next]_vars
    PROVE  \/ lease' = lease /\ late' = late
           \/ lease' = None /\ lease # None /\ late' = (late \/ InSync(lease))
           \/ \E c \in Calls : lease = c /\ lease' = None /\ pc'[c] = "idle" /\ late' = late
           \/ \E c \in Calls : lease = None /\ lease' = c /\ late' = late
<1> DEFINE Goal == \/ lease' = lease /\ late' = late
                   \/ lease' = None /\ lease # None /\ late' = (late \/ InSync(lease))
                   \/ \E c \in Calls : lease = c /\ lease' = None /\ pc'[c] = "idle" /\ late' = late
                   \/ \E c \in Calls : lease = None /\ lease' = c /\ late' = late
<1>1. CASE UNCHANGED <<lease, late>>
  BY <1>1
<1>2. CASE LeaseExpires
  BY <1>2, Zenon DEF LeaseExpires
<1>3. ASSUME NEW c \in Calls, Release(c)
      PROVE  Goal
  <2>1. pc'[c] = "idle" /\ late' = late
    BY <1>3 DEF Release, Return, LeaveFor, Base, TypeOK
  <2>2. lease' = IF lease = c THEN None ELSE lease
    BY <1>3 DEF Release, LeaseReleasedBy
  <2> QED
    BY <2>1, <2>2
<1>4. ASSUME NEW c \in Calls, Acquire(c)
      PROVE  Goal
  BY <1>4, Zenon DEF Acquire
<1>5. ASSUME NEW c \in Calls,
             \/ \E requested \in Modes : StartSync(c, requested)
             \/ NotAcquired(c) \/ FindOpenRun(c) \/ FailInterrupted(c) \/ InsertRun(c)
             \/ \E P, S \in SUBSET Refs : StagePage(c, P, S)
             \/ MarkDiscoveryComplete(c)
             \/ \E C \in SUBSET Items : Claim(c, C)
             \/ \E i \in Items : Fetch(c, i)
             \/ \E i \in Items : ItemFails(c, i)
             \/ Complete(c)
      PROVE  UNCHANGED <<lease, late>>
  BY <1>5 DEF StartSync, NotAcquired, FindOpenRun, FailInterrupted, InsertRun, StagePage, MarkDiscoveryComplete,
              Claim, Fetch, ItemFails, ItemDone, Complete
<1>6. ASSUME NEW c \in Calls,
             \/ WriteProduct(c) \/ WriteVariants(c)
             \/ \E r \in Refs : OnDemandFetch(c, r)
             \/ OnDemandEnds(c) \/ ListFinalizable(c)
             \/ \E e \in ends[c] : FinalizeRun(c, e)
             \/ SyncFails(c) \/ MarkFailed(c) \/ Crash(c)
      PROVE  UNCHANGED <<lease, late>>
  BY <1>6 DEF WriteProduct, WriteVariants, OnDemandFetch, OnDemandEnds, ListFinalizable,
              FinalizeRun, SyncFails, MarkFailed, Crash
<1>7. CASE Tick \/ \E r \in Refs, t \in 0 .. MaxClock, k \in Kinds : ErpChange(r, t, k)
  BY <1>7, <1>1 DEF Tick, ErpChange
<1>8. CASE UNCHANGED vars
  BY <1>8, <1>1 DEF vars
<1>9. Goal
  BY <1>1, <1>2, <1>3, <1>4, <1>5, <1>6, <1>7, <1>8 DEF Next
<1> QED
  BY <1>9

\* The time since which the end of the window may be read is noted when the call
\* gets there.
LEMMA InsertMoves ==
    ASSUME Base, [Next]_vars, NEW c \in Calls, pc'[c] = "insert"
    PROVE  \/ pc[c] = "insert" /\ upTo'[c] = upTo[c]
           \/ upTo'[c] = clock /\ checkpoint' = checkpoint
<1> DEFINE Goal == \/ pc[c] = "insert" /\ upTo'[c] = upTo[c]
                   \/ upTo'[c] = clock /\ checkpoint' = checkpoint
<1>0. TypeOK
  BY DEF Base
<1>1. CASE UNCHANGED <<pc, upTo>>
  BY <1>1
<1>2. ASSUME NEW d \in Calls, NEW p \in Phases \ {"insert"}, pc' = [pc EXCEPT ![d] = p],
             UNCHANGED upTo \/ \E x : upTo' = [upTo EXCEPT ![d] = x]
      PROVE  Goal
  <2>1. d # c
    BY <1>0, <1>2 DEF TypeOK
  <2>2. pc'[c] = pc[c] /\ upTo'[c] = upTo[c]
    BY <1>0, <1>2, <2>1 DEF TypeOK
  <2> QED
    BY <2>2
<1>3. ASSUME NEW d \in Calls,
             \/ \E requested \in Modes : StartSync(d, requested)
             \/ Acquire(d) \/ MarkDiscoveryComplete(d)
             \/ \E C \in SUBSET Items : Claim(d, C)
             \/ \E i \in Items : Fetch(d, i)
             \/ \E r \in Refs : OnDemandFetch(d, r)
             \/ ListFinalizable(d)
      PROVE  Goal
  <2>1. UNCHANGED upTo /\ \E p \in Phases \ {"insert"} : pc' = [pc EXCEPT ![d] = p]
    BY <1>3 DEF StartSync, Acquire, MarkDiscoveryComplete, Claim, Fetch, OnDemandFetch,
                ListFinalizable, Phases
  <2> QED
    BY <2>1, <1>2
<1>4. ASSUME NEW d \in Calls, InsertRun(d)
      PROVE  Goal
  BY <1>4, <1>2 DEF InsertRun, Phases
<1>5. ASSUME NEW d \in Calls, FindOpenRun(d) \/ FailInterrupted(d)
      PROVE  Goal
  <2>1. checkpoint' = checkpoint
    BY <1>5 DEF FindOpenRun, FailInterrupted
  <2>2. \/ \E p \in {"interrupted", "claim"} : pc' = [pc EXCEPT ![d] = p] /\ UNCHANGED upTo
        \/ pc' = [pc EXCEPT ![d] = "insert"] /\ upTo' = [upTo EXCEPT ![d] = clock]
    BY <1>5, Zenon DEF FindOpenRun, FailInterrupted
  <2>3. CASE \E p \in {"interrupted", "claim"} : pc' = [pc EXCEPT ![d] = p] /\ UNCHANGED upTo
    BY <2>3, <1>2 DEF Phases
  <2>4. CASE pc' = [pc EXCEPT ![d] = "insert"] /\ upTo' = [upTo EXCEPT ![d] = clock]
    BY <2>1, <2>4, <1>0 DEF TypeOK
  <2> QED
    BY <2>2, <2>3, <2>4
<1>6. ASSUME NEW d \in Calls, WriteProduct(d)
      PROVE  Goal
  <2>1. UNCHANGED upTo /\ \E p \in Phases \ {"insert"} : pc' = [pc EXCEPT ![d] = p]
    BY <1>6 DEF WriteProduct, Phases
  <2> QED
    BY <2>1, <1>2
<1>7. ASSUME NEW d \in Calls, WriteVariants(d)
      PROVE  Goal
  BY <1>7, <1>0 DEF WriteVariants, TypeOK
<1>8. ASSUME NEW d \in Calls, (\E i \in Items : ItemFails(d, i)) \/ Complete(d)
      PROVE  Goal
  BY <1>8, <1>2 DEF ItemFails, Complete, ItemDone, Phases
<1>9. ASSUME NEW d \in Calls,
             \/ \E P, S \in SUBSET Refs : StagePage(d, P, S)
             \/ \E e \in ends[d] : FinalizeRun(d, e)
      PROVE  Goal
  BY <1>9, <1>1 DEF StagePage, FinalizeRun
<1>10. ASSUME NEW d \in Calls, Leaves(d)
       PROVE  Goal
  <2>1. PICK p \in {"idle", "fail", "release"}, q \in RunIds \cup {NoRun} : LeaveFor(d, p, q)
    BY <1>0, <1>10, Leaving
  <2>2. pc' = [pc EXCEPT ![d] = p] /\ upTo' = [upTo EXCEPT ![d] = 0]
    BY <2>1 DEF LeaveFor
  <2> QED
    BY <2>2, <1>2 DEF Phases
<1>11. CASE Tick \/ LeaseExpires \/ \E r \in Refs, t \in 0 .. MaxClock, k \in Kinds : ErpChange(r, t, k)
  BY <1>11, <1>1 DEF Tick, LeaseExpires, ErpChange
<1>12. CASE UNCHANGED vars
  BY <1>12, <1>1 DEF vars
<1>13. Goal
  BY <1>3, <1>4, <1>5, <1>6, <1>7, <1>8, <1>9, <1>10, <1>11, <1>12 DEF Next, Leaves
<1> QED
  BY <1>13

LEMMA LeaseStep ==
    ASSUME Base, Dates, LeaseOK, [Next]_vars
    PROVE  LeaseOK'
<1>0. TypeOK /\ StageOK /\ Untouched
  BY DEF Base
<1>1. Base' /\ Dates'
  BY BaseStep, DatesStep
<1> SUFFICES ASSUME ~ late', NEW c \in Calls
             PROVE  /\ InSync(c)' => lease' = c
                    /\ pc'[c] = "insert" => upTo'[c] >= checkpoint'
                    /\ pc'[c] = "stage" => windowEnd'[run'[c]] >= checkpoint'
  BY DEF LeaseOK
<1>2. ~ late /\ \A d \in Calls : InSync(d) => lease = d
  <2>1. late = late' \/ late' = (late \/ InSync(lease))
    BY LeaseMoves
  <2>2. late \in BOOLEAN /\ ~ late'
    BY <1>0 DEF TypeOK
  <2>3. ~ late
    BY <2>1, <2>2
  <2> QED
    BY <2>3 DEF LeaseOK
<1>3. ASSUME InSync(c)'
      PROVE  lease' = c
  <2>1. CASE Acquire(c)
    BY <2>1 DEF Acquire
  <2>2. CASE InSync(c)
    <3>1. lease = c /\ lease # None
      BY <1>2, <2>2
    <3>2. pc'[c] # "idle"
      BY <1>3 DEF InSync
    <3>3. ~ (late \/ InSync(lease)) <=> FALSE
      BY <3>1, <2>2
    <3> QED
      BY <3>1, <3>2, <3>3, LeaseMoves
  <2> QED
    BY <1>3, <2>1, <2>2, SyncStep
\* Nobody else moves the checkpoint while the call is in its lease.
<1>4. ASSUME InSync(c), ~ MarkDiscoveryComplete(c)
      PROVE  checkpoint' = checkpoint
  <2>1. ASSUME NEW d \in Calls, MarkDiscoveryComplete(d)
        PROVE  FALSE
    <3>1. InSync(d) /\ d # c
      BY <2>1, <1>4 DEF MarkDiscoveryComplete, InSync
    <3> QED
      BY <3>1, <1>2, <1>4
  <2> QED
    BY <2>1, CheckpointMoves
<1>5. ASSUME pc'[c] = "insert"
      PROVE  upTo'[c] >= checkpoint'
  <2>1. CASE pc[c] = "insert" /\ upTo'[c] = upTo[c]
    <3>1. checkpoint' = checkpoint
      BY <2>1, <1>4 DEF InSync, MarkDiscoveryComplete
    <3> QED
      BY <2>1, <3>1, <1>2 DEF LeaseOK
  <2>2. CASE upTo'[c] = clock /\ checkpoint' = checkpoint
    BY <2>2, <1>0 DEF Dates, TypeOK
  <2> QED
    BY <1>5, <2>1, <2>2, InsertMoves
<1>6. ASSUME pc'[c] = "stage"
      PROVE  windowEnd'[run'[c]] >= checkpoint'
  <2>1. CASE InsertRun(c)
    <3>1. checkpoint' = checkpoint /\ upTo[c] >= checkpoint
      BY <2>1, <1>2 DEF InsertRun, LeaseOK
    <3>2. windowEnd'[run'[c]] \in upTo[c] .. clock
      BY <2>1, <1>0 DEF InsertRun, TypeOK
    <3> QED
      BY <3>1, <3>2, <1>0 DEF TypeOK
  <2>2. CASE pc[c] = "stage" /\ run'[c] = run[c] /\ ~ MarkDiscoveryComplete(c)
    <3>1. windowEnd[run[c]] >= checkpoint /\ InSync(c)
      BY <1>2, <2>2 DEF LeaseOK, InSync
    <3>2. run[c] \in RunIds /\ runStatus[run[c]] # "none"
      BY <1>0, <2>2 DEF StageOK
    <3>3. windowEnd'[run[c]] = windowEnd[run[c]]
      BY <3>2, RunStep
    <3>4. checkpoint' = checkpoint
      BY <3>1, <2>2, <1>4
    <3> QED
      BY <3>1, <3>3, <3>4, <2>2
  <2> QED
    BY <1>6, <2>1, <2>2, CallStep
<1> QED
  BY <1>3, <1>5, <1>6

LEMMA AlwaysDated == Spec => [](Dates /\ LeaseOK)
<1>1. Init => Dates /\ LeaseOK
  BY DEF Init, Dates, LeaseOK, InSync, RunIds
<1>2. Base /\ (Dates /\ LeaseOK) /\ [Next]_vars => (Dates /\ LeaseOK)'
  BY DatesStep, LeaseStep
<1> QED
  BY <1>1, <1>2, AlwaysBase, PTL DEF Spec

\* The checkpoint (markDiscoveryComplete) goes back only once a call has
\* outlived its lease: as long as none has, the one call that discovers holds
\* the lease, and its window ends after every earlier one.
THEOREM CheckpointsAdvance == Spec => CheckpointAdvances
<1>1. ASSUME Base, Dates /\ LeaseOK, [Next]_vars
      PROVE  checkpoint' >= checkpoint \/ late
  <2>1. checkpoint \in Nat
    BY <1>1 DEF Base, TypeOK
  <2>2. ASSUME NEW c \in Calls, MarkDiscoveryComplete(c), ~ late
        PROVE  windowEnd[run[c]] >= checkpoint
    BY <2>2, <1>1 DEF MarkDiscoveryComplete, LeaseOK
  <2> QED
    BY <1>1, <2>1, <2>2, CheckpointMoves
<1> QED
  BY <1>1, AlwaysBase, AlwaysDated, PTL DEF Spec, CheckpointAdvances

-----------------------------------------------------------------------------
(* The products                                                             *)

\* The ERP's date for a reference changes with a change that is visible now.
LEMMA ErpStep ==
    ASSUME Base, [Next]_vars, NEW r \in Refs
    PROVE  \/ erpVer'[r] = erpVer[r] /\ (r \in listed' <=> r \in listed)
           \/ /\ erpVer'[r] > erpVer[r] /\ erpVer'[r] + Delay >= clock /\ clock' = clock
              /\ UNCHANGED <<stateVars, runVars, itemVars, prodVars, callVars, raced, hidden, marked>>
<1> DEFINE Goal ==
           \/ erpVer'[r] = erpVer[r] /\ (r \in listed' <=> r \in listed)
           \/ /\ erpVer'[r] > erpVer[r] /\ erpVer'[r] + Delay >= clock /\ clock' = clock
              /\ UNCHANGED <<stateVars, runVars, itemVars, prodVars, callVars, raced, hidden, marked>>
<1>1. CASE UNCHANGED <<erpVer, listed>>
  BY <1>1
<1>2. ASSUME NEW s \in Refs, NEW t \in 0 .. MaxClock, NEW k \in Kinds, ErpChange(s, t, k)
      PROVE  Goal
  <2>1. CASE s = r
    <3>1. erpVer'[r] = t /\ t > erpVer[r] /\ clock <= t + Delay
      BY <1>2, <2>1 DEF ErpChange, Base, TypeOK
    <3>2. t + Delay >= clock
      BY <3>1 DEF Base, TypeOK
    <3> QED
      BY <1>2, <3>1, <3>2 DEF ErpChange
  <2>2. CASE s # r
    <3>1. erpVer'[r] = erpVer[r]
      BY <1>2, <2>2 DEF ErpChange, Base, TypeOK
    <3>2. r \in listed' <=> r \in listed
      BY <1>2, <2>2 DEF ErpChange
    <3> QED
      BY <3>1, <3>2
  <2> QED
    BY <2>1, <2>2
<1>3. ASSUME NEW c \in Calls,
             \/ \E requested \in Modes : StartSync(c, requested)
             \/ Acquire(c) \/ NotAcquired(c) \/ FindOpenRun(c) \/ FailInterrupted(c) \/ InsertRun(c)
             \/ \E P, S \in SUBSET Refs : StagePage(c, P, S)
             \/ MarkDiscoveryComplete(c)
             \/ \E C \in SUBSET Items : Claim(c, C)
             \/ \E i \in Items : Fetch(c, i)
             \/ \E i \in Items : ItemFails(c, i)
             \/ Complete(c)
      PROVE  UNCHANGED <<erpVer, listed>>
  BY <1>3 DEF StartSync, Acquire, NotAcquired, FindOpenRun, FailInterrupted, InsertRun, StagePage,
              MarkDiscoveryComplete, Claim, Fetch, ItemFails, ItemDone, Complete
<1>4. ASSUME NEW c \in Calls,
             \/ WriteProduct(c) \/ WriteVariants(c)
             \/ \E s \in Refs : OnDemandFetch(c, s)
             \/ OnDemandEnds(c) \/ ListFinalizable(c)
             \/ \E e \in ends[c] : FinalizeRun(c, e)
             \/ SyncFails(c) \/ MarkFailed(c) \/ Release(c) \/ Crash(c)
      PROVE  UNCHANGED <<erpVer, listed>>
  BY <1>4 DEF WriteProduct, WriteVariants, OnDemandFetch, OnDemandEnds, ListFinalizable,
              FinalizeRun, SyncFails, MarkFailed, Release, Crash
<1>5. CASE Tick \/ LeaseExpires
  BY <1>5, <1>1 DEF Tick, LeaseExpires
<1>6. CASE UNCHANGED vars
  BY <1>6, <1>1 DEF vars
<1>7. Goal
  BY <1>1, <1>2, <1>3, <1>4, <1>5, <1>6 DEF Next
<1> QED
  BY <1>7

\* The product tables change with an import's transactions and with a run that
\* is closed.
LEMMA ProductStep ==
    ASSUME Base, [Next]_vars
    PROVE  \/ UNCHANGED <<prodVars, raced, hidden, marked>>
           \/ \E c \in Calls : WriteProduct(c) \/ WriteVariants(c)
           \/ \E c \in Calls : \E e \in ends[c] : FinalizeRun(c, e)
<1>1. ASSUME NEW c \in Calls,
             \/ \E requested \in Modes : StartSync(c, requested)
             \/ Acquire(c) \/ NotAcquired(c) \/ FindOpenRun(c) \/ FailInterrupted(c) \/ InsertRun(c)
             \/ \E P, S \in SUBSET Refs : StagePage(c, P, S)
             \/ MarkDiscoveryComplete(c)
             \/ \E C \in SUBSET Items : Claim(c, C)
             \/ \E i \in Items : Fetch(c, i)
             \/ \E i \in Items : ItemFails(c, i)
             \/ Complete(c)
      PROVE  UNCHANGED <<prodVars, raced, hidden, marked>>
  BY <1>1 DEF StartSync, Acquire, NotAcquired, FindOpenRun, FailInterrupted, InsertRun, StagePage,
              MarkDiscoveryComplete, Claim, Fetch, ItemFails, ItemDone, Complete
<1>2. ASSUME NEW c \in Calls,
             \/ \E s \in Refs : OnDemandFetch(c, s)
             \/ OnDemandEnds(c) \/ ListFinalizable(c)
             \/ SyncFails(c) \/ MarkFailed(c) \/ Release(c) \/ Crash(c)
      PROVE  UNCHANGED <<prodVars, raced, hidden, marked>>
  BY <1>2 DEF OnDemandFetch, OnDemandEnds, ListFinalizable, SyncFails, MarkFailed, Release, Crash
<1>3. CASE Tick \/ LeaseExpires \/ \E r \in Refs, t \in 0 .. MaxClock, k \in Kinds : ErpChange(r, t, k)
  BY <1>3 DEF Tick, LeaseExpires, ErpChange
<1>4. CASE UNCHANGED vars
  BY <1>4 DEF vars
<1> QED
  BY <1>1, <1>2, <1>3, <1>4 DEF Next

\* What an import's transactions do to the product of their reference, and to
\* no other.
LEMMA WriteEffect ==
    ASSUME Base, NEW c \in Calls, WriteProduct(c) \/ WriteVariants(c)
    PROVE  /\ cur[c][2] \in Refs /\ snap[c] \in Nat
           /\ raced' = IF Overtaken(c, cur[c][2]) THEN raced \cup {cur[c][2]} ELSE raced
           /\ \A r \in Refs : r # cur[c][2] =>
                /\ ver'[r] = ver[r] /\ variants'[r] = variants[r] /\ seenBy'[r] = seenBy[r]
                /\ r \in active' <=> r \in active
                /\ r \in hidden' <=> r \in hidden
           /\ cur[c][2] \in active' <=> pub[c]
           /\ snap[c] = 0 => UNCHANGED <<ver, variants, seenBy, hidden, marked>>
           /\ snap[c] # 0 =>
                \/ WriteProduct(c) /\ ver'[cur[c][2]] = snap[c] /\ variants' = variants
                \/ WriteVariants(c) /\ variants'[cur[c][2]] = snap[c] /\ ver' = ver
           /\ UNCHANGED <<erpVars, stateVars, runVars, itemVars, mode, from, run, upTo, left, queue,
                          cur, snap, pub, ends>>
<1>1. cur[c][2] \in Refs /\ snap[c] \in Nat
  BY WriterRef DEF WriteProduct, WriteVariants
<1>2. /\ \A r \in Refs : r # cur[c][2] => (r \in active' <=> r \in active)
      /\ cur[c][2] \in active' <=> pub[c]
  BY DEF WriteProduct, WriteVariants, Publish
<1>3. raced' = IF Overtaken(c, cur[c][2]) THEN raced \cup {cur[c][2]} ELSE raced
  BY DEF WriteProduct, WriteVariants, NoteRace
<1>4. UNCHANGED <<erpVars, stateVars, runVars, itemVars, mode, from, run, upTo, left, queue,
                  cur, snap, pub, ends>>
  BY DEF WriteProduct, WriteVariants
<1>5. CASE WriteProduct(c)
  <2>1. CASE snap[c] = 0
    <3>1. UNCHANGED <<ver, variants, seenBy, hidden, marked>>
      BY <1>5, <2>1 DEF WriteProduct
    <3> QED
      BY <1>1, <1>2, <1>3, <1>4, <2>1, <3>1
  <2>2. CASE snap[c] # 0
    <3>1. /\ ver' = [ver EXCEPT ![cur[c][2]] = snap[c]] /\ variants' = variants
          /\ hidden' = hidden \ {cur[c][2]}
          /\ seenBy' = [seenBy EXCEPT ![cur[c][2]] = Seen(c)]
      BY <1>5, <2>2 DEF WriteProduct
    <3>2. ver'[cur[c][2]] = snap[c] /\ variants' = variants
      BY <1>1, <3>1 DEF Base, TypeOK
    <3>3. \A r \in Refs : r # cur[c][2] =>
                /\ ver'[r] = ver[r] /\ variants'[r] = variants[r] /\ seenBy'[r] = seenBy[r]
                /\ r \in hidden' <=> r \in hidden
      BY <1>1, <3>1 DEF Base, TypeOK
    <3> QED
      BY <1>1, <1>2, <1>3, <1>4, <1>5, <2>2, <3>2, <3>3
  <2> QED
    BY <2>1, <2>2
<1>6. CASE WriteVariants(c)
  <2>1. snap[c] # 0
    BY <1>6 DEF WriteVariants, Base, PhaseOK
  <2>2. /\ variants' = [variants EXCEPT ![cur[c][2]] = snap[c]] /\ hidden' = hidden \ {cur[c][2]}
        /\ UNCHANGED <<ver, seenBy, marked>>
    BY <1>6 DEF WriteVariants
  <2>3. variants'[cur[c][2]] = snap[c] /\ ver' = ver
    BY <1>1, <2>2 DEF Base, TypeOK
  <2>4. \A r \in Refs : r # cur[c][2] =>
              /\ ver'[r] = ver[r] /\ variants'[r] = variants[r] /\ seenBy'[r] = seenBy[r]
              /\ r \in hidden' <=> r \in hidden
    BY <1>1, <2>2 DEF Base, TypeOK
  <2> QED
    BY <1>1, <1>2, <1>3, <1>4, <1>6, <2>1, <2>3, <2>4
<1> QED
  BY <1>5, <1>6

\* A product's mark is that of a run that has an item for it; and once a full
\* run put its mark there, only another full run replaces it.
Marks ==
    /\ \A r \in Refs : seenBy[r] \in RunIds => item[<<seenBy[r], r>>] # "none"
    /\ \A i \in marked : seenBy[i[2]] \in RunIds /\ runMode[seenBy[i[2]]] = "full"

LEMMA MarksStep ==
    ASSUME Base, Marks, [Next]_vars
    PROVE  Marks'
<1>0. TypeOK /\ Untouched
  BY DEF Base
\* The mark that a product already had.
<1>1. ASSUME NEW r \in Refs, seenBy[r] \in RunIds
      PROVE  item'[<<seenBy[r], r>>] # "none"
  BY <1>1, Pairs, ItemStep DEF Marks
<1>2. ASSUME NEW r \in Refs, seenBy[r] \in RunIds, runMode[seenBy[r]] = "full"
      PROVE  runMode'[seenBy[r]] = "full"
  <2>1. <<seenBy[r], r>> \in Items /\ <<seenBy[r], r>>[1] = seenBy[r] /\ item[<<seenBy[r], r>>] # "none"
    BY <1>2, Pairs DEF Marks
  <2>2. runStatus[seenBy[r]] # "none"
    BY <2>1, <1>0 DEF Untouched
  <2> QED
    BY <1>2, <2>2, RunStep
<1>3. CASE UNCHANGED <<seenBy, marked>>
  BY <1>0, <1>1, <1>2, <1>3, Pairs DEF Marks, TypeOK
<1>4. ASSUME NEW c \in Calls, WriteProduct(c)
      PROVE  Marks'
  <2>1. CASE snap[c] = 0
    BY <2>1, <1>3, <1>4 DEF WriteProduct
  <2>2. CASE snap[c] # 0
    <3>0. cur[c][2] \in Refs /\ cur[c][1] \in RunIds \cup {NoRun}
          /\ (cur[c][1] # NoRun => cur[c] \in Items /\ item[cur[c]] = "processing")
      BY <1>4, WriterRef DEF WriteProduct
    <3>1. /\ seenBy' = [seenBy EXCEPT ![cur[c][2]] = Seen(c)]
          /\ marked' = IF InFullRun(c) THEN marked \cup {cur[c]} ELSE marked
          /\ UNCHANGED <<item, runMode>>
      BY <1>4, <2>2 DEF WriteProduct
    <3>2. CASE InFullRun(c)
      <4>1. cur[c][1] \in RunIds /\ runMode[cur[c][1]] = "full" /\ cur[c] = <<cur[c][1], cur[c][2]>>
            /\ item[cur[c]] = "processing"
        BY <3>0, <3>2, Pairs DEF InFullRun
      <4>2. /\ \A r \in Refs : seenBy'[r] = IF r = cur[c][2] THEN cur[c][1] ELSE seenBy[r]
            /\ marked' = marked \cup {cur[c]}
        BY <3>0, <3>1, <3>2, <1>0 DEF Seen, TypeOK
      <4> QED
        BY <4>1, <4>2, <3>0, <3>1, <1>0, Pairs DEF Marks, TypeOK
    <3>3. CASE ~ InFullRun(c)
      <4>1. seenBy' = seenBy /\ marked' = marked
        BY <3>0, <3>1, <3>3, <1>0 DEF Seen, TypeOK
      <4> QED
        BY <4>1, <1>3
    <3> QED
      BY <3>2, <3>3
  <2> QED
    BY <2>1, <2>2
<1>5. ASSUME NEW c \in Calls, WriteVariants(c) \/ \E e \in ends[c] : FinalizeRun(c, e)
      PROVE  UNCHANGED <<seenBy, marked>>
  BY <1>5 DEF WriteVariants, FinalizeRun
<1> QED
  BY <1>3, <1>4, <1>5, ProductStep

\* What leaves the list of runs to close was closed, unless the call ended.
LEMMA EndsMoves ==
    ASSUME Base, [Next]_vars, NEW c \in Calls, NEW e \in ends[c], e \notin ends'[c],
           pc'[c] = "finalize"
    PROVE  FinalizeRun(c, e)
<1>0. TypeOK /\ PhaseOK
  BY DEF Base
<1>1. ASSUME NEW d \in Calls, NEW f \in ends[d], FinalizeRun(d, f)
      PROVE  FinalizeRun(c, e)
  <2>1. ends' = [ends EXCEPT ![d] = @ \ {f}]
    BY <1>1 DEF FinalizeRun
  <2>2. d = c /\ f = e
    BY <2>1, <1>0 DEF TypeOK
  <2> QED
    BY <1>1, <2>2
<1>2. ASSUME NEW d \in Calls, NEW p \in {"idle", "fail", "release"}, NEW q, LeaveFor(d, p, q)
      PROVE  FALSE
  BY <1>2, <1>0 DEF LeaveFor, TypeOK
<1>3. ASSUME NEW d \in Calls, Leaves(d)
      PROVE  FALSE
  BY <1>0, <1>2, <1>3, Leaving
<1>4. ASSUME NEW d \in Calls, ListFinalizable(d)
      PROVE  FALSE
  <2>1. CASE d = c
    BY <2>1, <1>4, <1>0 DEF ListFinalizable, PhaseOK
  <2>2. CASE d # c
    BY <2>2, <1>4, <1>0 DEF ListFinalizable, TypeOK
  <2> QED
    BY <2>1, <2>2
<1>5. ends' # ends
  OBVIOUS
<1>6. ASSUME NEW d \in Calls,
             \/ \E requested \in Modes : StartSync(d, requested)
             \/ Acquire(d) \/ FindOpenRun(d) \/ FailInterrupted(d) \/ InsertRun(d)
             \/ \E P, S \in SUBSET Refs : StagePage(d, P, S)
             \/ MarkDiscoveryComplete(d)
             \/ \E C \in SUBSET Items : Claim(d, C)
             \/ \E i \in Items : Fetch(d, i)
             \/ \E i \in Items : ItemFails(d, i)
             \/ Complete(d) \/ WriteProduct(d) \/ WriteVariants(d)
             \/ \E s \in Refs : OnDemandFetch(d, s)
      PROVE  FALSE
  BY <1>5, <1>6 DEF StartSync, Acquire, FindOpenRun, FailInterrupted, InsertRun, StagePage,
              MarkDiscoveryComplete, Claim, Fetch, ItemFails, ItemDone, Complete, WriteProduct,
              WriteVariants, OnDemandFetch
<1>7. CASE Tick \/ LeaseExpires \/ \E r \in Refs, t \in 0 .. MaxClock, k \in Kinds : ErpChange(r, t, k)
  BY <1>7, <1>5 DEF Tick, LeaseExpires, ErpChange
<1>8. CASE UNCHANGED vars
  BY <1>8, <1>5 DEF vars
<1> QED
  BY <1>1, <1>3, <1>4, <1>6, <1>7, <1>8 DEF Next, Leaves

LEMMA AlwaysMarked == Spec => []Marks
<1>1. Init => Marks
  BY Pairs DEF Init, Marks
<1> QED
  BY <1>1, MarksStep, AlwaysBase, PTL DEF Spec

\* Closing a full run (deactivateProductsNotSeenInFullRunRow) hides a reference
\* the run imported itself only when another full run marked it since: the
\* merge of the metadata keeps the mark through every other import.
THEOREM FullRunsKeepSeen == Spec => FullRunKeepsSeen
<1>1. ASSUME Base, Marks, [Next]_vars
      PROVE  \A c \in Calls : \A e \in ends[c] \ ends'[c] :
                pc'[c] = "finalize" =>
                    \A r \in active \ active' :
                        <<e.run, r>> \in marked
                            => seenBy[r] \in RunIds \ {e.run} /\ runMode[seenBy[r]] = "full"
  <2> SUFFICES ASSUME NEW c \in Calls, NEW e \in ends[c], e \notin ends'[c], pc'[c] = "finalize",
                      NEW r \in active, r \notin active', <<e.run, r>> \in marked
               PROVE  seenBy[r] \in RunIds \ {e.run} /\ runMode[seenBy[r]] = "full"
    OBVIOUS
  <2>1. seenBy[r] \in RunIds /\ runMode[seenBy[r]] = "full"
    BY <1>1 DEF Marks
  <2>2. FinalizeRun(c, e)
    BY <1>1, EndsMoves
  <2>3. active' = SeenIn(e.run)
    BY <2>2 DEF FinalizeRun
  <2> QED
    BY <2>1, <2>3 DEF SeenIn
<1> QED
  BY <1>1, AlwaysBase, AlwaysMarked, PTL DEF Spec, FullRunKeepsSeen

\* What was unlisted before a run's window ended is off the shop while the
\* run's mark is on it.
Gone ==
    \A R \in RunIds : \A r \in Refs \ (listed \cup raced) :
        erpVer[r] + Delay < windowEnd[R] /\ seenBy[r] = R => r \notin active

LEMMA RacedGrows ==
    ASSUME Base, [Next]_vars
    PROVE  raced \subseteq raced'
<1>1. ASSUME NEW c \in Calls, WriteProduct(c) \/ WriteVariants(c)
      PROVE  raced \subseteq raced'
  BY <1>1, WriteEffect
<1>2. ASSUME NEW c \in Calls, NEW e \in ends[c], FinalizeRun(c, e)
      PROVE  raced' = raced
  BY <1>2 DEF FinalizeRun
<1> QED
  BY <1>1, <1>2, ProductStep

\* A change at the ERP is later than every window that ended.
LEMMA GoneStays ==
    ASSUME Base, Dates, [Next]_vars, NEW R \in RunIds, NEW r \in Refs, r \notin listed',
           erpVer'[r] + Delay < windowEnd'[R]
    PROVE  erpVer'[r] = erpVer[r] /\ r \notin listed
<1>0. TypeOK
  BY DEF Base
<1>1. CASE erpVer'[r] + Delay >= clock /\ UNCHANGED runVars
  <2>1. windowEnd'[R] <= clock /\ windowEnd'[R] \in Nat /\ clock \in Nat
    BY <1>1, <1>0 DEF Dates, TypeOK
  <2>2. erpVer'[r] \in Nat
    BY TypeStep DEF TypeOK
  <2> QED
    BY <1>1, <2>1, <2>2
<1> QED
  BY <1>1, ErpStep

\* Only an import that is overtaken puts an unlisted reference on sale.
LEMMA GoneImport ==
    ASSUME Base, NEW c \in Calls, WriteProduct(c) \/ WriteVariants(c),
           NEW r \in Refs, r = cur[c][2], r \notin listed, r \notin raced'
    PROVE  r \notin active'
<1>1. ~ Overtaken(c, r)
  BY WriteEffect
<1>2. pub[c] \in BOOLEAN
  BY DEF Base, TypeOK
<1>3. ~ pub[c]
  BY <1>1, <1>2 DEF Overtaken
<1> QED
  BY <1>3, WriteEffect

LEMMA GoneStep ==
    ASSUME Base, Dates, Marks, Gone, [Next]_vars
    PROVE  Gone'
<1>0. TypeOK /\ Untouched
  BY DEF Base
<1> SUFFICES ASSUME NEW R \in RunIds, NEW r \in Refs, r \notin listed', r \notin raced',
                    erpVer'[r] + Delay < windowEnd'[R], seenBy'[r] = R
             PROVE  r \notin active'
  BY DEF Gone
<1>1. erpVer'[r] = erpVer[r] /\ r \notin listed /\ r \notin raced
  BY GoneStays, RacedGrows
<1>2. ASSUME seenBy[r] = R
      PROVE  r \notin active
  <2>1. <<R, r>> \in Items /\ <<R, r>>[1] = R /\ item[<<R, r>>] # "none"
    BY <1>2, Pairs DEF Marks
  <2>2. runStatus[R] # "none"
    BY <2>1, <1>0 DEF Untouched
  <2>3. windowEnd'[R] = windowEnd[R]
    BY <2>2, RunStep
  <2> QED
    BY <1>1, <1>2, <2>3 DEF Gone
<1>3. CASE UNCHANGED prodVars
  BY <1>2, <1>3
<1>4. ASSUME NEW c \in Calls, WriteProduct(c) \/ WriteVariants(c)
      PROVE  r \notin active'
  <2>1. CASE cur[c][2] # r
    BY <2>1, <1>2, <1>4, WriteEffect
  <2>2. CASE cur[c][2] = r
    BY <2>2, <1>1, <1>4, GoneImport
  <2> QED
    BY <2>1, <2>2
<1>5. ASSUME NEW c \in Calls, NEW e \in ends[c], FinalizeRun(c, e)
      PROVE  r \notin active'
  <2>1. active' \subseteq active /\ seenBy' = seenBy
    BY <1>5 DEF FinalizeRun, SeenIn
  <2> QED
    BY <2>1, <1>2
<1> QED
  BY <1>3, <1>4, <1>5, ProductStep

LEMMA AlwaysGone == Spec => []Gone
<1>1. Init => Gone
  BY DEF Init, Gone
<1> QED
  BY <1>1, GoneStep, AlwaysBase, AlwaysDated, AlwaysMarked, PTL DEF Spec

\* What the ERP unlisted before a full run started is off the shop when that
\* run has succeeded: either its mark is not there, and closing the run takes
\* the product off (deactivateProductsNotSeenInFullRunRow), or the import that
\* put it there wrote the product as not for sale.
THEOREM GoneAreHidden == Spec => []GoneIsHidden
<1>1. Init => GoneIsHidden
  BY DEF Init, GoneIsHidden
<1>2. ASSUME Base, Dates /\ LeaseOK, Marks, Gone, GoneIsHidden, [Next]_vars
      PROVE  GoneIsHidden'
  <2>0. TypeOK
    BY <1>2 DEF Base
  <2> SUFFICES ASSUME NEW R \in RunIds, NEW r \in Refs, r \notin listed', r \notin raced',
                      runMode'[R] = "full", runStatus'[R] = "succeeded",
                      erpVer'[r] + Delay < windowEnd'[R]
               PROVE  r \notin active'
    BY DEF GoneIsHidden
  <2>1. erpVer'[r] = erpVer[r] /\ r \notin listed
    BY <1>2, GoneStays
  <2>2. r \notin raced
    BY <1>2, RacedGrows
  <2>3. /\ runMode[R] = "full" /\ windowEnd'[R] = windowEnd[R]
        /\ \/ runStatus[R] = "succeeded"
           \/ \E c \in Calls : \E e \in ends[c] : FinalizeRun(c, e) /\ e.run = R /\ e.ok
    BY <1>2, RunStep
  <2>4. CASE runStatus[R] = "succeeded"
    <3>1. r \notin active
      BY <1>2, <2>1, <2>2, <2>3, <2>4 DEF GoneIsHidden
    <3>2. ASSUME NEW c \in Calls, WriteProduct(c) \/ WriteVariants(c)
          PROVE  r \notin active'
      <4>1. CASE cur[c][2] # r
        BY <4>1, <3>1, <3>2, <1>2, WriteEffect
      <4>2. CASE cur[c][2] = r
        BY <4>2, <2>1, <3>2, <1>2, GoneImport
      <4> QED
        BY <4>1, <4>2
    <3>3. ASSUME NEW c \in Calls, NEW e \in ends[c], FinalizeRun(c, e)
          PROVE  active' \subseteq active
      BY <3>3 DEF FinalizeRun, SeenIn
    <3> QED
      BY <3>1, <3>2, <3>3, <1>2, ProductStep
  <2>5. ASSUME NEW c \in Calls, NEW e \in ends[c], FinalizeRun(c, e), e.run = R, e.ok
        PROVE  r \notin active'
    <3>1. active' = SeenIn(R)
      BY <2>3, <2>5 DEF FinalizeRun
    <3>2. seenBy[r] = R => r \notin active
      BY <1>2, <2>1, <2>2, <2>3 DEF Gone
    <3> QED
      BY <3>1, <3>2 DEF SeenIn
  <2> QED
    BY <2>3, <2>4, <2>5
<1> QED
  BY <1>1, <1>2, AlwaysBase, AlwaysDated, AlwaysMarked, AlwaysGone, PTL DEF Spec

-----------------------------------------------------------------------------
(* No change is lost                                                        *)

Busy == {"write", "variants", "complete", "odWrite", "odVariants", "odDone"}

\* The tables and the calls know of no version the ERP does not have yet.
Versions ==
    /\ \A r \in Refs : 0 < erpVer[r] /\ ver[r] <= erpVer[r] /\ variants[r] <= erpVer[r]
    /\ \A c \in Calls : pc[c] \in Busy =>
        /\ snap[c] <= erpVer[cur[c][2]]
        /\ pub[c] => snap[c] # 0

Imported(r) == ver[r] = erpVer[r] /\ variants[r] = erpVer[r] /\ r \in active \cup hidden

\* An import that read the ERP after the last change has written it.
Written ==
    \A c \in Calls : LET r == cur[c][2] IN
        pc[c] \in {"variants", "complete"} /\ r \in listed \ raced /\ snap[c] = erpVer[r]
            => /\ ver[r] = erpVer[r]
               /\ pc[c] = "complete" => Imported(r)

\* The item covers the last change, and the call that works on it, if there is
\* one, read the ERP after that change.
WillImport(i, r) ==
    /\ Covers(i, r)
    /\ \A c \in Calls : pc[c] \in Busy /\ cur[c] = i => snap[c] = erpVer[r]

Settled(r) == Imported(r) \/ \E i \in Items : WillImport(i, r)

\* What a call has discovered, what it need not discover because its window
\* starts later, and what no call need discover any more.
Discovered ==
    \A r \in listed \ raced :
        /\ erpVer[r] + Delay < checkpoint => Settled(r)
        /\ \A c \in Calls : erpVer[r] < from[c] => Settled(r)
        /\ \A c \in Calls :
            pc[c] = "stage" /\ r \notin left[c] /\ erpVer[r] + Delay < windowEnd[run[c]]
                => Settled(r)

\* A call imports a reference, or goes on importing it.
LEMMA BusyStep ==
    ASSUME Base, [Next]_vars, NEW c \in Calls, pc'[c] \in Busy
    PROVE  \/ pc'[c] = pc[c] /\ cur'[c] = cur[c] /\ snap'[c] = snap[c] /\ pub'[c] = pub[c]
           \/ WriteProduct(c) \/ WriteVariants(c)
           \/ \E i \in Items : Fetch(c, i)
           \/ \E r \in Refs : OnDemandFetch(c, r)
<1> DEFINE Goal == \/ pc'[c] = pc[c] /\ cur'[c] = cur[c] /\ snap'[c] = snap[c] /\ pub'[c] = pub[c]
                   \/ WriteProduct(c) \/ WriteVariants(c)
                   \/ \E i \in Items : Fetch(c, i)
                   \/ \E r \in Refs : OnDemandFetch(c, r)
<1>0. TypeOK
  BY DEF Base
<1>1. CASE UNCHANGED <<pc, cur, snap, pub>>
  BY <1>1
\* Another call's step leaves this one alone.
<1>2. ASSUME NEW d \in Calls,
             \/ WriteProduct(d) \/ WriteVariants(d)
             \/ \E i \in Items : Fetch(d, i)
             \/ \E r \in Refs : OnDemandFetch(d, r)
      PROVE  Goal
  <2>1. CASE d = c
    BY <2>1, <1>2
  <2>2. CASE d # c
    <3>1. \/ UNCHANGED cur
          \/ \E x : cur' = [cur EXCEPT ![d] = x]
      BY <1>2 DEF WriteProduct, WriteVariants, Fetch, OnDemandFetch
    <3>2. UNCHANGED snap \/ \E x : snap' = [snap EXCEPT ![d] = x]
      BY <1>2 DEF WriteProduct, WriteVariants, Fetch, OnDemandFetch
    <3>4. UNCHANGED pub \/ \E x : pub' = [pub EXCEPT ![d] = x]
      BY <1>2 DEF WriteProduct, WriteVariants, Fetch, OnDemandFetch
    <3>3. \E x : pc' = [pc EXCEPT ![d] = x]
      BY <1>2 DEF WriteProduct, WriteVariants, Fetch, OnDemandFetch
    <3> QED
      BY <2>2, <3>1, <3>2, <3>3, <3>4, <1>0 DEF TypeOK
  <2> QED
    BY <2>1, <2>2
<1>3. ASSUME NEW d \in Calls, NEW i \in Items, NEW s \in ItemStatuses, ItemDone(d, i, s)
      PROVE  Goal
  BY <1>3, <1>0 DEF ItemDone, TypeOK, Busy
<1>4. ASSUME NEW d \in Calls, NEW p \in {"idle", "fail", "release"}, NEW q, LeaveFor(d, p, q)
      PROVE  Goal
  BY <1>4, <1>0 DEF LeaveFor, TypeOK, Busy
<1>5. ASSUME NEW d \in Calls, UNCHANGED <<cur, snap, pub>>,
             NEW p \in Phases \ Busy, pc' = [pc EXCEPT ![d] = p]
      PROVE  Goal
  BY <1>5, <1>0 DEF TypeOK
<1>6. ASSUME NEW d \in Calls,
             \/ \E requested \in Modes : StartSync(d, requested)
             \/ Acquire(d) \/ FailInterrupted(d) \/ InsertRun(d) \/ MarkDiscoveryComplete(d)
             \/ \E C \in SUBSET Items : Claim(d, C)
             \/ ListFinalizable(d)
      PROVE  Goal
  <2>1. \E p \in Phases \ Busy : pc' = [pc EXCEPT ![d] = p]
    BY <1>6 DEF StartSync, Acquire, FailInterrupted, InsertRun, MarkDiscoveryComplete, Claim,
                ListFinalizable, Phases, Busy
  <2>2. UNCHANGED <<cur, snap, pub>>
    BY <1>6 DEF StartSync, Acquire, FailInterrupted, InsertRun, MarkDiscoveryComplete, Claim,
                ListFinalizable
  <2> QED
    BY <2>1, <2>2, <1>5
<1>7. ASSUME NEW d \in Calls, FindOpenRun(d)
      PROVE  Goal
  <2>1. \E p \in {"interrupted", "insert", "claim"} : pc' = [pc EXCEPT ![d] = p]
    BY <1>7, Zenon DEF FindOpenRun
  <2>2. UNCHANGED <<cur, snap, pub>>
    BY <1>7 DEF FindOpenRun
  <2> QED
    BY <2>1, <2>2, <1>5 DEF Phases, Busy
<1>8. ASSUME NEW d \in Calls, NEW i \in Items, ItemFails(d, i)
      PROVE  Goal
  BY <1>3, <1>8, ItemFailsEffect DEF ItemStatuses
<1>9. ASSUME NEW d \in Calls, Complete(d)
      PROVE  Goal
  BY <1>3, <1>9, CompleteEffect DEF ItemStatuses
<1>10. ASSUME NEW d \in Calls,
              \/ \E P, S \in SUBSET Refs : StagePage(d, P, S)
              \/ \E e \in ends[d] : FinalizeRun(d, e)
       PROVE  UNCHANGED <<pc, cur, snap, pub>>
  BY <1>10 DEF StagePage, FinalizeRun
<1>11. ASSUME NEW d \in Calls,
              Leaves(d)
       PROVE  Goal
  BY <1>0, <1>4, <1>11, Leaving
<1>12. CASE Tick \/ LeaseExpires \/ \E r \in Refs, t \in 0 .. MaxClock, k \in Kinds : ErpChange(r, t, k)
  BY <1>12, <1>1 DEF Tick, LeaseExpires, ErpChange
<1>13. CASE UNCHANGED vars
  BY <1>13, <1>1 DEF vars
<1>14. Goal
  BY <1>1, <1>2, <1>6, <1>7, <1>8, <1>9, <1>10, <1>11, <1>12, <1>13 DEF Next, Leaves
<1> QED
  BY <1>14

LEMMA VersionsStep ==
    ASSUME Base, Versions, [Next]_vars
    PROVE  Versions'
<1>0. TypeOK /\ TypeOK' /\ PhaseOK
  BY TypeStep DEF Base
<1>1. \A r \in Refs : erpVer'[r] >= erpVer[r] /\ erpVer[r] \in Nat /\ erpVer'[r] \in Nat
                      /\ ver[r] \in Nat /\ variants[r] \in Nat
  BY <1>0, ErpStep DEF TypeOK
<1>2. ASSUME NEW r \in Refs
      PROVE  0 < erpVer'[r] /\ ver'[r] <= erpVer'[r] /\ variants'[r] <= erpVer'[r]
  <2>1. CASE UNCHANGED <<ver, variants>>
    BY <2>1, <1>1 DEF Versions
  <2>2. ASSUME NEW c \in Calls, WriteProduct(c) \/ WriteVariants(c)
        PROVE  ver'[r] <= erpVer'[r] /\ variants'[r] <= erpVer'[r]
    <3>1. snap[c] <= erpVer[cur[c][2]] /\ snap[c] \in Nat
      BY <2>2, <1>0 DEF WriteProduct, WriteVariants, Versions, Busy, TypeOK
    <3>2. CASE cur[c][2] # r \/ snap[c] = 0
      BY <3>2, <2>1, <2>2, <1>1, WriteEffect DEF Versions
    <3>3. CASE cur[c][2] = r /\ snap[c] # 0
      <4>1. /\ ver'[r] = snap[c] \/ ver'[r] = ver[r]
            /\ variants'[r] = snap[c] \/ variants'[r] = variants[r]
        BY <3>3, <2>2, WriteEffect
      <4> QED
        BY <4>1, <3>1, <3>3, <1>1 DEF Versions
    <3> QED
      BY <3>2, <3>3
  <2>3. ASSUME NEW c \in Calls, NEW e \in ends[c], FinalizeRun(c, e)
        PROVE  UNCHANGED <<ver, variants>>
    BY <2>3 DEF FinalizeRun
  <2> QED
    BY <2>1, <2>2, <2>3, <1>1, ProductStep DEF Versions
<1>3. ASSUME NEW c \in Calls, pc'[c] \in Busy
      PROVE  snap'[c] <= erpVer'[cur'[c][2]] /\ (pub'[c] => snap'[c] # 0)
  <2>1. CASE pc'[c] = pc[c] /\ cur'[c] = cur[c] /\ snap'[c] = snap[c] /\ pub'[c] = pub[c]
    <3>1. cur[c][2] \in Refs
      <4>1. CASE pc[c] \in {"write", "variants", "complete"}
        BY <4>1, CurrentItem, Pairs
      <4>2. CASE pc[c] \in {"odWrite", "odVariants", "odDone"}
        BY <4>2, <1>0 DEF PhaseOK
      <4> QED
        BY <4>1, <4>2, <2>1, <1>3 DEF Busy
    <3>2. snap[c] \in Nat /\ snap[c] <= erpVer[cur[c][2]] /\ (pub[c] => snap[c] # 0)
      BY <2>1, <1>0, <1>3 DEF Versions, TypeOK
    <3> QED
      BY <2>1, <3>1, <3>2, <1>1
  <2>2. CASE WriteProduct(c) \/ WriteVariants(c)
    <3>1. pc[c] \in Busy
      BY <2>2 DEF WriteProduct, WriteVariants, Busy
    <3>2. snap[c] <= erpVer[cur[c][2]] /\ (pub[c] => snap[c] # 0)
      BY <3>1 DEF Versions
    <3>3. UNCHANGED <<snap, pub, cur, erpVer>>
      BY <2>2, WriteEffect
    <3> QED
      BY <3>2, <3>3
  <2>3. ASSUME NEW i \in Items, Fetch(c, i)
        PROVE  snap'[c] <= erpVer'[cur'[c][2]] /\ (pub'[c] => snap'[c] # 0)
    <3>1. snap'[c] = AtErp(i[2]) /\ cur'[c] = i /\ erpVer' = erpVer
      BY <2>3, <1>0 DEF Fetch, TypeOK
    <3>2. i[2] \in Refs /\ 0 < erpVer[i[2]] /\ erpVer[i[2]] \in Nat
      BY <1>1, Pairs DEF Versions
    <3>3. pub'[c] => i[2] \in listed
      BY <2>3, <1>0 DEF Fetch, TypeOK
    <3>4. /\ AtErp(i[2]) <= erpVer[i[2]]
          /\ i[2] \in listed => AtErp(i[2]) # 0
      BY <3>2 DEF AtErp
    <3> QED
      BY <3>1, <3>3, <3>4
  <2>4. ASSUME NEW r \in Refs, OnDemandFetch(c, r)
        PROVE  snap'[c] <= erpVer'[cur'[c][2]] /\ (pub'[c] => snap'[c] # 0)
    <3>1. snap'[c] = AtErp(r) /\ cur'[c][2] = r /\ erpVer' = erpVer
      BY <2>4, <1>0 DEF OnDemandFetch, TypeOK
    <3>2. 0 < erpVer[r] /\ erpVer[r] \in Nat
      BY <1>1 DEF Versions
    <3>3. pub'[c] => r \in listed
      BY <2>4, <1>0 DEF OnDemandFetch, TypeOK
    <3>4. /\ AtErp(r) <= erpVer[r]
          /\ r \in listed => AtErp(r) # 0
      BY <3>2 DEF AtErp
    <3> QED
      BY <3>1, <3>3, <3>4
  <2> QED
    BY <1>3, <2>1, <2>2, <2>3, <2>4, BusyStep
<1> QED
  BY <1>2, <1>3 DEF Versions

\* An import that is not overtaken brings no version back, and a run that is
\* closed notes what it hides.
LEMMA VersionStays ==
    ASSUME Base, Versions, [Next]_vars, NEW r \in Refs, r \in listed, r \in listed', r \notin raced',
           erpVer'[r] = erpVer[r], ver[r] = erpVer[r]
    PROVE  ver'[r] = erpVer'[r] /\ (Imported(r) => Imported(r)')
<1>0. /\ TypeOK
      /\ erpVer[r] \in Nat
  BY DEF Base, TypeOK
<1>1. CASE UNCHANGED prodVars /\ UNCHANGED hidden
  BY <1>1 DEF Imported
<1>2. ASSUME NEW c \in Calls, WriteProduct(c) \/ WriteVariants(c)
      PROVE  ver'[r] = erpVer'[r] /\ (Imported(r) => Imported(r)')
  <2>1. CASE cur[c][2] # r
    BY <2>1, <1>2, WriteEffect DEF Imported
  <2>2. CASE cur[c][2] = r
    <3>1. ~ Overtaken(c, r)
      BY <2>2, <1>2, WriteEffect
    <3>2. pub[c]
      BY <3>1, <1>0 DEF Overtaken, TypeOK
    <3>3. snap[c] <= erpVer[r] /\ snap[c] \in Nat /\ snap[c] # 0
      BY <2>2, <3>2, <1>0, <1>2 DEF WriteProduct, WriteVariants, Versions, Busy, TypeOK
    <3>5. ~ (snap[c] < ver[r]) /\ ~ (snap[c] < variants[r])
      BY <3>1, <3>3 DEF Overtaken
    <3>4. snap[c] = erpVer[r]
      BY <3>3, <3>5, <1>0
    <3> QED
      BY <2>2, <3>2, <3>3, <3>4, <1>2, WriteEffect DEF Imported
  <2> QED
    BY <2>1, <2>2
<1>3. ASSUME NEW c \in Calls, NEW e \in ends[c], FinalizeRun(c, e)
      PROVE  ver'[r] = erpVer'[r] /\ (Imported(r) => Imported(r)')
  <2>1. UNCHANGED <<ver, variants>>
    BY <1>3 DEF FinalizeRun
  <2>2. r \in active \cup hidden => r \in active' \cup hidden'
    BY <1>3 DEF FinalizeRun
  <2> QED
    BY <2>1, <2>2 DEF Imported
<1> QED
  BY <1>1, <1>2, <1>3, ProductStep

LEMMA WrittenStep ==
    ASSUME Base, Versions, Written, [Next]_vars
    PROVE  Written'
<1>0. TypeOK /\ TypeOK' /\ PhaseOK
  BY TypeStep DEF Base
<1> SUFFICES ASSUME NEW c \in Calls, pc'[c] \in {"variants", "complete"}, NEW r, r = cur'[c][2],
                    r \in listed', r \notin raced', snap'[c] = erpVer'[r]
             PROVE  ver'[r] = erpVer'[r] /\ (pc'[c] = "complete" => Imported(r)')
  BY DEF Written, Imported
<1>1. r \in Refs /\ r \notin raced
  BY <1>0, RacedGrows DEF TypeOK
\* The call's step, and the change it would have missed.
<1>2. ASSUME pc[c] \in Busy, cur'[c] = cur[c], snap'[c] = snap[c]
      PROVE  erpVer'[r] = erpVer[r] /\ r \in listed
  <2>1. snap[c] <= erpVer[r] /\ erpVer[r] \in Nat /\ erpVer'[r] \in Nat
    BY <1>0, <1>1, <1>2 DEF Versions, TypeOK
  <2> QED
    BY <2>1, <1>1, <1>2, ErpStep
<1>3. CASE pc'[c] = pc[c] /\ cur'[c] = cur[c] /\ snap'[c] = snap[c]
  <2>1. erpVer'[r] = erpVer[r] /\ r \in listed
    BY <1>2, <1>3 DEF Busy
  <2>2. ver[r] = erpVer[r] /\ (pc[c] = "complete" => Imported(r))
    BY <1>1, <1>3, <2>1 DEF Written
  <2> QED
    BY <1>1, <1>3, <2>1, <2>2, VersionStays
<1>4. CASE WriteProduct(c)
  <2>1. /\ cur'[c] = cur[c] /\ snap'[c] = snap[c] /\ erpVer' = erpVer
    BY <1>4, WriteEffect
  <2>2. snap[c] # 0
    BY <1>1, <1>0, <2>1 DEF Versions, TypeOK
  <2>3. pc'[c] = "variants" /\ ver' = [ver EXCEPT ![r] = snap[c]]
    BY <1>4, <2>1, <2>2, <1>0 DEF WriteProduct, TypeOK
  <2> QED
    BY <2>1, <2>3, <1>0, <1>1 DEF TypeOK
<1>5. CASE WriteVariants(c)
  <2>1. /\ cur'[c] = cur[c] /\ snap'[c] = snap[c] /\ erpVer' = erpVer /\ listed' = listed
    BY <1>5, WriteEffect
  <2>2. pc[c] = "variants" /\ pc'[c] = "complete"
    BY <1>5, <1>0 DEF WriteVariants, TypeOK
  <2>3. ver[r] = erpVer[r]
    BY <1>1, <2>1, <2>2 DEF Written
  <2>4. variants' = [variants EXCEPT ![r] = snap[c]] /\ ver' = ver
    BY <1>5, <2>1 DEF WriteVariants
  <2>5. r \in active'
    <3>1. ~ Overtaken(c, r)
      BY <1>5, <2>1, WriteEffect
    <3>2. pub[c]
      BY <2>1, <3>1, <1>0 DEF Overtaken, TypeOK
    <3> QED
      BY <1>5, <2>1, <3>2, WriteEffect
  <2> QED
    BY <2>1, <2>3, <2>4, <2>5, <1>0, <1>1 DEF Imported, TypeOK
<1>6. ASSUME NEW i \in Items, Fetch(c, i)
      PROVE  FALSE
  BY <1>6, <1>0 DEF Fetch, TypeOK
<1>7. ASSUME NEW s \in Refs, OnDemandFetch(c, s)
      PROVE  FALSE
  BY <1>7, <1>0 DEF OnDemandFetch, TypeOK
<1> QED
  BY <1>3, <1>4, <1>5, <1>6, <1>7, BusyStep DEF Busy

\* An item succeeds through its call's completion only.
LEMMA SucceedStep ==
    ASSUME Base, [Next]_vars, NEW i \in Items, item[i] # "succeeded", item'[i] = "succeeded"
    PROVE  \E c \in Calls : Complete(c) /\ cur[c] = i
<1>0. TypeOK
  BY DEF Base
<1>1. item' # item
  OBVIOUS
<1>2. ASSUME NEW c \in Calls, NEW j \in Items, ItemFails(c, j)
      PROVE  FALSE
  <2>1. item' = [item EXCEPT ![j] = Retried(j)] /\ Retried(j) # "succeeded"
    BY <1>2, ItemFailsEffect DEF ItemDone
  <2> QED
    BY <2>1, <1>0 DEF TypeOK
<1>3. ASSUME NEW c \in Calls, Complete(c)
      PROVE  cur[c] = i
  BY <1>3, <1>0 DEF Complete, ItemDone, TypeOK
<1>4. ASSUME NEW c \in Calls,
             \/ \E P, S \in SUBSET Refs : StagePage(c, P, S)
             \/ \E C \in SUBSET Items : Claim(c, C)
      PROVE  FALSE
  BY <1>4, <1>0 DEF StagePage, Claim, TypeOK
<1>5. ASSUME NEW c \in Calls,
             \/ FindOpenRun(c) \/ FailInterrupted(c) \/ InsertRun(c) \/ MarkDiscoveryComplete(c) \/ WriteProduct(c)
             \/ WriteVariants(c) \/ ListFinalizable(c) \/ Acquire(c)
             \/ Leaves(c)
      PROVE  FALSE
  BY <1>1, <1>5 DEF FindOpenRun, FailInterrupted, InsertRun, MarkDiscoveryComplete, WriteProduct, WriteVariants,
              ListFinalizable, Acquire, Leaves, NotAcquired, OnDemandEnds, SyncFails, MarkFailed,
              Release, Crash
<1>6. ASSUME NEW c \in Calls,
             \/ \E requested \in Modes : StartSync(c, requested)
             \/ \E j \in Items : Fetch(c, j)
             \/ \E r \in Refs : OnDemandFetch(c, r)
             \/ \E e \in ends[c] : FinalizeRun(c, e)
      PROVE  FALSE
  BY <1>1, <1>6 DEF StartSync, Fetch, OnDemandFetch, FinalizeRun
<1>7. CASE Tick \/ LeaseExpires \/ \E r \in Refs, t \in 0 .. MaxClock, k \in Kinds : ErpChange(r, t, k)
  BY <1>7, <1>1 DEF Tick, LeaseExpires, ErpChange
<1>8. CASE UNCHANGED vars
  BY <1>8, <1>1 DEF vars
<1> QED
  BY <1>2, <1>3, <1>4, <1>5, <1>6, <1>7, <1>8 DEF Next, Leaves

\* While a call stages, a reference leaves its list with a page.
LEMMA LeftStep ==
    ASSUME Base, [Next]_vars, NEW c \in Calls, pc'[c] = "stage", NEW r \in left[c], r \notin left'[c]
    PROVE  InsertRun(c) \/ \E P, S \in SUBSET Refs : StagePage(c, P, S) /\ r \in P
<1>0. TypeOK
  BY DEF Base
<1>1. left' # left
  OBVIOUS
<1>2. ASSUME NEW d \in Calls, NEW p \in {"idle", "fail", "release"}, NEW q, LeaveFor(d, p, q)
      PROVE  FALSE
  BY <1>2, <1>0 DEF LeaveFor, TypeOK
<1>3. ASSUME NEW d \in Calls, NEW P \in SUBSET Refs, NEW S \in SUBSET Refs, StagePage(d, P, S)
      PROVE  StagePage(c, P, S) /\ r \in P
  <2>1. left' = [left EXCEPT ![d] = @ \ P]
    BY <1>3 DEF StagePage
  <2>2. d = c /\ r \in P
    BY <2>1, <1>0 DEF TypeOK
  <2> QED
    BY <2>2, <1>3
<1>4. ASSUME NEW d \in Calls, InsertRun(d)
      PROVE  InsertRun(c)
  BY <1>4, <1>0 DEF InsertRun, TypeOK
<1>5. ASSUME NEW d \in Calls,
             \/ \E requested \in Modes : StartSync(d, requested)
             \/ Acquire(d) \/ FindOpenRun(d) \/ FailInterrupted(d)
             \/ MarkDiscoveryComplete(d)
             \/ \E C \in SUBSET Items : Claim(d, C)
             \/ \E i \in Items : Fetch(d, i)
             \/ \E i \in Items : ItemFails(d, i)
             \/ Complete(d) \/ WriteProduct(d) \/ WriteVariants(d)
             \/ \E s \in Refs : OnDemandFetch(d, s)
             \/ ListFinalizable(d) \/ \E e \in ends[d] : FinalizeRun(d, e)
      PROVE  FALSE
  BY <1>1, <1>5 DEF StartSync, Acquire, FindOpenRun, FailInterrupted, MarkDiscoveryComplete, Claim, Fetch,
              ItemFails, ItemDone, Complete, WriteProduct, WriteVariants, OnDemandFetch,
              ListFinalizable, FinalizeRun
<1>6. ASSUME NEW d \in Calls, Leaves(d)
      PROVE  FALSE
  BY <1>0, <1>2, <1>6, Leaving
<1>7. CASE Tick \/ LeaseExpires \/ \E s \in Refs, t \in 0 .. MaxClock, k \in Kinds : ErpChange(s, t, k)
  BY <1>7, <1>1 DEF Tick, LeaseExpires, ErpChange
<1>8. CASE UNCHANGED vars
  BY <1>8, <1>1 DEF vars
<1> QED
  BY <1>3, <1>4, <1>5, <1>6, <1>7, <1>8 DEF Next, Leaves

\* Nothing but a change at the ERP or an overtaken import unsettles a reference.
LEMMA SettledStays ==
    ASSUME Base, Versions, Written, [Next]_vars, NEW r \in Refs, r \in listed, r \in listed',
           r \notin raced', erpVer'[r] = erpVer[r], Settled(r)
    PROVE  Settled(r)'
<1>0. TypeOK /\ Untouched /\ r \notin raced /\ erpVer[r] \in Nat
  BY RacedGrows DEF Base, TypeOK
<1>1. CASE Imported(r)
  BY <1>1, VersionStays DEF Imported, Settled
<1>2. ASSUME NEW i \in Items, WillImport(i, r)
      PROVE  Settled(r)'
  <2>1. /\ i[1] \in RunIds /\ i[2] = r /\ item[i] \in {"pending", "processing", "failed"}
        /\ windowEnd[i[1]] >= erpVer[r]
        /\ \A c \in Calls : pc[c] \in Busy /\ cur[c] = i => snap[c] = erpVer[r]
    BY <1>2, Pairs DEF WillImport, Covers
  <2>2. windowEnd'[i[1]] = windowEnd[i[1]]
    BY <1>0, <2>1, RunStep DEF Untouched
  <2>3. CASE item'[i] = "succeeded"
    <3>1. PICK c \in Calls : Complete(c) /\ cur[c] = i
      BY <2>1, <2>3, SucceedStep
    <3>2. pc[c] = "complete"
      BY <3>1 DEF Complete
    <3>3. snap[c] = erpVer[r]
      BY <2>1, <3>1, <3>2 DEF Busy
    <3>4. Imported(r)
      BY <1>0, <2>1, <3>1, <3>2, <3>3 DEF Written
    <3> QED
      BY <3>4, <1>1
  <2>4. CASE item'[i] # "succeeded"
    <3>1. item'[i] \in {"pending", "processing", "failed"}
      <4>1. item'[i] \in ItemStatuses
        BY TypeStep DEF TypeOK
      <4>2. item'[i] # "none"
        BY <2>1, ItemStep
      <4> QED
        BY <4>1, <4>2, <2>4 DEF ItemStatuses
    <3>2. ASSUME NEW c \in Calls, pc'[c] \in Busy, cur'[c] = i
          PROVE  snap'[c] = erpVer'[r]
      <4>1. CASE pc'[c] = pc[c] /\ cur'[c] = cur[c] /\ snap'[c] = snap[c]
        BY <4>1, <2>1, <3>2
      <4>2. CASE WriteProduct(c) \/ WriteVariants(c)
        <5>1. pc[c] \in Busy /\ cur' = cur /\ snap' = snap
          BY <4>2, WriteEffect DEF WriteProduct, WriteVariants, Busy
        <5> QED
          BY <5>1, <2>1, <3>2
      <4>3. ASSUME NEW j \in Items, Fetch(c, j)
            PROVE  snap'[c] = erpVer'[r]
        <5>1. cur'[c] = j /\ snap'[c] = AtErp(j[2])
          BY <4>3, <1>0 DEF Fetch, TypeOK
        <5> QED
          BY <5>1, <2>1, <3>2 DEF AtErp
      <4>4. ASSUME NEW s \in Refs, OnDemandFetch(c, s)
            PROVE  FALSE
        <5>1. cur'[c] = <<NoRun, s>>
          BY <4>4, <1>0 DEF OnDemandFetch, TypeOK
        <5> QED
          BY <5>1, <2>1, <3>2, Pairs
      <4> QED
        BY <3>2, <4>1, <4>2, <4>3, <4>4, BusyStep
    <3>3. Covers(i, r)'
      BY <2>1, <2>2, <3>1 DEF Covers
    <3>4. WillImport(i, r)'
      BY <3>2, <3>3 DEF WillImport
    <3> QED
      BY <3>4 DEF Settled
  <2> QED
    BY <2>3, <2>4
<1> QED
  BY <1>1, <1>2 DEF Settled

\* A page settles the references on it.
LEMMA PageSettles ==
    ASSUME Base, Dates, Versions, Written, Discovered, [Next]_vars, NEW c \in Calls,
           NEW P \in SUBSET Refs, NEW S \in SUBSET Refs, StagePage(c, P, S), NEW r \in P, r \in listed', r \notin raced',
           erpVer'[r] + Delay < windowEnd'[run'[c]]
    PROVE  Settled(r)'
<1>0. TypeOK /\ StageOK /\ r \in Refs
  BY DEF Base
<1>1. /\ UNCHANGED <<erpVars, runVars, prodVars, pc, run, cur, snap, raced, mode, from>>
      /\ pc[c] = "stage" /\ r \in left[c]
  BY DEF StagePage
<1>2. run[c] \in RunIds /\ item[<<run[c], r>>] = "none"
  BY <1>0, <1>1 DEF StageOK
<1>3. /\ erpVer[r] \in Nat /\ windowEnd[run[c]] \in Nat
      /\ erpVer[r] <= windowEnd[run[c]]
  <2>1. erpVer[r] \in Nat /\ windowEnd[run[c]] \in Nat
    BY <1>0, <1>2 DEF TypeOK
  <2>2. erpVer[r] + Delay < windowEnd[run[c]]
    BY <1>1
  <2> QED
    BY <2>1, <2>2
<1>4. CASE InWindow(c, r)
  <2>1. PICK i \in Items : i = <<run[c], r>> /\ i[1] = run[c] /\ i[2] = r
    BY <1>2, <1>0, Pairs
  <2>2. item'[i] = "pending"
    BY <1>4, <2>1 DEF StagePage
  <2>3. \A d \in Calls : pc[d] \in Busy => cur[d] # i
    <3> SUFFICES ASSUME NEW d \in Calls, pc[d] \in Busy, cur[d] = i
                 PROVE  FALSE
      OBVIOUS
    <3>1. CASE pc[d] \in {"write", "variants", "complete"}
      BY <3>1, <2>1, <1>2, CurrentItem
    <3>2. CASE pc[d] \in {"odWrite", "odVariants", "odDone"}
      <4>1. cur[d][1] = NoRun
        BY <3>2 DEF Base, PhaseOK
      <4> QED
        BY <4>1, <2>1, <1>2, Pairs
    <3> QED
      BY <3>1, <3>2 DEF Busy
  <2>4. Covers(i, r)'
    BY <2>1, <2>2, <1>1, <1>3 DEF Covers
  <2>5. WillImport(i, r)'
    BY <2>3, <2>4, <1>1 DEF WillImport
  <2> QED
    BY <2>5 DEF Settled
<1>5. CASE ~ InWindow(c, r)
  <2>1. r \in listed /\ r \notin raced
    BY <1>1
  <2>2. ~ (from[c] <= erpVer[r])
    BY <1>3, <1>5, <2>1 DEF InWindow
  <2>3. Settled(r)
    BY <1>0, <1>3, <2>1, <2>2 DEF Discovered, TypeOK
  <2> QED
    BY <1>0, <1>1, <2>1, <2>3, SettledStays
<1> QED
  BY <1>4, <1>5

LEMMA DiscoveredStep ==
    ASSUME Base, Dates, Versions, Written, Discovered, [Next]_vars
    PROVE  Discovered'
<1>0. TypeOK /\ TypeOK' /\ StageOK /\ StageOK'
  <2>1. TypeOK' /\ StageOK'
    BY BaseStep DEF Base
  <2> QED
    BY <2>1 DEF Base
<1> SUFFICES ASSUME NEW r \in Refs, r \in listed', r \notin raced'
             PROVE  /\ erpVer'[r] + Delay < checkpoint' => Settled(r)'
                    /\ \A c \in Calls : erpVer'[r] < from'[c] => Settled(r)'
                    /\ \A c \in Calls :
                        pc'[c] = "stage" /\ r \notin left'[c]
                        /\ erpVer'[r] + Delay < windowEnd'[run'[c]] => Settled(r)'
  BY <1>0 DEF Discovered, TypeOK
<1>1. /\ clock \in Nat /\ checkpoint \in Nat /\ erpVer[r] \in Nat /\ erpVer'[r] \in Nat
      /\ \A c \in Calls : from[c] \in Nat
      /\ \A R \in RunIds : windowEnd[R] \in Nat
  BY <1>0 DEF TypeOK
<1>2. r \notin raced
  BY RacedGrows
\* The ERP changed the reference: no window that ended covers the change.
<1>3. CASE /\ erpVer'[r] + Delay >= clock
           /\ UNCHANGED <<stateVars, runVars, callVars>>
  <2>1. ~ (erpVer'[r] + Delay < checkpoint')
    BY <1>1, <1>3 DEF Dates
  <2>2. \A c \in Calls : ~ (erpVer'[r] < from'[c])
    BY <1>1, <1>3 DEF Dates
  <2>3. \A c \in Calls : pc'[c] = "stage" => ~ (erpVer'[r] + Delay < windowEnd'[run'[c]])
    BY <1>0, <1>1, <1>3 DEF Dates, StageOK
  <2> QED
    BY <2>1, <2>2, <2>3
<1>4. CASE erpVer'[r] = erpVer[r] /\ r \in listed
  <2>0. ASSUME Settled(r)
        PROVE  Settled(r)'
    BY <2>0, <1>4, SettledStays
  <2>1. ASSUME erpVer'[r] + Delay < checkpoint'
        PROVE  Settled(r)'
    <3>1. CASE checkpoint' = checkpoint
      BY <3>1, <2>0, <2>1, <1>2, <1>4 DEF Discovered
    <3>2. ASSUME NEW c \in Calls, MarkDiscoveryComplete(c), checkpoint' = windowEnd[run[c]]
          PROVE  Settled(r)'
      BY <3>2, <2>0, <2>1, <1>2, <1>4 DEF MarkDiscoveryComplete, Discovered
    <3> QED
      BY <3>1, <3>2, CheckpointMoves
  <2>2. ASSUME NEW c \in Calls, erpVer'[r] < from'[c]
        PROVE  Settled(r)'
    <3>1. CASE from'[c] = from[c]
      BY <3>1, <2>0, <2>2, <1>2, <1>4 DEF Discovered
    <3>2. CASE from'[c] = 0
      BY <3>2, <2>2, <1>1
    <3>3. CASE from'[c] + Overlap = checkpoint
      <4>1. from'[c] \in Nat
        BY <1>0 DEF TypeOK
      <4>2. erpVer[r] + Delay < checkpoint
        BY <3>3, <4>1, <2>2, <1>1, <1>4
      <4> QED
        BY <4>2, <2>0, <1>2, <1>4 DEF Discovered
    <3> QED
      BY <3>1, <3>2, <3>3, FromMoves
  <2>3. ASSUME NEW c \in Calls, pc'[c] = "stage", r \notin left'[c],
               erpVer'[r] + Delay < windowEnd'[run'[c]]
        PROVE  Settled(r)'
    <3>1. ~ InsertRun(c)
      BY <2>3, <1>0 DEF InsertRun, TypeOK
    <3>2. pc[c] = "stage" /\ run'[c] = run[c]
      BY <2>3, <3>1, CallStep
    <3>3. windowEnd'[run[c]] = windowEnd[run[c]]
      BY <3>2, <1>0, RunStep DEF StageOK
    <3>4. CASE r \notin left[c]
      BY <3>2, <3>3, <3>4, <2>0, <2>3, <1>2, <1>4 DEF Discovered
    <3>5. CASE r \in left[c]
      <4>1. PICK P, S \in SUBSET Refs : StagePage(c, P, S) /\ r \in P
        BY <3>1, <3>5, <2>3, LeftStep
      <4> QED
        BY <4>1, <2>3, PageSettles
    <3> QED
      BY <3>4, <3>5
  <2> QED
    BY <2>1, <2>2, <2>3
<1> QED
  BY <1>3, <1>4, ErpStep

\* Although the checkpoint moves before the items are imported, the windows are
\* cut by it and the pages are read while the ERP changes, no change is lost
\* between two windows: it is imported, or an item that covers it is there.
THEOREM ChangesAreCovered == Spec => []ChangeIsCovered
<1>1. Init => Versions /\ Written /\ Discovered
  BY DEF Init, Versions, Written, Discovered, Busy
<1>2. Base /\ (Dates /\ LeaseOK) /\ (Versions /\ Written /\ Discovered) /\ [Next]_vars
        => (Versions /\ Written /\ Discovered)'
  BY VersionsStep, WrittenStep, DiscoveredStep
<1>3. Versions /\ Written /\ Discovered => ChangeIsCovered
  BY DEF Discovered, ChangeIsCovered, Settled, Imported, WillImport
<1> QED
  BY <1>1, <1>2, <1>3, AlwaysBase, AlwaysDated, PTL DEF Spec
=============================================================================
