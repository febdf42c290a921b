----------------------------- MODULE CatalogSync -----------------------------
(***************************************************************************)
(* The catalogue synchronisation of one integration,                       *)
(* services/erp/catalogSyncService.ts over models/catalogSyncModel.ts.     *)
(*                                                                         *)
(* A sync call takes a lease, discovers the references the ERP changed in  *)
(* a window that starts before the last checkpoint, stages one item per    *)
(* reference, moves the checkpoint, then claims the due items of every     *)
(* run, imports each reference and closes the runs that have nothing left. *)
(* Closing a full run hides the products it did not see.  Every step is a  *)
(* transaction or an ERP call of its own, so calls interleave between them *)
(* and may stop there; a reference may also be imported on demand, outside *)
(* the lease.                                                              *)
(*                                                                         *)
(* Times are numbers of clock ticks.  0 stands for NULL: no checkpoint, no *)
(* run, no product.                                                        *)
(***************************************************************************)
EXTENDS Naturals, FiniteSets

CONSTANTS
    Refs,           \* ERP references
    Calls,          \* slots for concurrent sync and on-demand calls
    None,           \* no holder of the lease, no current item
    Overlap,        \* overlap_seconds, in ticks
    Delay,          \* ticks after which a change is visible in the ERP's listing
    MaxAttempts,    \* attempts of an item (6 in the code)
    ClaimLimit,     \* items one call claims at most (500 in the code)
    MaxRuns,        \* bound: rows of catalog_sync_runs
    MaxClock,       \* bound: clock ticks
    MaxChanges,     \* bound: changes at the ERP
    MaxDisturbances \* bound: failures, calls that outlive their lease, imports on demand

ASSUME NoneAssumption == None \notin Calls
ASSUME NatAssumption ==
    /\ Overlap \in Nat /\ Delay \in Nat
    /\ MaxAttempts \in Nat \ {0} /\ ClaimLimit \in Nat \ {0} /\ MaxRuns \in Nat /\ MaxClock \in Nat
    /\ MaxChanges \in Nat /\ MaxDisturbances \in Nat
\* A change is in the ERP's listing before it leaves the window (overlap_seconds, 120
\* by default).
ASSUME OverlapAssumption == Delay <= Overlap

VARIABLES
    \* the ERP
    clock,
    erpVer,         \* time of the reference's last change
    listed,         \* references that exist and pass shouldPublishReference
    blocked,        \* references that exist and do not
    \* table catalog_sync_states
    checkpoint,
    fullDue,        \* last_full_sync_at is NULL or 24 hours old
    lease,
    \* table catalog_sync_runs
    runMode, runStatus, windowEnd,
    \* table catalog_sync_items, per run and reference
    item, attempts,
    \* tables products, product_variants and erp_external_references
    ver,            \* ERP version of the product row
    variants,       \* ERP version of its variants
    active,         \* products with is_active
    seenBy,         \* metadata.lastFullRunId
    \* the calls
    pc,
    mode,           \* chooseMode's result
    from,           \* windowStart, 0 for none
    run,            \* the interrupted run found, then the call's own run
    upTo,           \* the time since which windowEnd may be read
    left,           \* references not asked for yet
    queue,          \* items claimed and not finished
    cur,            \* the item being imported; its run is NoRun on demand
    snap,           \* its version at the ERP, 0 when the ERP has none
    pub,            \* publicationActive
    ends,           \* runs listed as finalizable, with their outcome
    changes, disturbances,      \* numbers of them (bounds)
    \* history
    late,           \* a lease ran out under a call that was still working
    stranded,       \* items in 'processing' whose call stopped
    raced,          \* references written with something older than before
    hidden,         \* listed references that closing a full run hid
    marked          \* items whose import put their full run's mark on the product

erpVars   == <<clock, erpVer, listed, blocked>>
stateVars == <<checkpoint, fullDue, lease>>
runVars   == <<runMode, runStatus, windowEnd>>
itemVars  == <<item, attempts>>
prodVars  == <<ver, variants, active, seenBy>>
callVars  == <<pc, mode, from, run, upTo, left, queue, cur, snap, pub, ends>>
history   == <<changes, disturbances, late, stranded, raced, hidden, marked>>
vars == <<erpVars, stateVars, runVars, itemVars, prodVars, callVars, history>>

RunIds == 1 .. MaxRuns
Items  == RunIds \X Refs
NoRun  == 0
Modes  == {"incremental", "full"}
RunStatuses  == {"none", "discovering", "processing", "succeeded", "failed"}
Kinds == {"listed", "blocked", "gone"}
ItemStatuses == {"none", "pending", "processing", "succeeded", "failed"}
Phases == {"idle", "lease", "open", "interrupted", "insert", "stage", "claim", "work", "write",
           "variants", "complete", "finalize", "fail", "release", "odWrite", "odVariants",
           "odDone"}
\* The call holds, or has held, the lease.
InSync(c) == pc[c] \notin {"idle", "lease", "odWrite", "odVariants", "odDone"}

\* Types of the tables and the calls; an item that used up its attempts is not
\* open any more.
TypeOK ==
    /\ clock \in Nat /\ erpVer \in [Refs -> Nat]
    /\ listed \subseteq Refs /\ blocked \subseteq Refs \ listed
    /\ checkpoint \in Nat /\ fullDue \in BOOLEAN /\ lease \in Calls \cup {None}
    /\ runMode \in [RunIds -> Modes]
    /\ runStatus \in [RunIds -> RunStatuses]
    /\ windowEnd \in [RunIds -> Nat]
    /\ item \in [Items -> ItemStatuses]
    /\ attempts \in [Items -> 0 .. MaxAttempts]
    /\ \A i \in Items : item[i] \in {"pending", "processing"} => attempts[i] < MaxAttempts
    /\ ver \in [Refs -> Nat] /\ variants \in [Refs -> Nat]
    /\ active \subseteq Refs
    /\ seenBy \in [Refs -> RunIds \cup {NoRun}]
    /\ pc \in [Calls -> Phases]
    /\ mode \in [Calls -> Modes]
    /\ from \in [Calls -> Nat]
    /\ run \in [Calls -> RunIds \cup {NoRun}] /\ upTo \in [Calls -> Nat]
    /\ left \in [Calls -> SUBSET Refs]
    /\ queue \in [Calls -> SUBSET Items]
    /\ cur \in [Calls -> ((RunIds \cup {NoRun}) \X Refs) \cup {None}]
    /\ snap \in [Calls -> Nat] /\ pub \in [Calls -> BOOLEAN]
    /\ ends \in [Calls -> SUBSET [run : RunIds, ok : BOOLEAN]]
    /\ changes \in Nat /\ disturbances \in Nat
    /\ late \in BOOLEAN /\ stranded \subseteq Items
    /\ raced \subseteq Refs /\ hidden \subseteq Refs /\ marked \subseteq Items

\* The clock starts late enough for a change stamped before it to appear later.
Init ==
    /\ clock = Delay + 2 /\ erpVer = [r \in Refs |-> 1]
    /\ listed \in SUBSET Refs /\ blocked \in SUBSET (Refs \ listed)
    /\ checkpoint = 0 /\ fullDue = TRUE /\ lease = None
    /\ runMode = [R \in RunIds |-> "incremental"]
    /\ runStatus = [R \in RunIds |-> "none"]
    /\ windowEnd = [R \in RunIds |-> 0]
    /\ item = [i \in Items |-> "none"]
    /\ attempts = [i \in Items |-> 0]
    /\ ver = [r \in Refs |-> 0] /\ variants = [r \in Refs |-> 0]
    /\ active = {}
    /\ seenBy = [r \in Refs |-> NoRun]
    /\ pc = [c \in Calls |-> "idle"]
    /\ mode = [c \in Calls |-> "incremental"]
    /\ from = [c \in Calls |-> 0]
    /\ run = [c \in Calls |-> NoRun]
    /\ upTo = [c \in Calls |-> 0]
    /\ left = [c \in Calls |-> {}]
    /\ queue = [c \in Calls |-> {}]
    /\ cur = [c \in Calls |-> None]
    /\ snap = [c \in Calls |-> 0]
    /\ pub = [c \in Calls |-> FALSE]
    /\ ends = [c \in Calls |-> {}]
    /\ changes = 0 /\ disturbances = 0
    /\ late = FALSE /\ stranded = {} /\ raced = {} /\ hidden = {} /\ marked = {}

Disturbance == disturbances < MaxDisturbances /\ disturbances' = disturbances + 1

-----------------------------------------------------------------------------
(* The ERP and the clock                                                    *)

\* A tick may complete the FULL_SYNC_INTERVAL_MS since the last full sync.
Tick ==
    /\ clock < MaxClock
    /\ clock' = clock + 1
    /\ fullDue' \in {fullDue, TRUE}
    /\ UNCHANGED <<erpVer, listed, blocked, checkpoint, lease, runVars, itemVars, prodVars,
                   callVars, history>>

\* A change stamped up to Delay ticks ago becomes visible; after it the
\* reference is for sale, there but not for sale, or gone.
ErpChange(r, t, k) ==
    /\ k = "gone" => r \in listed \cup blocked
    /\ t > erpVer[r] /\ t <= clock /\ clock <= t + Delay
    /\ erpVer' = [erpVer EXCEPT ![r] = t]
    /\ listed' = IF k = "listed" THEN listed \cup {r} ELSE listed \ {r}
    /\ blocked' = IF k = "blocked" THEN blocked \cup {r} ELSE blocked \ {r}
    /\ changes < MaxChanges /\ changes' = changes + 1
    /\ UNCHANGED <<clock, stateVars, runVars, itemVars, prodVars, callVars, disturbances,
                   late, stranded, raced, hidden, marked>>

-----------------------------------------------------------------------------
(* syncTenantCatalog                                                        *)

\* chooseMode, over what loadSyncContext read.
ChooseMode(requested) ==
    IF requested = "full" \/ checkpoint = 0 \/ fullDue THEN "full" ELSE "incremental"

\* Mutant: the window starts at the checkpoint itself.
WindowStartNoOverlap(m) == IF m = "full" THEN 0 ELSE checkpoint

WindowStart(m) ==
    IF m = "full" \/ checkpoint <= Overlap THEN 0 ELSE checkpoint - Overlap

StartSync(c, requested) ==
    /\ pc[c] = "idle"
    /\ \E R \in RunIds : runStatus[R] = "none"    \* bound
    /\ mode' = [mode EXCEPT ![c] = ChooseMode(requested)]
    /\ from' = [from EXCEPT ![c] = WindowStart(ChooseMode(requested))]
    /\ pc' = [pc EXCEPT ![c] = "lease"]
    /\ UNCHANGED <<erpVars, stateVars, runVars, itemVars, prodVars, run, upTo, left, queue,
                   cur, snap, pub, ends, history>>

\* A call ends, or its handling of an error begins: what it held in memory is
\* gone, but for the run r it may have to mark.
LeaveFor(c, p, r) ==
    /\ pc' = [pc EXCEPT ![c] = p]
    /\ mode' = [mode EXCEPT ![c] = "incremental"]
    /\ from' = [from EXCEPT ![c] = 0]
    /\ run' = [run EXCEPT ![c] = r]
    /\ upTo' = [upTo EXCEPT ![c] = 0]
    /\ left' = [left EXCEPT ![c] = {}]
    /\ queue' = [queue EXCEPT ![c] = {}]
    /\ cur' = [cur EXCEPT ![c] = None]
    /\ snap' = [snap EXCEPT ![c] = 0]
    /\ pub' = [pub EXCEPT ![c] = FALSE]
    /\ ends' = [ends EXCEPT ![c] = {}]

Return(c) == LeaveFor(c, "idle", NoRun)

\* Mutant: the lease is taken whoever holds it.
AcquireUnconditional(c) ==
    /\ pc[c] = "lease"
    /\ lease' = c
    /\ pc' = [pc EXCEPT ![c] = "open"]
    /\ UNCHANGED <<erpVars, checkpoint, fullDue, runVars, itemVars, prodVars, mode, from, run,
                   upTo, left, queue, cur, snap, pub, ends, history>>

\* A lease that ran out is taken like a free one: LeaseExpires frees it first.
Acquire(c) ==
    /\ pc[c] = "lease" /\ lease = None
    /\ lease' = c
    /\ pc' = [pc EXCEPT ![c] = "open"]
    /\ UNCHANGED <<erpVars, checkpoint, fullDue, runVars, itemVars, prodVars, mode, from, run,
                   upTo, left, queue, cur, snap, pub, ends, history>>

NotAcquired(c) ==
    /\ pc[c] = "lease" /\ lease # None
    /\ Return(c)
    /\ UNCHANGED <<erpVars, stateVars, runVars, itemVars, prodVars, history>>

\* The 900 seconds pass; nothing renews the lease.
LeaseExpires ==
    /\ lease # None
    /\ lease' = None
    /\ late' = (late \/ InSync(lease))
    /\ IF InSync(lease) THEN Disturbance ELSE UNCHANGED disturbances
    /\ UNCHANGED <<erpVars, checkpoint, fullDue, runVars, itemVars, prodVars, callVars,
                   changes, stranded, raced, hidden, marked>>

OpenFullRuns == {R \in RunIds : runMode[R] = "full" /\ runStatus[R] \in {"discovering", "processing"}}

\* A full sync looks for the oldest full run still open: one past its discovery
\* is resumed as it is, without a new discovery.
FindOpenRun(c) ==
    LET open == IF mode[c] = "full" THEN OpenFullRuns ELSE {} IN
    /\ pc[c] = "open"
    /\ \/ /\ open = {}
          /\ upTo' = [upTo EXCEPT ![c] = clock]
          /\ pc' = [pc EXCEPT ![c] = "insert"]
          /\ UNCHANGED run
       \/ \E R \in open :
          /\ \A Q \in open : R <= Q
          /\ UNCHANGED upTo
          /\ \/ /\ runStatus[R] = "discovering"
                /\ run' = [run EXCEPT ![c] = R]
                /\ pc' = [pc EXCEPT ![c] = "interrupted"]
             \/ /\ runStatus[R] # "discovering"
                /\ pc' = [pc EXCEPT ![c] = "claim"]
                /\ UNCHANGED run
    /\ UNCHANGED <<erpVars, stateVars, runVars, itemVars, prodVars, mode, from, left, queue,
                   cur, snap, pub, ends, history>>

\* The interrupted discovery is marked failed, whatever became of it since.
FailInterrupted(c) ==
    /\ pc[c] = "interrupted"
    /\ runStatus' = [runStatus EXCEPT ![run[c]] = "failed"]
    /\ run' = [run EXCEPT ![c] = NoRun]
    /\ upTo' = [upTo EXCEPT ![c] = clock]
    /\ pc' = [pc EXCEPT ![c] = "insert"]
    /\ UNCHANGED <<erpVars, stateVars, runMode, windowEnd, itemVars, prodVars, mode, from,
                   left, queue, cur, snap, pub, ends, history>>

\* The end of the window is read from the clock after the transaction before
\* this one, and before this one.
InsertRun(c) ==
    \E R \in RunIds, t \in upTo[c] .. clock :
        /\ pc[c] = "insert"
        /\ runStatus[R] = "none" /\ \A Q \in RunIds : Q < R => runStatus[Q] # "none"
        /\ runStatus' = [runStatus EXCEPT ![R] = "discovering"]
        /\ runMode' = [runMode EXCEPT ![R] = mode[c]]
        /\ windowEnd' = [windowEnd EXCEPT ![R] = t]
        /\ run' = [run EXCEPT ![c] = R]
        /\ upTo' = [upTo EXCEPT ![c] = 0]
        /\ left' = [left EXCEPT ![c] = Refs]
        /\ pc' = [pc EXCEPT ![c] = "stage"]
        /\ UNCHANGED <<erpVars, stateVars, itemVars, prodVars, mode, from, queue, cur, snap,
                       pub, ends, history>>

\* The last change of the reference is in the window of the call.
InWindow(c, r) ==
    \/ mode[c] = "full"
    \/ from[c] <= erpVer[r] /\ erpVer[r] <= windowEnd[run[c]]

\* One page of discoverProductChanges, the references P asked for and the found
\* ones S, staged in a transaction of its own.  The listing has every reference
\* for sale of the window, and may have those that are not for sale.
StagePage(c, P, S) ==
    /\ pc[c] = "stage"
    /\ P # {} /\ P \subseteq left[c]
    /\ S \subseteq {r \in P \cap (listed \cup blocked) : InWindow(c, r)}
    /\ {r \in P \cap listed : InWindow(c, r)} \subseteq S
    /\ left' = [left EXCEPT ![c] = @ \ P]
    /\ item' = [i \in Items |-> IF i[1] = run[c] /\ i[2] \in S THEN "pending" ELSE item[i]]
    /\ UNCHANGED <<erpVars, stateVars, runVars, attempts, prodVars, pc, mode, from, run, upTo,
                   queue, cur, snap, pub, ends, history>>

\* The run goes on to its items, whatever became of it, and the checkpoint
\* moves before any item is imported.
MarkDiscoveryComplete(c) ==
    /\ pc[c] = "stage" /\ left[c] = {}
    /\ runStatus' = [runStatus EXCEPT ![run[c]] = "processing"]
    /\ checkpoint' = windowEnd[run[c]]
    /\ mode' = [mode EXCEPT ![c] = "incremental"]    \* mode and from are not used again
    /\ from' = [from EXCEPT ![c] = 0]
    /\ pc' = [pc EXCEPT ![c] = "claim"]
    /\ UNCHANGED <<erpVars, fullDue, lease, runMode, windowEnd, itemVars, prodVars, run, upTo,
                   left, queue, cur, snap, pub, ends, history>>

-----------------------------------------------------------------------------
(* processDueItems                                                          *)

\* Mutant: the claim takes what another call is working on as well.
PendingItemsAndClaimed == {i \in Items : item[i] \in {"pending", "processing"}}

PendingItems == {i \in Items : item[i] = "pending"}

\* Due items of every run of the integration, all of them unless that is more
\* than the limit.  An item never tried is due; one that is waiting after a
\* failure may or may not be.
Claim(c, C) ==
    /\ pc[c] = "claim"
    /\ C \subseteq PendingItems
    /\ Cardinality(C) <= ClaimLimit
    /\ Cardinality(C) = ClaimLimit \/ \A i \in PendingItems : attempts[i] = 0 => i \in C
    /\ item' = [i \in Items |-> IF i \in C THEN "processing" ELSE item[i]]
    /\ queue' = [queue EXCEPT ![c] = C]
    /\ pc' = [pc EXCEPT ![c] = "work"]
    /\ UNCHANGED <<erpVars, stateVars, runVars, attempts, prodVars, mode, from, run, upTo,
                   left, cur, snap, pub, ends, history>>

AtErp(r) == IF r \in listed \cup blocked THEN erpVer[r] ELSE 0

Fetch(c, i) ==
    /\ pc[c] = "work" /\ i \in queue[c]
    /\ cur' = [cur EXCEPT ![c] = i]
    /\ snap' = [snap EXCEPT ![c] = AtErp(i[2])]
    /\ pub' = [pub EXCEPT ![c] = i[2] \in listed]
    /\ pc' = [pc EXCEPT ![c] = "write"]
    /\ UNCHANGED <<erpVars, stateVars, runVars, itemVars, prodVars, mode, from, run, upTo,
                   left, queue, ends, history>>

\* Mutant: one attempt too many.
RetriedOnceMore(i) == IF attempts[i] >= MaxAttempts THEN "failed" ELSE "pending"

Retried(i) == IF attempts[i] + 1 >= MaxAttempts THEN "failed" ELSE "pending"

\* The item leaves the call's queue with status s.
ItemDone(c, i, s) ==
    /\ item' = [item EXCEPT ![i] = s]
    /\ queue' = [queue EXCEPT ![c] = @ \ {i}]
    /\ cur' = [cur EXCEPT ![c] = None]
    /\ snap' = [snap EXCEPT ![c] = 0]
    /\ pub' = [pub EXCEPT ![c] = FALSE]
    /\ pc' = [pc EXCEPT ![c] = "work"]
    /\ UNCHANGED <<erpVars, stateVars, runVars, prodVars, mode, from, run, upTo, left, ends,
                   changes, late, stranded, raced, hidden, marked>>

\* An ERP call, a transaction of the import or the item's own completion
\* throws: retryCatalogSyncItemRow.
ItemFails(c, i) ==
    /\ \/ pc[c] = "work" /\ i \in queue[c]
       \/ pc[c] \in {"write", "variants", "complete"} /\ i = cur[c]
    /\ Disturbance
    /\ attempts' = [attempts EXCEPT ![i] = @ + 1]
    /\ ItemDone(c, i, Retried(i))

Complete(c) ==
    /\ pc[c] = "complete"
    /\ ItemDone(c, cur[c], "succeeded")
    /\ UNCHANGED <<attempts, disturbances>>

-----------------------------------------------------------------------------
(* processReference, for an item and on demand                              *)

\* What call c writes was overtaken: the tables hold something newer, or the
\* reference was listed or unlisted since the call read it.
Overtaken(c, r) ==
    \/ snap[c] # 0 /\ (snap[c] < ver[r] \/ snap[c] < variants[r])
    \/ pub[c] # (r \in listed)
NoteRace(c, r) == raced' = IF Overtaken(c, r) THEN raced \cup {r} ELSE raced

\* Mutant: the metadata is replaced and not merged.
SeenReplaced(c) == IF cur[c][1] # NoRun /\ runMode[cur[c][1]] = "full" THEN cur[c][1] ELSE NoRun

\* upsertExternalReferenceRow merges the metadata: an import of an incremental
\* run keeps the mark of the last full one.
InFullRun(c) == cur[c][1] # NoRun /\ runMode[cur[c][1]] = "full"
Seen(c) == IF InFullRun(c) THEN cur[c][1] ELSE seenBy[cur[c][2]]

\* Both transactions put the product on sale or take it off.
Publish(c, r) == active' = IF pub[c] THEN active \cup {r} ELSE active \ {r}

\* Writing what the ERP does not have only hides the product; anything else, for
\* sale or not, is written in two transactions, the product and its mark first.
WriteProduct(c) ==
    LET r == cur[c][2] IN
    /\ pc[c] \in {"write", "odWrite"}
    /\ NoteRace(c, r)
    /\ Publish(c, r)
    /\ \/ /\ snap[c] = 0
          /\ UNCHANGED <<ver, seenBy, hidden, marked>>
       \/ /\ snap[c] # 0
          /\ ver' = [ver EXCEPT ![r] = snap[c]]
          /\ seenBy' = [seenBy EXCEPT ![r] = Seen(c)]
          /\ hidden' = hidden \ {r}
          /\ marked' = IF InFullRun(c) THEN marked \cup {cur[c]} ELSE marked
    /\ pc' = [pc EXCEPT ![c] = CASE snap[c] # 0 /\ pc[c] = "write" -> "variants"
                                 [] snap[c] # 0 /\ pc[c] = "odWrite" -> "odVariants"
                                 [] snap[c] = 0 /\ pc[c] = "write" -> "complete"
                                 [] OTHER -> "odDone"]
    /\ UNCHANGED <<erpVars, stateVars, runVars, itemVars, variants, mode, from, run, upTo,
                   left, queue, cur, snap, pub, ends, changes, disturbances, late, stranded>>

WriteVariants(c) ==
    LET r == cur[c][2] IN
    /\ pc[c] \in {"variants", "odVariants"}
    /\ NoteRace(c, r)
    /\ variants' = [variants EXCEPT ![r] = snap[c]]
    /\ Publish(c, r)
    /\ hidden' = hidden \ {r}
    /\ pc' = [pc EXCEPT ![c] = IF @ = "variants" THEN "complete" ELSE "odDone"]
    /\ UNCHANGED <<erpVars, stateVars, runVars, itemVars, ver, seenBy, mode, from, run,
                   upTo, left, queue, cur, snap, pub, ends, changes, disturbances, late,
                   stranded, marked>>

\* syncReferenceOnDemand: no lease, and a run of its own in mode incremental,
\* which no other call looks at.
OnDemandFetch(c, r) ==
    /\ pc[c] = "idle"
    /\ cur' = [cur EXCEPT ![c] = <<NoRun, r>>]
    /\ snap' = [snap EXCEPT ![c] = AtErp(r)]
    /\ pub' = [pub EXCEPT ![c] = r \in listed]
    /\ pc' = [pc EXCEPT ![c] = "odWrite"]
    /\ Disturbance
    /\ UNCHANGED <<erpVars, stateVars, runVars, itemVars, prodVars, mode, from, run, upTo,
                   left, queue, ends, changes, late, stranded, raced, hidden, marked>>

\* It is done, or throws on the way.
OnDemandEnds(c) ==
    /\ pc[c] \in {"odWrite", "odVariants", "odDone"}
    /\ Return(c)
    /\ UNCHANGED <<erpVars, stateVars, runVars, itemVars, prodVars, history>>

-----------------------------------------------------------------------------
(* finalizeRuns and the end of a call                                       *)

ItemsOf(R) == {i \in Items : i[1] = R}
\* Mutant: a run with items in 'processing' is closed.
FinalizableInProcess(R) ==
    /\ runStatus[R] = "processing"
    /\ \A i \in ItemsOf(R) : item[i] # "pending"

Finalizable(R) ==
    /\ runStatus[R] = "processing"
    /\ \A i \in ItemsOf(R) : item[i] \notin {"pending", "processing"}
NoneFailed(R) == \A i \in ItemsOf(R) : item[i] # "failed"

ListFinalizable(c) ==
    /\ pc[c] = "work" /\ queue[c] = {}
    /\ ends' = [ends EXCEPT ![c] = {[run |-> R, ok |-> NoneFailed(R)] :
                                        R \in {Q \in RunIds : Finalizable(Q)}}]
    /\ pc' = [pc EXCEPT ![c] = "finalize"]
    /\ UNCHANGED <<erpVars, stateVars, runVars, itemVars, prodVars, mode, from, run, upTo,
                   left, queue, cur, snap, pub, history>>

\* Mutant: closing a full run hides nothing.
SeenInAny(R) == active

\* deactivateProductsNotSeenInFullRunRow
SeenIn(R) == {r \in active : seenBy[r] = R}

FinalizeRun(c, e) ==
    /\ pc[c] = "finalize" /\ e \in ends[c]
    /\ ends' = [ends EXCEPT ![c] = @ \ {e}]
    /\ \/ /\ e.ok /\ runMode[e.run] = "full"
          /\ active' = SeenIn(e.run)
          /\ hidden' = hidden \cup (listed \cap (active \ SeenIn(e.run)))
          /\ fullDue' = FALSE
       \/ /\ ~ (e.ok /\ runMode[e.run] = "full")
          /\ UNCHANGED <<active, hidden, fullDue>>
    /\ runStatus' = [runStatus EXCEPT ![e.run] = IF e.ok THEN "succeeded" ELSE "failed"]
    /\ UNCHANGED <<erpVars, checkpoint, lease, runMode, windowEnd, itemVars, ver, variants,
                   seenBy, pc, mode, from, run, upTo, left, queue, cur, snap, pub, changes,
                   disturbances, late, stranded, raced, marked>>

\* releaseCatalogSyncLeaseRow touches the lease only while it is the call's own.
LeaseReleasedBy(c) == lease' = IF lease = c THEN None ELSE lease

\* Something outside the handling of one item throws: what the call claimed
\* stays in 'processing'.
SyncFails(c) ==
    /\ InSync(c) /\ pc[c] \notin {"fail", "release"}
    /\ Disturbance
    /\ stranded' = stranded \cup queue[c]
    /\ IF pc[c] \notin {"open", "interrupted", "insert"} /\ run[c] # NoRun
       THEN LeaveFor(c, "fail", run[c])
       ELSE LeaveFor(c, "release", NoRun)
    /\ UNCHANGED <<erpVars, stateVars, runVars, itemVars, prodVars, changes, late, raced,
                   hidden, marked>>

\* The run the call inserted is marked failed, unless that throws as well, which
\* nobody notices.
MarkFailed(c) ==
    /\ pc[c] = "fail"
    /\ \/ /\ runStatus' = [runStatus EXCEPT ![run[c]] = "failed"]
          /\ UNCHANGED disturbances
       \/ Disturbance /\ UNCHANGED runStatus
    /\ LeaveFor(c, "release", NoRun)
    /\ UNCHANGED <<erpVars, stateVars, runMode, windowEnd, itemVars, prodVars, changes, late,
                   stranded, raced, hidden, marked>>

\* The call is over, well or not, and gives its lease back.  Should that throw,
\* it leaves what Crash leaves.
Release(c) ==
    /\ pc[c] \in {"finalize", "release"} /\ ends[c] = {}
    /\ LeaseReleasedBy(c)
    /\ Return(c)
    /\ UNCHANGED <<erpVars, checkpoint, fullDue, runVars, itemVars, prodVars, history>>

\* The process stops; the lease stays until it runs out.  A call that stops
\* outside its lease leaves what NotAcquired and OnDemandEnds leave.
Crash(c) ==
    /\ InSync(c)
    /\ Disturbance
    /\ stranded' = stranded \cup queue[c]
    /\ Return(c)
    /\ UNCHANGED <<erpVars, stateVars, runVars, itemVars, prodVars, changes, late, raced,
                   hidden, marked>>

Next ==
    \/ Tick \/ LeaseExpires
    \/ \E r \in Refs, t \in 0 .. MaxClock, k \in Kinds : ErpChange(r, t, k)
    \/ \E c \in Calls :
        \/ \E requested \in Modes : StartSync(c, requested)
        \/ Acquire(c) \/ NotAcquired(c) \/ FindOpenRun(c) \/ FailInterrupted(c)
        \/ InsertRun(c)
        \/ \E P, S \in SUBSET Refs : StagePage(c, P, S)
        \/ MarkDiscoveryComplete(c)
        \/ \E C \in SUBSET Items : Claim(c, C)
        \/ \E i \in Items : Fetch(c, i) \/ ItemFails(c, i)
        \/ Complete(c) \/ WriteProduct(c) \/ WriteVariants(c)
        \/ \E r \in Refs : OnDemandFetch(c, r)
        \/ OnDemandEnds(c)
        \/ ListFinalizable(c)
        \/ \E e \in ends[c] : FinalizeRun(c, e)
        \/ SyncFails(c) \/ MarkFailed(c) \/ Release(c) \/ Crash(c)

Spec == Init /\ [][Next]_vars

-----------------------------------------------------------------------------
(* Properties                                                               *)

Owned == UNION {queue[c] : c \in Calls}

\* The checkpoint moves before the items are imported, windows are cut by the
\* checkpoint and pages are read while the ERP changes; still no change is lost
\* between two windows.  A listed reference whose last change was visible
\* before the checkpoint either is imported as it is at the ERP, and on sale
\* unless closing a full run hid it, or an item of a run that covers the change
\* is waiting, being worked on, stranded or given up.  References where an
\* import was overtaken by another are left out.
Covers(i, r) ==
    /\ i[2] = r /\ item[i] \in {"pending", "processing", "failed"}
    /\ windowEnd[i[1]] >= erpVer[r]
ChangeIsCovered ==
    \A r \in listed \ raced : erpVer[r] + Delay < checkpoint =>
        \/ \E i \in Items : Covers(i, r)
        \/ ver[r] = erpVer[r] /\ variants[r] = erpVer[r] /\ r \in active \cup hidden

\* Two calls never work on one item, even when a call goes on after its lease
\* ran out and another claims beside it; and an item in 'processing' that no
\* call holds was left by a call that stopped.
ItemHasOneWorker ==
    /\ \A c, d \in Calls : c # d => queue[c] \cap queue[d] = {}
    /\ \A c \in Calls : \A i \in queue[c] : item[i] = "processing"
    /\ \A i \in Items : item[i] = "processing" => i \in Owned \cup stranded

\* A run that is closed as succeeded imported everything it staged, although
\* it is listed in one transaction and closed in another, while late calls may
\* stage, claim and close as well.
SucceededRunIsComplete ==
    \A R \in RunIds : runStatus[R] = "succeeded" =>
        \A i \in ItemsOf(R) : item[i] \in {"none", "succeeded"}

\* What the ERP unlisted before a full run started is off the shop once that
\* run succeeded: only an import that read the ERP before may bring it back.
GoneIsHidden ==
    \A R \in RunIds : \A r \in Refs \ (listed \cup raced) :
        runMode[R] = "full" /\ runStatus[R] = "succeeded" /\ erpVer[r] + Delay < windowEnd[R]
            => r \notin active

\* The checkpoint goes back only where a call outlived its lease: nothing else
\* lets an older discovery end after a newer one.
CheckpointAdvances == [][checkpoint' >= checkpoint \/ late]_vars

\* Closing a full run hides a reference the run itself imported only when
\* another full run put its own mark on it since: no incremental or on-demand
\* import in between, and no retry after the run's discovery, costs a product
\* its place in the shop.
FullRunKeepsSeen ==
    [][\A c \in Calls : \A e \in ends[c] \ ends'[c] :
        pc'[c] = "finalize" =>
            \A r \in active \ active' :
                <<e.run, r>> \in marked
                    => seenBy[r] \in RunIds \ {e.run} /\ runMode[seenBy[r]] = "full"]_vars
=============================================================================
