--------------------------- MODULE UpgradeProofs ---------------------------
(***************************************************************************)
(* Theorems about Upgrade, for any history limit and any number of crashes *)
(* of the upgrading program.                                               *)
(***************************************************************************)
EXTENDS Upgrade, TLAPS

-----------------------------------------------------------------------------
(* Types. *)

RevType == [rv : Nat, selected : BOOLEAN, marked : BOOLEAN,
            owner : {"none", "sts", "asts", "deleted"}]

AstsType == [exists : BOOLEAN, current : Revisions \union {None}]

\* What is left to do is always among what was read.
MarkingType(S) == [pc : {"mark"}, todo : SUBSET S, read : [S -> RevType]]

UpgradeType ==
  UNION {[pc : {"start", "delete", "done"}],
         UNION {MarkingType(S) : S \in SUBSET Revisions},
         [pc : {"create", "update", "status"}, asts : AstsType]}

LabellingType(S) ==
  [pc : {"label"}, current : Revisions \union {None}, todo : SUBSET S,
   one : SUBSET S, two : SUBSET S, read : [S -> RevType]]

Entries == Revisions \X {1, 2}

WorkerType ==
  UNION {[pc : {"idle"}],
         [pc : {"claim"}, current : Revisions \union {None}],
         UNION {LabellingType(S) : S \in SUBSET Revisions},
         [pc : {"pods"}, claimed : BOOLEAN, current : Revisions, todo : SUBSET Entries],
         [pc : {"truncate"}, todo : SUBSET Entries]}

\* The type invariant of Upgrade: among others, whatever Upgrade has yet to
\* mark and the sync has yet to label or adopt was read before.
TypeOK ==
  /\ fixed \in BOOLEAN
  /\ sts \in {"there", "deleting", "gone"}
  /\ orphaning \subseteq Revisions \union {Pod}
  /\ asts \in AstsType
  /\ pod \in {"sts", "none", "asts"}
  /\ revs \in [Revisions -> RevType]
  /\ revCache \in [Revisions -> RevType]
  /\ u \in UpgradeType
  /\ queued \in BOOLEAN
  /\ w \in WorkerType
  /\ crashes \in 0 .. MaxCrashes

\* A write keeps the type, and leaves the other revisions alone; the written
\* one gets the new labels and the new owner.
LEMMA BecomesWrites ==
  ASSUME revs \in [Revisions -> RevType],
         NEW x \in Revisions, NEW new \in RevType, Becomes(x, new)
  PROVE  /\ revs' \in [Revisions -> RevType]
         /\ \A y \in Revisions \ {x} : revs'[y] = revs[y]
         /\ revs'[x].owner = new.owner
BY DEF Becomes, RevType

\* An update of some of its fields leaves a revision a revision.
LEMMA RevisionUpdates ==
  ASSUME NEW r \in RevType, NEW b \in BOOLEAN, NEW c \in BOOLEAN,
         NEW o \in {"none", "sts", "asts", "deleted"}
  PROVE  /\ [r EXCEPT !.owner = o] \in RevType
         /\ [r EXCEPT !.selected = b] \in RevType
         /\ [r EXCEPT !.selected = b, !.marked = c] \in RevType
         /\ [r EXCEPT !.owner = o, !.selected = b, !.marked = c] \in RevType
         /\ [r EXCEPT !.owner = o].owner = o
         /\ [r EXCEPT !.selected = b].owner = r.owner
         /\ [r EXCEPT !.selected = b, !.marked = c].owner = r.owner
         /\ [r EXCEPT !.owner = o, !.selected = b, !.marked = c].owner = o
BY DEF RevType

\* The listed revisions and the entries to be deleted are what they should be:
\* no entry is the revision of the template or the one of the pod.
LEMMA ListingTypes ==
  ASSUME TypeOK
  PROVE  /\ ByMark \subseteq ListRevisions /\ BySelector \subseteq ListRevisions
         /\ ListRevisions \subseteq Revisions
         /\ Listing \in [ListRevisions -> RevType]
         /\ Truncated \subseteq Entries
         /\ \A e \in Truncated : e[1] = Old
BY DEF TypeOK, ByMark, BySelector, ListRevisions, Listing, Truncated, History, Live,
       Entries, Revisions, Old, Cur, Upd

\* The current revision is one of the revisions.
LEMMA CurrentType ==
  ASSUME TypeOK, w.current \in Revisions \union {None}
  PROVE  CurrentRevision \in Revisions
BY ListingTypes DEF CurrentRevision, Revisions, None, Old, Cur, Upd

-----------------------------------------------------------------------------
(* Type correctness, action by action. *)

\* The initial state has its type.
LEMMA TypeInit == Init => TypeOK
<1> SUFFICES ASSUME Init PROVE TypeOK
  OBVIOUS
<1>1. crashes \in 0 .. MaxCrashes /\ fixed \in BOOLEAN
  BY UpgradeAssumption DEF Init
<1>2. revs \in [Revisions -> RevType] /\ revCache = revs
  BY DEF Init, RevType
<1>3. u \in UpgradeType /\ w \in WorkerType
  BY DEF Init, Start, Idle, UpgradeType, WorkerType
<1> QED
  BY <1>1, <1>2, <1>3 DEF Init, TypeOK, AstsType

\* The calls of Upgrade keep the types.
LEMMA TypeUpgrade ==
  ASSUME TypeOK, UpgradeStep \/ Crash
  PROVE  TypeOK'
<1>1. CASE UpgradeLists
  <2>1. ListRevisionsToMark \in SUBSET Revisions
    BY DEF ListRevisionsToMark
  <2>2. u' \in MarkingType(ListRevisionsToMark)
    BY <1>1, <2>1 DEF UpgradeLists, MarkingType, TypeOK
  <2>3. u' \in UpgradeType
    BY <2>1, <2>2 DEF UpgradeType
  <2> QED
    BY <1>1, <2>3 DEF UpgradeLists, TypeOK, cluster, controller
<1>2. CASE UpgradeMarks
  <2>1. PICK S \in SUBSET Revisions : u \in MarkingType(S)
    BY <1>2 DEF UpgradeMarks, TypeOK, UpgradeType
  <2>2. PICK x \in u.todo :
          IF revs[x] = u.read[x]
          THEN /\ Becomes(x, [revs[x] EXCEPT !.selected = FALSE, !.marked = TRUE])
               /\ u' = [u EXCEPT !.todo = @ \ {x}]
          ELSE u' = Start /\ UNCHANGED revs
    BY <1>2 DEF UpgradeMarks
  <2>3. x \in Revisions /\ revs[x] \in RevType
    BY <2>1, <2>2 DEF MarkingType, TypeOK
  <2>4. revs' \in [Revisions -> RevType]
    <3>1. [revs[x] EXCEPT !.selected = FALSE, !.marked = TRUE] \in RevType
      BY <2>3, RevisionUpdates
    <3> QED
      BY <2>2, <2>3, <3>1, BecomesWrites DEF TypeOK
  <2>5. u' \in UpgradeType
    <3>1. [u EXCEPT !.todo = @ \ {x}] \in MarkingType(S)
      BY <2>1 DEF MarkingType
    <3> QED
      BY <2>2, <3>1 DEF UpgradeType, Start
  <2> QED
    BY <1>2, <2>4, <2>5 DEF UpgradeMarks, TypeOK, cluster, controller
<1>3. CASE UpgradeGets
  BY <1>3 DEF UpgradeGets, TypeOK, cluster, controller, UpgradeType
<1>4. CASE UpgradeCreates
  <2>1. u \in [pc : {"create", "update", "status"}, asts : AstsType]
    BY <1>4 DEF UpgradeCreates, TypeOK, UpgradeType, MarkingType
  <2>2. asts' \in AstsType
    BY <1>4 DEF UpgradeCreates, AstsType
  <2>3. u' \in UpgradeType
    BY <1>4, <2>1, <2>2 DEF UpgradeCreates, UpgradeType
  <2> QED
    BY <1>4, <2>2, <2>3 DEF UpgradeCreates, TypeOK, cluster
<1>5. CASE UpgradeUpdates
  <2>1. u \in [pc : {"create", "update", "status"}, asts : AstsType]
    BY <1>5 DEF UpgradeUpdates, TypeOK, UpgradeType, MarkingType
  <2>2. u' \in UpgradeType
    BY <1>5, <2>1 DEF UpgradeUpdates, UpgradeType, Start
  <2> QED
    BY <1>5, <2>2 DEF UpgradeUpdates, TypeOK, cluster, controller
<1>6. CASE UpgradeCopiesStatus
  <2>1. asts' \in AstsType /\ queued' \in BOOLEAN
    BY <1>6 DEF UpgradeCopiesStatus, TypeOK, AstsType, Revisions
  <2>2. u' \in UpgradeType
    BY <1>6 DEF UpgradeCopiesStatus, UpgradeType, Start
  <2> QED
    BY <1>6, <2>1, <2>2 DEF UpgradeCopiesStatus, TypeOK, cluster
<1>7. CASE UpgradeDeletes
  <2>1. u' \in UpgradeType
    BY <1>7 DEF UpgradeDeletes, UpgradeType
  <2>2. Owned \subseteq Revisions \union {Pod}
    BY DEF Owned
  <2> QED
    BY <1>7, <2>1, <2>2 DEF UpgradeDeletes, TypeOK, controller
<1>8. CASE Crash
  <2>1. u' \in UpgradeType
    BY <1>8 DEF Crash, UpgradeType, Start
  <2>2. crashes' \in 0 .. MaxCrashes
    BY <1>8, UpgradeAssumption DEF Crash, TypeOK
  <2> QED
    BY <1>8, <2>1, <2>2 DEF Crash, TypeOK, cluster, controller
<1> QED
  BY <1>1, <1>2, <1>3, <1>4, <1>5, <1>6, <1>7, <1>8 DEF UpgradeStep

\* The builtin controller and the garbage collector keep the types.
LEMMA TypeCluster ==
  ASSUME TypeOK, BuiltinAdopts \/ Orphan \/ FinalizeSts \/ CollectRevision
  PROVE  TypeOK'
<1>1. CASE BuiltinAdopts
  <2>1. revs' \in [Revisions -> RevType]
    <3>1. PICK x \in Revisions : Becomes(x, [revs[x] EXCEPT !.owner = "sts"])
      BY <1>1 DEF BuiltinAdopts
    <3>2. revs[x] \in RevType
      BY DEF TypeOK
    <3>3. [revs[x] EXCEPT !.owner = "sts"] \in RevType
      BY <3>2, RevisionUpdates
    <3> QED
      BY <3>1, <3>3, BecomesWrites DEF TypeOK
  <2> QED
    BY <1>1, <2>1 DEF BuiltinAdopts, TypeOK, cluster, controller, upgrade
<1>2. CASE Orphan
  <2>1. PICK x \in orphaning :
          /\ orphaning' = orphaning \ {x}
          /\ IF x = Pod
             THEN pod' = "none" /\ queued' = asts.exists /\ UNCHANGED revs
             ELSE /\ Becomes(x, [revs[x] EXCEPT !.owner = IF @ = "sts" THEN "none" ELSE @])
                  /\ UNCHANGED <<pod, queued>>
    BY <1>2 DEF Orphan
  <2>2. CASE x = Pod
    BY <1>2, <2>1, <2>2 DEF Orphan, TypeOK, upgrade, AstsType
  <2>3. CASE x # Pod
    <3>1. x \in Revisions /\ revs[x] \in RevType /\ revs[x].owner \in {"none", "sts", "asts", "deleted"}
      BY <2>1, <2>3 DEF TypeOK, RevType
    <3>2. [revs[x] EXCEPT !.owner = IF @ = "sts" THEN "none" ELSE @] \in RevType
      BY <3>1, RevisionUpdates
    <3>3. revs' \in [Revisions -> RevType]
      BY <2>1, <2>3, <3>1, <3>2, BecomesWrites DEF TypeOK
    <3> QED
      BY <1>2, <2>1, <2>3, <3>3 DEF Orphan, TypeOK, upgrade
  <2> QED
    BY <2>2, <2>3
<1>3. CASE FinalizeSts
  BY <1>3 DEF FinalizeSts, TypeOK, controller, upgrade
<1>4. CASE CollectRevision
  <2>1. revs' \in [Revisions -> RevType]
    <3>1. PICK x \in Revisions : Becomes(x, [revs[x] EXCEPT !.owner = "deleted"])
      BY <1>4 DEF CollectRevision
    <3>2. revs[x] \in RevType
      BY DEF TypeOK
    <3>3. [revs[x] EXCEPT !.owner = "deleted"] \in RevType
      BY <3>2, RevisionUpdates
    <3> QED
      BY <3>1, <3>3, BecomesWrites DEF TypeOK
  <2> QED
    BY <1>4, <2>1 DEF CollectRevision, TypeOK, cluster, controller, upgrade
<1> QED
  BY <1>1, <1>2, <1>3, <1>4

\* The advanced controller keeps the types.
LEMMA TypeController ==
  ASSUME TypeOK, Controller
  PROVE  TypeOK'
<1>1. CASE Sync
  <2>1. w' \in WorkerType
    <3>1. CASE hasOrphans
      <4>1. w' \in LabellingType(ListRevisions)
        BY <1>1, <3>1, ListingTypes DEF Sync, LabellingType, TypeOK, AstsType
      <4> QED
        BY <4>1, ListingTypes DEF WorkerType
    <3>2. CASE ~ hasOrphans
      BY <1>1, <3>2 DEF Sync, WorkerType, TypeOK, AstsType
    <3> QED
      BY <3>1, <3>2
  <2> QED
    BY <1>1, <2>1 DEF Sync, TypeOK, cluster, upgrade
<1>2. CASE syncLabels
  <2>1. PICK S \in SUBSET Revisions : w \in LabellingType(S)
    BY <1>2 DEF syncLabels, TypeOK, WorkerType
  <2>2. PICK x \in w.todo :
          /\ revCache' = IF revCache[x].rv = w.read[x].rv
                         THEN [revCache EXCEPT ![x].selected = TRUE] ELSE revCache
          /\ IF revs[x].rv = w.read[x].rv
             THEN /\ Becomes(x, [revs[x] EXCEPT !.selected = TRUE])
                  /\ w' = [w EXCEPT !.todo = @ \ {x}, !.read[x] = revs'[x]]
                  /\ UNCHANGED queued
             ELSE Requeue /\ UNCHANGED revs
    BY <1>2 DEF syncLabels
  <2>3. x \in S /\ x \in Revisions /\ revs[x] \in RevType /\ revCache[x] \in RevType
    BY <2>1, <2>2 DEF LabellingType, TypeOK
  <2>4. /\ [revs[x] EXCEPT !.selected = TRUE] \in RevType
        /\ [revCache[x] EXCEPT !.selected = TRUE] \in RevType
    BY <2>3, RevisionUpdates
  <2>5. revCache' \in [Revisions -> RevType]
    BY <2>2, <2>3, <2>4 DEF TypeOK
  <2>6. revs' \in [Revisions -> RevType]
    BY <2>2, <2>3, <2>4, BecomesWrites DEF TypeOK
  <2>7. revs'[x] \in RevType
    BY <2>3, <2>6
  <2>8. [w EXCEPT !.todo = @ \ {x}, !.read[x] = revs'[x]] \in LabellingType(S)
    BY <2>1, <2>3, <2>7 DEF LabellingType
  <2>9. w' \in WorkerType /\ queued' \in BOOLEAN
    <3>1. CASE revs[x].rv = w.read[x].rv
      <4>1. w' \in LabellingType(S)
        BY <2>2, <2>8, <3>1
      <4> QED
        BY <2>2, <3>1, <4>1 DEF WorkerType, TypeOK
    <3>2. CASE revs[x].rv # w.read[x].rv
      BY <2>2, <3>2 DEF WorkerType, Requeue, Idle
    <3> QED
      BY <3>1, <3>2
  <2> QED
    BY <1>2, <2>5, <2>6, <2>9 DEF syncLabels, TypeOK, cluster, upgrade
<1>3. ASSUME NEW x \in Revisions, AdoptOrphanRevision(x)
      PROVE  TypeOK'
  <2>1. PICK S \in SUBSET Revisions : w \in LabellingType(S)
    BY <1>3 DEF AdoptOrphanRevision, TypeOK, WorkerType
  <2>2. revs' \in [Revisions -> RevType]
    <3>1. revs[x] \in RevType
      BY <1>3 DEF TypeOK
    <3>2. [revs[x] EXCEPT !.owner = "asts"] \in RevType
      BY <3>1, RevisionUpdates
    <3> QED
      BY <1>3, <3>2, BecomesWrites DEF AdoptOrphanRevision, TypeOK
  <2>3. w' \in LabellingType(S)
    BY <1>3, <2>1 DEF AdoptOrphanRevision, Adopted, LabellingType
  <2>4. w' \in WorkerType
    BY <2>3 DEF WorkerType
  <2> QED
    BY <1>3, <2>2, <2>4 DEF AdoptOrphanRevision, TypeOK, cluster, upgrade
<1>4. ASSUME NEW x \in Revisions, AdoptFails(x)
      PROVE  TypeOK'
  BY <1>4 DEF AdoptFails, Requeue, Idle, WorkerType, TypeOK, cluster, upgrade
<1>5. CASE SyncGoesOn
  <2>1. w.current \in Revisions \union {None}
    BY <1>5 DEF SyncGoesOn, TypeOK, WorkerType, LabellingType
  <2>2. w' \in WorkerType
    BY <1>5, <2>1, CurrentType, ListingTypes
      DEF SyncGoesOn, getStatefulSetRevisions, WorkerType
  <2>3. revs' \in [Revisions -> RevType]
    <3>1. Upd \in Revisions /\ revs[Upd] \in RevType
      BY DEF Revisions, TypeOK
    <3>2. [revs[Upd] EXCEPT !.owner = "asts", !.selected = TRUE, !.marked = FALSE] \in RevType
      BY <3>1, RevisionUpdates
    <3> QED
      BY <1>5, <3>1, <3>2, BecomesWrites DEF SyncGoesOn, getStatefulSetRevisions, TypeOK
  <2>4. pod' \in {"sts", "none", "asts"} /\ queued' \in BOOLEAN
    BY <1>5 DEF SyncGoesOn, ClaimPods, TypeOK
  <2> QED
    BY <1>5, <2>2, <2>3, <2>4 DEF SyncGoesOn, TypeOK, cluster, upgrade
<1>6. CASE updateStatefulSet
  <2>1. w \in [pc : {"pods"}, claimed : BOOLEAN, current : Revisions, todo : SUBSET Entries]
    BY <1>6 DEF updateStatefulSet, TypeOK, WorkerType, LabellingType
  <2>2. asts' \in AstsType /\ queued' \in BOOLEAN
    BY <1>6, <2>1 DEF updateStatefulSet, WriteStatus, Requeue, TypeOK, AstsType
  <2>3. w' \in WorkerType
    BY <1>6, <2>1 DEF updateStatefulSet, WriteStatus, Requeue, Idle, WorkerType
  <2> QED
    BY <1>6, <2>2, <2>3 DEF updateStatefulSet, TypeOK, cluster, upgrade
<1>7. CASE truncateHistory
  <2>1. w \in [pc : {"truncate"}, todo : SUBSET Entries]
    BY <1>7 DEF truncateHistory, TypeOK, WorkerType, LabellingType
  <2>2. CASE w.todo = {}
    BY <1>7, <2>2 DEF truncateHistory, TypeOK, cluster, upgrade, Idle, WorkerType
  <2>3. CASE w.todo # {}
    <3>1. PICK e \in w.todo :
            IF Gone(e[1]) THEN Requeue /\ UNCHANGED revs
            ELSE /\ Becomes(e[1], [revs[e[1]] EXCEPT !.owner = "deleted"])
                 /\ w' = [w EXCEPT !.todo = @ \ {e}]
                 /\ UNCHANGED queued
      BY <1>7, <2>3 DEF truncateHistory
    <3>2. e[1] \in Revisions
      BY <2>1, <3>1 DEF Entries
    <3>3. revs' \in [Revisions -> RevType]
      <4>1. [revs[e[1]] EXCEPT !.owner = "deleted"] \in RevType
        <5>1. revs[e[1]] \in RevType
          BY <3>2 DEF TypeOK
        <5> QED
          BY <5>1, RevisionUpdates
      <4> QED
        BY <3>1, <3>2, <4>1, BecomesWrites DEF TypeOK
    <3>4. w' \in WorkerType /\ queued' \in BOOLEAN
      <4>1. [w EXCEPT !.todo = @ \ {e}] \in [pc : {"truncate"}, todo : SUBSET Entries]
        BY <2>1
      <4>2. Idle \in [pc : {"idle"}]
        BY DEF Idle
      <4>3. w' \in [pc : {"truncate"}, todo : SUBSET Entries] \union [pc : {"idle"}]
        BY <3>1, <4>1, <4>2 DEF Requeue
      <4> QED
        BY <3>1, <4>3 DEF Requeue, WorkerType, TypeOK
    <3> QED
      BY <1>7, <3>3, <3>4 DEF truncateHistory, TypeOK, cluster, upgrade
  <2> QED
    BY <2>2, <2>3
<1> QED
  BY <1>1, <1>2, <1>3, <1>4, <1>5, <1>6, <1>7 DEF Controller, adoptOrphanRevisions

\* TypeOK is an invariant of Upgrade.
THEOREM TypeCorrect == Spec => []TypeOK
<1>1. TypeOK /\ [Next]_vars => TypeOK'
  <2> SUFFICES ASSUME TypeOK, [Next]_vars PROVE TypeOK'
    OBVIOUS
  <2>1. CASE RefreshRevisions
    BY <2>1 DEF RefreshRevisions, TypeOK, cluster, upgrade
  <2>2. CASE Resync
    BY <2>2 DEF Resync, TypeOK, cluster, upgrade
  <2>3. CASE UNCHANGED vars
    BY <2>3 DEF vars, TypeOK, cluster, controller, upgrade
  <2> QED
    BY <2>1, <2>2, <2>3, TypeUpgrade, TypeCluster, TypeController DEF Next
<1> QED
  BY TypeInit, <1>1, PTL DEF Spec

-----------------------------------------------------------------------------
(* Safety. *)

\* A set that is being deleted owns no revision that the garbage collector will
\* not orphan before the set is gone, and a set that is gone owns none.
NothingLeftBehind ==
  fixed => \A x \in Revisions :
             revs[x].owner = "sts" => sts = "there" \/ (sts = "deleting" /\ x \in orphaning)

\* The entries that truncateHistory deletes were chosen by a cache that may be
\* old, and still none is a revision in use.
DeletesOnlyOld == w.pc \in {"pods", "truncate"} => \A e \in w.todo : e[1] = Old

\* The pod that the sync has counted as claimed is still the advanced set's.
ClaimHolds == w.pc = "pods" /\ w.claimed => pod = "asts"

\* The garbage collector takes no pod from the advanced set.
OrphansOnlyItsPod == Pod \in orphaning => pod = "sts"

Inv ==
  /\ TypeOK
  /\ NothingLeftBehind /\ RevisionsSurvive
  /\ DeletesOnlyOld
  /\ ClaimHolds /\ OrphansOnlyItsPod

\* Inv holds before the upgrade starts.
LEMMA InvInit == Init => Inv
<1> SUFFICES ASSUME Init PROVE Inv
  OBVIOUS
<1>1. TypeOK
  BY TypeInit
<1>2. NothingLeftBehind
  BY DEF Init, NothingLeftBehind
<1>3. RevisionsSurvive
  <2>1. PICK first \in {1, 2} :
          revs = [x \in Revisions |->
                    [rv |-> 0, selected |-> TRUE, marked |-> FALSE,
                     owner |-> IF x < first THEN "deleted" ELSE "sts"]]
    BY UpgradeAssumption DEF Init, Old, Cur
  <2>2. revs[Cur].owner = "sts" /\ revs[Upd].owner = "sts"
    BY <2>1 DEF Revisions, Old, Cur, Upd
  <2> QED
    BY <2>2 DEF RevisionsSurvive, Gone
<1>4. DeletesOnlyOld /\ ClaimHolds /\ OrphansOnlyItsPod
  BY DEF Init, Idle, DeletesOnlyOld, ClaimHolds, OrphansOnlyItsPod
<1> QED
  BY <1>1, <1>2, <1>3, <1>4 DEF Inv

\* A step that changes no owner, and neither the builtin set nor the pod, and
\* that leaves the sync where it is or ends it, keeps the invariant.
LEMMA InvFrame ==
  ASSUME Inv, TypeOK', UNCHANGED cluster, UNCHANGED pod,
         \A x \in Revisions : revs'[x].owner = revs[x].owner,
         w' = w \/ w'.pc \notin {"pods", "truncate"}
  PROVE  Inv'
<1>1. NothingLeftBehind'
  BY DEF Inv, NothingLeftBehind, cluster
<1>2. RevisionsSurvive'
  BY DEF Inv, RevisionsSurvive, Gone, cluster, Revisions
<1>3. DeletesOnlyOld' /\ ClaimHolds' /\ OrphansOnlyItsPod'
  BY DEF Inv, DeletesOnlyOld, ClaimHolds, OrphansOnlyItsPod, cluster
<1> QED
  BY <1>1, <1>2, <1>3 DEF Inv

\* The calls of Upgrade keep Inv: when it deletes the builtin set, all that the
\* set owns is put down to be orphaned.
LEMMA InvUpgrade ==
  ASSUME Inv, UpgradeStep \/ Crash
  PROVE  Inv'
<1>1. TypeOK /\ TypeOK'
  BY TypeUpgrade DEF Inv
<1>2. CASE UpgradeMarks
  <2>1. PICK S \in SUBSET Revisions : u \in MarkingType(S)
    BY <1>1, <1>2 DEF UpgradeMarks, TypeOK, UpgradeType
  <2>2. PICK x \in u.todo :
          \/ Becomes(x, [revs[x] EXCEPT !.selected = FALSE, !.marked = TRUE])
          \/ UNCHANGED revs
    BY <1>2 DEF UpgradeMarks
  <2>3. x \in Revisions /\ revs[x] \in RevType
    BY <1>1, <2>1, <2>2 DEF MarkingType, TypeOK
  <2>4. /\ [revs[x] EXCEPT !.selected = FALSE, !.marked = TRUE] \in RevType
        /\ [revs[x] EXCEPT !.selected = FALSE, !.marked = TRUE].owner = revs[x].owner
    BY <2>3, RevisionUpdates
  <2>5. \A y \in Revisions : revs'[y].owner = revs[y].owner
    BY <1>1, <2>2, <2>3, <2>4, BecomesWrites DEF TypeOK
  <2> QED
    BY <1>1, <1>2, <2>5, InvFrame DEF UpgradeMarks, controller
<1>3. CASE UpgradeDeletes
  <2>1. NothingLeftBehind'
    BY <1>3 DEF UpgradeDeletes, Inv, NothingLeftBehind, Owned
  <2>2. OrphansOnlyItsPod'
    BY <1>3 DEF UpgradeDeletes, Inv, OrphansOnlyItsPod, Owned, Revisions, Pod, Old, Cur, Upd
  <2>3. DeletesOnlyOld' /\ ClaimHolds' /\ RevisionsSurvive'
    BY <1>3 DEF UpgradeDeletes, Inv, DeletesOnlyOld, ClaimHolds, RevisionsSurvive,
                Gone, controller
  <2> QED
    BY <1>1, <2>1, <2>2, <2>3 DEF Inv
<1>4. CASE UpgradeLists \/ UpgradeGets \/ UpgradeCreates \/ UpgradeUpdates
           \/ UpgradeCopiesStatus \/ Crash
  <2>1. UNCHANGED <<cluster, pod, revs, w>>
    BY <1>4 DEF UpgradeLists, UpgradeGets, UpgradeCreates, UpgradeUpdates,
                UpgradeCopiesStatus, Crash, controller
  <2> QED
    BY <1>1, <2>1, InvFrame
<1> QED
  BY <1>2, <1>3, <1>4 DEF UpgradeStep

\* The builtin controller and the garbage collector keep Inv: with the fix, a set
\* being deleted adopts no revision, so none is left for collection.
LEMMA InvCluster ==
  ASSUME Inv, BuiltinAdopts \/ Orphan \/ FinalizeSts \/ CollectRevision
  PROVE  Inv'
<1>1. TypeOK /\ TypeOK' /\ \A x \in Revisions : revs[x] \in RevType
  BY TypeCluster DEF Inv, TypeOK
<1>2. CASE BuiltinAdopts
  <2>1. PICK x \in Revisions : Becomes(x, [revs[x] EXCEPT !.owner = "sts"])
    BY <1>2 DEF BuiltinAdopts
  <2>2. /\ [revs[x] EXCEPT !.owner = "sts"] \in RevType
        /\ [revs[x] EXCEPT !.owner = "sts"].owner = "sts"
    BY <1>1 DEF RevType
  <2>3. revs'[x].owner = "sts" /\ \A y \in Revisions \ {x} : revs'[y] = revs[y]
    BY <1>1, <2>1, <2>2, BecomesWrites DEF TypeOK
  <2>4. NothingLeftBehind'
    BY <1>2, <2>3 DEF BuiltinAdopts, Inv, NothingLeftBehind, cluster
  <2>5. RevisionsSurvive'
    BY <1>2, <2>3 DEF BuiltinAdopts, Inv, RevisionsSurvive, Gone, cluster, Revisions
  <2>6. DeletesOnlyOld' /\ ClaimHolds' /\ OrphansOnlyItsPod'
    BY <1>2 DEF BuiltinAdopts, Inv, DeletesOnlyOld, ClaimHolds, OrphansOnlyItsPod,
                cluster, controller
  <2> QED
    BY <1>1, <2>4, <2>5, <2>6 DEF Inv
<1>3. CASE Orphan
  <2>1. PICK x \in orphaning :
          /\ orphaning' = orphaning \ {x}
          /\ IF x = Pod
             THEN pod' = "none" /\ UNCHANGED revs
             ELSE /\ Becomes(x, [revs[x] EXCEPT !.owner = IF @ = "sts" THEN "none" ELSE @])
                  /\ UNCHANGED pod
    BY <1>3 DEF Orphan
  <2>2. UNCHANGED <<fixed, sts, w>>
    BY <1>3 DEF Orphan
  <2>3. CASE x = Pod
    <3>1. pod = "sts" /\ UNCHANGED revs
      BY <2>1, <2>3 DEF Inv, OrphansOnlyItsPod
    <3>2. NothingLeftBehind' /\ RevisionsSurvive'
      BY <2>1, <2>2, <2>3, <3>1
        DEF Inv, NothingLeftBehind, RevisionsSurvive, Gone, Revisions, Pod, Old, Cur, Upd
    <3>3. DeletesOnlyOld' /\ ClaimHolds' /\ OrphansOnlyItsPod'
      BY <2>1, <2>2, <2>3, <3>1 DEF Inv, DeletesOnlyOld, ClaimHolds, OrphansOnlyItsPod
    <3> QED
      BY <1>1, <3>2, <3>3 DEF Inv
  <2>4. CASE x # Pod
    <3> DEFINE o == IF revs[x].owner = "sts" THEN "none" ELSE revs[x].owner
    <3>1. x \in Revisions /\ revs[x] \in RevType
      BY <1>1, <2>1, <2>4 DEF TypeOK
    <3>2. o \in {"none", "sts", "asts", "deleted"} /\ o # "sts"
      BY <3>1 DEF RevType
    <3>3. /\ [revs[x] EXCEPT !.owner = o] \in RevType
          /\ [revs[x] EXCEPT !.owner = o].owner = o
      BY <3>1, <3>2 DEF RevType
    <3>4. revs'[x].owner = o /\ \A y \in Revisions \ {x} : revs'[y] = revs[y]
      BY <1>1, <2>1, <2>4, <3>1, <3>3, BecomesWrites DEF TypeOK
    <3>5. NothingLeftBehind'
      BY <2>1, <2>2, <3>1, <3>2, <3>4 DEF Inv, NothingLeftBehind
    <3>6. RevisionsSurvive'
      BY <2>2, <3>1, <3>4 DEF Inv, RevisionsSurvive, Gone, Revisions
    <3>7. DeletesOnlyOld' /\ ClaimHolds' /\ OrphansOnlyItsPod'
      BY <2>1, <2>2, <2>4 DEF Inv, DeletesOnlyOld, ClaimHolds, OrphansOnlyItsPod
    <3> QED
      BY <1>1, <3>5, <3>6, <3>7 DEF Inv
  <2> QED
    BY <2>3, <2>4
<1>4. CASE FinalizeSts
  <2>1. NothingLeftBehind' /\ RevisionsSurvive'
    BY <1>4 DEF FinalizeSts, Inv, NothingLeftBehind, RevisionsSurvive, Gone
  <2>2. DeletesOnlyOld' /\ ClaimHolds' /\ OrphansOnlyItsPod'
    BY <1>4 DEF FinalizeSts, Inv, DeletesOnlyOld, ClaimHolds, OrphansOnlyItsPod, controller
  <2> QED
    BY <1>1, <2>1, <2>2 DEF Inv
\* With the issue fixed there is nothing to collect.
<1>5. CASE CollectRevision
  <2>1. PICK x \in Revisions :
          revs[x].owner = "sts" /\ Becomes(x, [revs[x] EXCEPT !.owner = "deleted"])
    BY <1>5 DEF CollectRevision
  <2>2. ~ fixed
    BY <1>5, <2>1 DEF CollectRevision, Inv, NothingLeftBehind
  <2>3. NothingLeftBehind' /\ RevisionsSurvive'
    BY <1>5, <2>2 DEF CollectRevision, NothingLeftBehind, RevisionsSurvive, cluster
  <2>4. DeletesOnlyOld' /\ ClaimHolds' /\ OrphansOnlyItsPod'
    BY <1>5 DEF CollectRevision, Inv, DeletesOnlyOld, ClaimHolds, OrphansOnlyItsPod,
                cluster, controller
  <2> QED
    BY <1>1, <2>3, <2>4 DEF Inv
<1> QED
  BY <1>2, <1>3, <1>4, <1>5

\* The advanced controller deletes no revision that is in use, whether or not
\* the issue is fixed, and takes none from the builtin set.
LEMMA ControllerWrites ==
  ASSUME Inv, Controller
  PROVE  /\ \A x \in Revisions : revs'[x].owner = "sts" => revs[x].owner = "sts"
         /\ \A x \in {Cur, Upd} : revs'[x].owner = "deleted" => revs[x].owner = "deleted"
<1>1. TypeOK /\ \A x \in Revisions : revs[x] \in RevType
  BY DEF Inv, TypeOK
<1>2. {Cur, Upd} \subseteq Revisions /\ Old \notin {Cur, Upd}
  BY DEF Revisions, Old, Cur, Upd
<1>3. CASE syncLabels
  <2>1. PICK x \in w.todo :
          Becomes(x, [revs[x] EXCEPT !.selected = TRUE]) \/ UNCHANGED revs
    BY <1>3 DEF syncLabels
  <2>2. x \in Revisions
    BY <1>1, <1>3, <2>1 DEF syncLabels, TypeOK, WorkerType, LabellingType
  <2>3. /\ [revs[x] EXCEPT !.selected = TRUE] \in RevType
        /\ [revs[x] EXCEPT !.selected = TRUE].owner = revs[x].owner
    BY <1>1, <2>2 DEF RevType
  <2>4. \A y \in Revisions : revs'[y].owner = revs[y].owner
    BY <1>1, <2>1, <2>2, <2>3, BecomesWrites DEF TypeOK
  <2> QED
    BY <1>2, <2>4
<1>4. ASSUME NEW x \in Revisions, AdoptOrphanRevision(x)
      PROVE  /\ revs'[x].owner = "asts"
             /\ \A y \in Revisions \ {x} : revs'[y] = revs[y]
  <2>1. /\ [revs[x] EXCEPT !.owner = "asts"] \in RevType
        /\ [revs[x] EXCEPT !.owner = "asts"].owner = "asts"
    BY <1>1, <1>4 DEF RevType
  <2> QED
    BY <1>1, <1>4, <2>1, BecomesWrites DEF AdoptOrphanRevision, TypeOK
<1>5. CASE SyncGoesOn
  <2> DEFINE new == [revs[Upd] EXCEPT !.owner = "asts", !.selected = TRUE, !.marked = FALSE]
  <2>1. new \in RevType /\ new.owner = "asts" /\ Upd \in Revisions
    BY <1>1, <1>2 DEF RevType
  <2>2. Becomes(Upd, new) \/ UNCHANGED revs
    BY <1>5 DEF SyncGoesOn, getStatefulSetRevisions
  <2>3. \/ UNCHANGED revs
        \/ revs'[Upd].owner = "asts" /\ \A y \in Revisions \ {Upd} : revs'[y] = revs[y]
    <3> HIDE DEF new
    <3> QED
      BY <1>1, <2>1, <2>2, BecomesWrites DEF TypeOK
  <2> QED
    BY <1>2, <2>3
<1>6. CASE truncateHistory
  <2>1. CASE UNCHANGED revs
    BY <1>2, <2>1
  <2>2. CASE revs' # revs
    <3>1. PICK e \in w.todo : Becomes(e[1], [revs[e[1]] EXCEPT !.owner = "deleted"])
      BY <1>6, <2>2 DEF truncateHistory
    <3>2. e[1] = Old /\ Old \in Revisions
      BY <1>6, <3>1 DEF truncateHistory, Inv, DeletesOnlyOld, Revisions
    <3>3. /\ [revs[Old] EXCEPT !.owner = "deleted"] \in RevType
          /\ [revs[Old] EXCEPT !.owner = "deleted"].owner = "deleted"
      BY <1>1, <3>2 DEF RevType
    <3>4. revs'[Old].owner = "deleted" /\ \A y \in Revisions \ {Old} : revs'[y] = revs[y]
      BY <1>1, <3>1, <3>2, <3>3, BecomesWrites DEF TypeOK
    <3> QED
      BY <1>2, <3>4
  <2> QED
    BY <2>1, <2>2
<1>7. CASE UNCHANGED revs
  BY <1>2, <1>7
<1>8. UNCHANGED revs \/ syncLabels \/ SyncGoesOn \/ truncateHistory
        \/ \E x \in Revisions : AdoptOrphanRevision(x)
  BY DEF Controller, adoptOrphanRevisions, Sync, AdoptFails, updateStatefulSet
<1> QED
  BY <1>2, <1>3, <1>4, <1>5, <1>6, <1>7, <1>8

\* The advanced controller keeps Inv: it truncates none but old revisions.
LEMMA InvController ==
  ASSUME Inv, Controller
  PROVE  Inv'
<1>1. TypeOK /\ TypeOK' /\ UNCHANGED cluster
  BY TypeController DEF Inv, Controller, Sync, adoptOrphanRevisions, syncLabels,
     AdoptOrphanRevision, AdoptFails, SyncGoesOn, updateStatefulSet, truncateHistory
<1>2. NothingLeftBehind'
  BY <1>1, ControllerWrites DEF Inv, NothingLeftBehind, cluster
<1>3. RevisionsSurvive'
  BY <1>1, ControllerWrites DEF Inv, RevisionsSurvive, Gone, cluster
<1>4. OrphansOnlyItsPod'
  <2>1. pod' = pod \/ (pod = "none" /\ pod' = "asts")
    BY DEF Controller, Sync, adoptOrphanRevisions, syncLabels, AdoptOrphanRevision,
           AdoptFails, SyncGoesOn, ClaimPods, updateStatefulSet, truncateHistory
  <2> QED
    BY <1>1, <2>1 DEF Inv, OrphansOnlyItsPod, cluster
<1>5. DeletesOnlyOld' /\ ClaimHolds'
  <2>1. CASE Sync
    BY <2>1 DEF Sync, DeletesOnlyOld, ClaimHolds
  <2>2. CASE syncLabels
    <3>1. PICK S \in SUBSET Revisions : w \in LabellingType(S)
      BY <1>1, <2>2 DEF syncLabels, TypeOK, WorkerType
    <3> DEFINE labelled(x) == [w EXCEPT !.todo = @ \ {x}, !.read[x] = revs'[x]]
    <3>2. PICK x \in w.todo : w' = Idle \/ w' = labelled(x)
      BY <2>2 DEF syncLabels, Requeue
    <3>3. labelled(x).pc = "label"
      BY <3>1 DEF LabellingType
    <3>4. w'.pc \in {"label", "idle"}
      <4> HIDE DEF labelled
      <4> QED
        BY <3>2, <3>3 DEF Idle
    <3> QED
      BY <3>4 DEF DeletesOnlyOld, ClaimHolds
  <2>3. ASSUME NEW x \in Revisions, AdoptOrphanRevision(x)
        PROVE  DeletesOnlyOld' /\ ClaimHolds'
    <3>1. PICK S \in SUBSET Revisions : w \in LabellingType(S)
      BY <1>1, <2>3 DEF AdoptOrphanRevision, TypeOK, WorkerType
    <3>2. w'.pc = "label"
      BY <2>3, <3>1 DEF AdoptOrphanRevision, Adopted, LabellingType
    <3> QED
      BY <3>2 DEF DeletesOnlyOld, ClaimHolds
  <2>4. ASSUME NEW x \in Revisions, AdoptFails(x)
        PROVE  DeletesOnlyOld' /\ ClaimHolds'
    BY <2>4 DEF AdoptFails, Requeue, Idle, DeletesOnlyOld, ClaimHolds
  <2>5. CASE SyncGoesOn
    <3>1. DeletesOnlyOld'
      BY <1>1, <2>5, ListingTypes DEF SyncGoesOn, getStatefulSetRevisions, DeletesOnlyOld
    <3>2. ClaimHolds'
      BY <2>5 DEF SyncGoesOn, getStatefulSetRevisions, ClaimHolds
    <3> QED
      BY <3>1, <3>2
  <2>6. CASE updateStatefulSet
    BY <2>6 DEF updateStatefulSet, WriteStatus, Requeue, Idle, Inv, DeletesOnlyOld, ClaimHolds
  <2>7. CASE truncateHistory
    <3>1. w \in [pc : {"truncate"}, todo : SUBSET Entries]
      BY <1>1, <2>7 DEF truncateHistory, TypeOK, WorkerType, LabellingType
    <3>2. w' = Idle \/ \E e \in w.todo : w' = [w EXCEPT !.todo = @ \ {e}]
      BY <2>7 DEF truncateHistory, Requeue
    <3>3. \A e \in w.todo : e[1] = Old
      BY <3>1 DEF Inv, DeletesOnlyOld
    <3>4. ClaimHolds'
      BY <3>1, <3>2 DEF ClaimHolds, Idle
    <3>5. DeletesOnlyOld'
      BY <3>1, <3>2, <3>3 DEF DeletesOnlyOld, Idle
    <3> QED
      BY <3>4, <3>5
  <2> QED
    BY <2>1, <2>2, <2>3, <2>4, <2>5, <2>6, <2>7 DEF Controller, adoptOrphanRevisions
<1> QED
  BY <1>1, <1>2, <1>3, <1>4, <1>5 DEF Inv

\* Inv is inductive.
LEMMA InvInductive == Spec => []Inv
<1>1. Inv /\ [Next]_vars => Inv'
  <2> SUFFICES ASSUME Inv, [Next]_vars PROVE Inv'
    OBVIOUS
  <2>1. CASE RefreshRevisions \/ Resync \/ UNCHANGED vars
    <3>1. TypeOK'
      BY <2>1 DEF RefreshRevisions, Resync, vars, Inv, TypeOK, cluster, controller, upgrade
    <3>2. UNCHANGED <<cluster, pod, revs, w>>
      BY <2>1 DEF RefreshRevisions, Resync, vars, controller
    <3> QED
      BY <3>1, <3>2, InvFrame
  <2> QED
    BY <2>1, InvUpgrade, InvCluster, InvController DEF Next
<1> QED
  BY InvInit, <1>1, PTL DEF Spec

\* With issue 84982 fixed, no upgrade loses the revision of the template or
\* that of the pods, whatever the history limit and however often it crashes
\* and starts again (Upgrade, adoptOrphanRevisions and truncateHistory).
THEOREM RevisionsOutliveUpgrade == Spec => []RevisionsSurvive
<1>1. Inv => RevisionsSurvive
  BY DEF Inv
<1> QED
  BY InvInductive, <1>1, PTL

\* Fixed or not, it is never the advanced controller that deletes one of them:
\* truncateHistory chooses by a cache that may be old, and spares both.
THEOREM ControllerSparesRevisionsInUse ==
  Spec => [][Controller => \A x \in {Cur, Upd} : Gone(x)' => Gone(x)]_vars
<1>1. Inv /\ [Next]_vars => [Controller => \A x \in {Cur, Upd} : Gone(x)' => Gone(x)]_vars
  BY ControllerWrites DEF Gone
<1> QED
  BY InvInductive, <1>1, PTL DEF Spec

\* The sync of the advanced controller writes the status only once it owns the
\* pod: the claim it made earlier in the sync still holds when it writes.
THEOREM StatusWrittenAfterClaim == Spec => StatusAfterClaim
<1>1. Inv /\ [Next]_vars => [updateStatefulSet /\ asts' # asts => pod = "asts"]_vars
  BY DEF Inv, ClaimHolds, updateStatefulSet
<1> QED
  BY InvInductive, <1>1, PTL DEF Spec, StatusAfterClaim

=============================================================================
