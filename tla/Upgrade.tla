------------------------------ MODULE Upgrade ------------------------------
(***************************************************************************)
(* The move of a builtin StatefulSet to an advanced one (upgrade.go), call *)
(* by call, with everyone who reacts to it: the builtin controller, the    *)
(* garbage collector that orphans what the deleted set owned, and the      *)
(* advanced controller, which adopts it (adoptOrphanRevisions and          *)
(* syncLabels in stateful_set.go, ListRevisions, getStatefulSetRevisions   *)
(* and truncateHistory in stateful_set_control.go).                        *)
(*                                                                         *)
(* A rollout is held at its partition: the pod, which stands for all pods, *)
(* is at the revision Cur, the template is at Upd, and there may be one    *)
(* revision Old of before. The revisions are seen through a cache that     *)
(* lags, and no event handler watches them; that the set and the pod too   *)
(* may be seen late is in StatefulSetController.                           *)
(***************************************************************************)
EXTENDS Naturals, FiniteSets

CONSTANTS Fixes,          \* whether Kubernetes may have issue 84982 fixed
          Oldest,         \* the revision the history may begin with, Old or Cur
          HistoryLimit,   \* spec.revisionHistoryLimit
          MaxCrashes      \* bound on how often the upgrading program crashes

Old == 1
Cur == 2
Upd == 3   \* these are their Revision numbers
Revisions == {Old, Cur, Upd}
None == 0
Pod == 4   \* among what the set owns

ASSUME UpgradeAssumption ==
  /\ Fixes \subseteq BOOLEAN /\ Oldest \subseteq {Old, Cur}
  /\ HistoryLimit \in Nat /\ MaxCrashes \in Nat

VARIABLES fixed,      \* issue 84982: a set being deleted adopts no revisions
          sts,        \* the builtin set: "there", "deleting" or "gone"
          orphaning,  \* what the garbage collector has yet to orphan for it
          asts,       \* the advanced set
          pod,        \* the owner of the pod
          revs,       \* the revisions
          revCache,   \* the advanced controller's copy of them
          u,          \* the program that runs Upgrade
          queued,     \* the key of the advanced set is in the work queue
          w,          \* the sync of the advanced controller, or Idle
          crashes

cluster == <<fixed, sts, orphaning>>
upgrade == <<u, crashes>>
controller == <<revCache, queued, w>>
vars == <<cluster, asts, pod, revs, controller, upgrade>>

\* A revision that is gone keeps its last version. selected: it has the labels
\* of the selector; marked: it has the label of Upgrade.
Gone(x) == revs[x].owner = "deleted"

\* A write that changes nothing makes no new version.
Becomes(x, new) ==
  revs' = IF new = revs[x] THEN revs ELSE [revs EXCEPT ![x] = [new EXCEPT !.rv = @ + 1]]

Start == [pc |-> "start"]
Idle == [pc |-> "idle"]

\* Both revisions in use are there, and perhaps the one of before. The program
\* may have used up some of its crashes before it did anything.
Init ==
  /\ fixed \in Fixes
  /\ sts = "there"
  /\ orphaning = {}
  /\ asts = [exists |-> FALSE, current |-> None]
  /\ pod = "sts"
  /\ crashes \in 0 .. MaxCrashes
  /\ \E first \in Oldest :
       revs = [x \in Revisions |->
                 [rv |-> 0, selected |-> TRUE, marked |-> FALSE,
                  owner |-> IF x < first THEN "deleted" ELSE "sts"]]
  /\ revCache = revs
  /\ u = Start
  /\ queued = FALSE /\ w = Idle

-----------------------------------------------------------------------------
(* Upgrade. After an error or a crash the caller reads the builtin set and  *)
(* starts again, "until the builtin StatefulSet is deleted succesfully".    *)

\* The revisions that have the labels of the selector, read from the server.
ListRevisionsToMark == {x \in Revisions : ~ Gone(x) /\ revs[x].selected}

UpgradeLists ==
  /\ u = Start
  /\ sts # "gone"
  /\ u' = [pc |-> "mark", todo |-> ListRevisionsToMark,
            read |-> [x \in ListRevisionsToMark |-> revs[x]]]
  /\ UNCHANGED <<cluster, asts, pod, revs, controller, crashes>>

\* In the order of the list, the selector's labels go and the mark comes. The
\* update is of what was listed, so a revision that has changed since, or is
\* gone, is an error. Only the keys of matchLabels are removed: the selector
\* is taken to have matchLabels and no matchExpressions, so that the revision
\* is not selected any more.
UpgradeMarks ==
  /\ u.pc = "mark"
  /\ \E x \in u.todo :
       /\ \A y \in u.todo : x <= y
       /\ IF revs[x] = u.read[x]
          THEN /\ Becomes(x, [revs[x] EXCEPT !.selected = FALSE, !.marked = TRUE])
               /\ u' = [u EXCEPT !.todo = @ \ {x}]
          ELSE u' = Start /\ UNCHANGED revs
  /\ UNCHANGED <<cluster, asts, pod, controller, crashes>>

UpgradeGets ==
  /\ u.pc = "mark" /\ u.todo = {}
  /\ u' = [pc |-> IF asts.exists THEN "update" ELSE "create", asts |-> asts]
  /\ UNCHANGED <<cluster, asts, pod, revs, controller, crashes>>

UpgradeCreates ==
  /\ u.pc = "create"
  /\ asts' = [exists |-> TRUE, current |-> None]
  /\ u' = [u EXCEPT !.pc = "status", !.asts = asts']
  /\ queued' = TRUE
  /\ UNCHANGED <<cluster, pod, revs, revCache, w, crashes>>

\* The spec is written again; it is the same as long as nobody edits the sets.
UpgradeUpdates ==
  /\ u.pc = "update"
  /\ u' = IF asts = u.asts THEN [u EXCEPT !.pc = "status"] ELSE Start
  /\ UNCHANGED <<cluster, asts, pod, revs, controller, crashes>>

UpgradeCopiesStatus ==
  /\ u.pc = "status"
  /\ IF asts = u.asts
     THEN /\ asts' = [asts EXCEPT !.current = Cur]
          /\ u' = [pc |-> "delete"]
          /\ queued' = TRUE
     ELSE u' = Start /\ UNCHANGED <<asts, queued>>
  /\ UNCHANGED <<cluster, pod, revs, revCache, w, crashes>>

Owned == {x \in Revisions : revs[x].owner = "sts"}
           \union (IF pod = "sts" THEN {Pod} ELSE {})

\* With the policy to orphan, the garbage collector orphans what it finds. A
\* set that is being deleted or is gone is not an error.
UpgradeDeletes ==
  /\ u.pc = "delete"
  /\ IF sts = "there"
     THEN sts' = "deleting" /\ orphaning' = Owned
     ELSE UNCHANGED <<sts, orphaning>>
  /\ u' = [pc |-> "done"]
  /\ UNCHANGED <<fixed, asts, pod, revs, controller, crashes>>

\* The caller may crash and start again before it has seen the set gone.
Crash ==
  /\ crashes < MaxCrashes
  /\ u # Start /\ sts # "gone"
  /\ crashes' = crashes + 1
  /\ u' = Start
  /\ UNCHANGED <<cluster, asts, pod, revs, controller>>

-----------------------------------------------------------------------------
(* The cluster: the builtin controller, from the code it shares with this   *)
(* one, and the garbage collector.                                          *)

\* A sync of the builtin set adopts orphans with the labels of the selector.
BuiltinAdopts ==
  /\ sts = "there" \/ (sts = "deleting" /\ ~ fixed)
  /\ \E x \in Revisions :
       /\ revs[x].owner = "none" /\ revs[x].selected
       /\ Becomes(x, [revs[x] EXCEPT !.owner = "sts"])
  /\ UNCHANGED <<cluster, asts, pod, controller, upgrade>>

\* updatePod tells the set that selects an orphan.
Orphan ==
  /\ \E x \in orphaning :
       /\ orphaning' = orphaning \ {x}
       /\ IF x = Pod
          THEN pod' = "none" /\ queued' = asts.exists /\ UNCHANGED revs
          ELSE /\ Becomes(x, [revs[x] EXCEPT !.owner = IF @ = "sts" THEN "none" ELSE @])
               /\ UNCHANGED <<pod, queued>>
  /\ UNCHANGED <<fixed, sts, asts, revCache, w, upgrade>>

FinalizeSts ==
  /\ sts = "deleting" /\ orphaning = {}
  /\ sts' = "gone"
  /\ UNCHANGED <<fixed, orphaning, asts, pod, revs, controller, upgrade>>

CollectRevision ==
  /\ sts = "gone"
  /\ \E x \in Revisions :
       /\ revs[x].owner = "sts"
       /\ Becomes(x, [revs[x] EXCEPT !.owner = "deleted"])
  /\ UNCHANGED <<cluster, asts, pod, controller, upgrade>>

-----------------------------------------------------------------------------
(* The advanced controller. *)

\* ListRevisions: those with the labels of the selector, then those with the
\* mark. A revision with both is listed twice. Within a part the order is that
\* of a Go map.
Listed(x) == revCache[x].owner \in {"none", "asts"}
BySelector == {x \in Revisions : Listed(x) /\ revCache[x].selected}
OnlyBySelector == {}   \* mutant: the revisions with the mark are not listed
ByMark == {x \in Revisions : Listed(x) /\ revCache[x].marked}
ListRevisions == BySelector \union ByMark
Listing == [x \in ListRevisions |-> revCache[x]]

Requeue == w' = Idle /\ queued' = TRUE

hasOrphans == \E x \in ListRevisions : revCache[x].owner = "none"

\* A sync begins with adoptOrphanRevisions, which works on the listed objects.
Sync ==
  /\ queued /\ w = Idle
  /\ queued' = FALSE
  /\ w' = IF hasOrphans
          THEN [pc |-> "label", current |-> asts.current, todo |-> ByMark,
                one |-> BySelector, two |-> ByMark, read |-> Listing]
          ELSE [pc |-> "claim", current |-> asts.current]
  /\ UNCHANGED <<cluster, asts, pod, revs, revCache, upgrade>>

\* The labels are put into the object of the cache, whether or not the update
\* that follows succeeds.
syncLabels ==
  /\ w.pc = "label"
  /\ \E x \in w.todo :
       /\ revCache' = IF revCache[x].rv = w.read[x].rv
                      THEN [revCache EXCEPT ![x].selected = TRUE] ELSE revCache
       /\ IF revs[x].rv = w.read[x].rv
          THEN /\ Becomes(x, [revs[x] EXCEPT !.selected = TRUE])
               /\ w' = [w EXCEPT !.todo = @ \ {x}, !.read[x] = revs'[x]]
               /\ UNCHANGED queued
          ELSE Requeue /\ UNCHANGED revs
  /\ UNCHANGED <<cluster, asts, pod, upgrade>>

\* The next of the list, which has two parts.
NextListed == IF w.one # {} THEN w.one ELSE w.two

Adopted(x) == IF w.one # {} THEN [w EXCEPT !.one = @ \ {x}] ELSE [w EXCEPT !.two = @ \ {x}]

\* AdoptControllerRevision: the server refuses a second controller.
AdoptOrphanRevision(x) ==
  /\ w.pc = "label" /\ w.todo = {}
  /\ x \in NextListed
  /\ w.read[x].owner = "none"
  /\ revs[x].owner \in {"none", "asts"}
  /\ Becomes(x, [revs[x] EXCEPT !.owner = "asts"])
  /\ w' = Adopted(x)
  /\ UNCHANGED <<cluster, asts, pod, revCache, queued, upgrade>>

\* One that is owned already ends the sync too, although it was not an orphan.
AdoptFails(x) ==
  /\ w.pc = "label" /\ w.todo = {}
  /\ x \in NextListed
  /\ w.read[x].owner # "none" \/ revs[x].owner \notin {"none", "asts"}
  /\ Requeue
  /\ UNCHANGED <<cluster, asts, pod, revs, revCache, upgrade>>

adoptOrphanRevisions ==
  \/ syncLabels
  \/ \E x \in Revisions : AdoptOrphanRevision(x) \/ AdoptFails(x)

\* getPodsForStatefulSet
ClaimPods ==
  /\ pod' = IF pod = "none" THEN "asts" ELSE pod
  /\ queued' = (queued \/ pod' # pod)

CurrentRevision == IF w.current \in ListRevisions THEN w.current ELSE Upd

\* Mutant: the revisions of the pods are not live.
LiveByStatus == {CurrentRevision, Upd}

\* current, update and the revision of the pod
Live == {CurrentRevision, Upd, Cur}

\* The entries of the list that are not live, in the order of their numbers,
\* but for the last HistoryLimit of them.
History == {<<x, 1>> : x \in BySelector \ Live} \union {<<x, 2>> : x \in ByMark \ Live}
Before(e, f) == e[1] < f[1] \/ (e[1] = f[1] /\ e[2] < f[2])
Truncated ==
  {e \in History : Cardinality({f \in History : Before(e, f)}) >= HistoryLimit}

\* The cached revisions are listed again. If the update revision is not among
\* them it is created, unless it exists; if the current one is not, it is the
\* update revision.
getStatefulSetRevisions ==
  /\ IF Upd \notin ListRevisions /\ Gone(Upd)
     THEN Becomes(Upd, [revs[Upd] EXCEPT !.owner = "asts", !.selected = TRUE, !.marked = FALSE])
     ELSE UNCHANGED revs
  /\ w' = [pc |-> "pods", claimed |-> pod' = "asts", current |-> CurrentRevision,
            todo |-> Truncated]

\* From the end of adoptOrphanRevisions to the pods.
SyncGoesOn ==
  /\ \/ w.pc = "claim"
     \/ w.pc = "label" /\ w.todo = {} /\ NextListed = {}
  /\ ClaimPods /\ getStatefulSetRevisions
  /\ UNCHANGED <<cluster, asts, revCache, upgrade>>

WriteStatus ==
  /\ asts' = [asts EXCEPT !.current = w.current]
  /\ queued' = (queued \/ asts' # asts)
  /\ w' = [pc |-> "truncate", todo |-> w.todo]

\* Mutant: a pod that is there already is as good as created.
UpdateTolerant ==
  /\ w.pc = "pods"
  /\ WriteStatus
  /\ UNCHANGED <<cluster, pod, revs, revCache, upgrade>>

\* A pod that is not claimed is missing, and cannot be created, since the name
\* is taken. The status update is retried on conflicts.
updateStatefulSet ==
  /\ w.pc = "pods"
  /\ IF w.claimed THEN WriteStatus ELSE Requeue /\ UNCHANGED asts
  /\ UNCHANGED <<cluster, pod, revs, revCache, upgrade>>

\* A revision that is gone already, as it is for the second of its two entries,
\* fails the sync.
truncateHistory ==
  /\ w.pc = "truncate"
  /\ IF w.todo = {} THEN w' = Idle /\ UNCHANGED <<revs, queued>>
     ELSE \E e \in w.todo :
            /\ \A f \in w.todo : ~ Before(f, e)
            /\ IF Gone(e[1]) THEN Requeue /\ UNCHANGED revs
               ELSE /\ Becomes(e[1], [revs[e[1]] EXCEPT !.owner = "deleted"])
                    /\ w' = [w EXCEPT !.todo = @ \ {e}]
                    /\ UNCHANGED queued
  /\ UNCHANGED <<cluster, asts, pod, revCache, upgrade>>

\* One stream brings the events of all revisions: the cache is as they all were.
RefreshRevisions ==
  /\ revCache # revs
  /\ revCache' = revs
  /\ UNCHANGED <<cluster, asts, pod, revs, queued, w, upgrade>>

\* Every 12 hours the informer repeats the set to its handler. By then the
\* controller is at rest.
Resync ==
  /\ asts.exists /\ ~ queued /\ w = Idle
  /\ queued' = TRUE
  /\ UNCHANGED <<cluster, asts, pod, revs, revCache, w, upgrade>>

-----------------------------------------------------------------------------
UpgradeStep ==
  \/ UpgradeLists \/ UpgradeMarks \/ UpgradeGets \/ UpgradeCreates
  \/ UpgradeUpdates \/ UpgradeCopiesStatus \/ UpgradeDeletes

Controller ==
  \/ Sync \/ adoptOrphanRevisions \/ SyncGoesOn
  \/ updateStatefulSet \/ truncateHistory

Next ==
  \/ UpgradeStep \/ Crash
  \/ BuiltinAdopts
  \/ Orphan \/ FinalizeSts \/ CollectRevision
  \/ Controller \/ RefreshRevisions \/ Resync

Spec == Init /\ [][Next]_vars

\* The caller retries, and the cluster and the controller go on. The strong
\* fairness is that of the random order in which a Go map is listed: an orphan
\* is not behind an owned revision forever.
Fairness ==
  /\ WF_vars(UpgradeStep)
  /\ WF_vars(Orphan) /\ WF_vars(FinalizeSts) /\ WF_vars(CollectRevision)
  /\ WF_vars(Controller) /\ WF_vars(RefreshRevisions) /\ WF_vars(Resync)
  /\ \A x \in Revisions : SF_vars(AdoptOrphanRevision(x))

FairSpec == Spec /\ Fairness
-----------------------------------------------------------------------------
(* Properties. *)

\* The revisions in use outlive the upgrade, whatever crashes and retries of
\* the upgrade, late caches and failed adoptions do to it: the one of the
\* template and the one of the pod, which the advanced controller may by then
\* have lost as its current revision. This needs the fix of issue 84982.
RevisionsSurvive == fixed => ~ Gone(Cur) /\ ~ Gone(Upd)

\* "It's important to empty statefulset selector labels, otherwise sts will
\* adopt it again on delete event and then GC will delete revisions" (Upgrade).
\* But syncLabels puts the labels back before the revision is adopted, while
\* the builtin set may still be there.
LabelsProtect == ~ Gone(Cur) /\ ~ Gone(Upd)

\* The advanced controller writes no status, and so neither the current
\* revision that Upgrade copied is lost nor a copy refused, before the pod is
\* its own.
StatusAfterClaim == [][updateStatefulSet /\ asts' # asts => pod = "asts"]_vars

\* In the end the builtin set is gone and the advanced one owns the pod and
\* every revision that is left.
HandedOver == <>[](/\ sts = "gone" /\ pod = "asts"
                   /\ \A x \in Revisions : revs[x].owner \in {"asts", "deleted"})
=============================================================================
