------------------------- MODULE StatefulSetControl -------------------------
(***************************************************************************)
(* One StatefulSet and the controller that reconciles it                   *)
(* (pkg/controller/statefulset). The API server holds the truth: the set,  *)
(* its pods, claims and revisions. The controller reads informer caches    *)
(* that lag behind, plans from one snapshot of them, and calls the API     *)
(* server step by step while the truth and the caches move on.             *)
(*                                                                         *)
(* The caches are four independent watch streams. A refresh takes the      *)
(* whole current state of one stream: a watch delivers a prefix of the     *)
(* stream's history, and skipping the states in between loses nothing,     *)
(* because a sync reads each cache once. The work queue holds one key, so  *)
(* it is a flag, and the queue never runs two syncs of a key at once.      *)
(* A revision is named after the template it records.                      *)
(***************************************************************************)
EXTENDS DeleteSlots

CONSTANTS MaxOrdinal,     \* bound on the ordinals
          Templates,      \* pod templates, and the names of their revisions
          NoRevision,     \* the empty revision name
          Claims,         \* spec.volumeClaimTemplates
          InitialSpecs,   \* the specs a set may be created with
          Specs,          \* the specs a user may change it to
          Lagging,        \* the caches that may be stale when a sync starts
          MaxEdits,       \* bound on the user's changes
          Faults,         \* the kinds of faults considered
          MaxFaults       \* bound on the faults

Ordinals == 0 .. MaxOrdinal

Nil == -1   \* spec.updateStrategy.rollingUpdate is not set

SpecType ==
  [replicas : Nat,
   ann : [kind : {"absent", "malformed", "list"}, slots : SUBSET Nat],
   template : Templates,
   policy : {"OrderedReady", "Parallel"},
   strategy : {"RollingUpdate", "OnDelete"},
   partition : Nat \union {Nil},
   historyLimit : Nat]

FaultKinds == {"error", "fail", "unready", "drain", "relabel", "dropClaim", "deleteSet"}

ASSUME ControlAssumption ==
  /\ MaxOrdinal \in Nat
  /\ NoRevision \notin Templates
  /\ IsFiniteSet(Templates)
  /\ InitialSpecs \subseteq Specs
  /\ Specs \subseteq SpecType
  /\ Lagging \subseteq {"set", "pods", "claims", "revisions"}
  /\ MaxEdits \in Nat
  /\ Faults \subseteq FaultKinds
  /\ MaxFaults \in Nat

\* The pods a spec asks for fit the bound.
ASSUME SpecsFit ==
  \A s \in Specs : GetPodOrdinals(s.replicas, s.ann) \subseteq Ordinals

VARIABLES set,          \* the StatefulSet object
          pods,         \* the pod of each ordinal
          claims,       \* the PersistentVolumeClaims that exist
          revs,         \* Revision number of each ControllerRevision, 0 if none
          setCache, podCache, claimCache, revCache,   \* the informers' copies
          events,       \* the streams, "set" or "pods", with undelivered events
          queued,       \* the set's key is in the work queue
          w,            \* the sync in progress, or Idle
          edits, faults \* how many there have been

api == <<set, pods, claims, revs, events>>
caches == <<setCache, podCache, claimCache, revCache>>
budget == <<edits, faults>>
vars == <<set, pods, claims, revs, setCache, podCache, claimCache, revCache,
          events, queued, w, edits, faults>>

-----------------------------------------------------------------------------
(* Pods. A pod built in memory has phase "New" until the API server has it. *)

NoPod == [phase |-> "Absent", terminating |-> FALSE, rev |-> NoRevision,
          labelled |-> FALSE]

PodType == {NoPod} \union
  [phase : {"New", "Pending", "Ready", "Failed"}, terminating : BOOLEAN,
   rev : Templates, labelled : BOOLEAN]

\* What the API server and the caches may hold.
ApiPodType == {p \in PodType : p.phase # "New"}

exists(p) == p.phase # "Absent"
isRunningAndReady(p) == p.phase = "Ready"
isCreated(p) == p.phase \notin {"Absent", "New"}
isFailed(p) == p.phase = "Failed"
isTerminating(p) == p.terminating
\* Mutant: a pod that is being terminated counts as healthy.
isHealthyReadyOnly(p) == isRunningAndReady(p)

isHealthy(p) == isRunningAndReady(p) /\ ~ isTerminating(p)
identityMatches(p) == p.labelled

(* The API server tells the watches of every change of the set or a pod.  *)
SetBecomes(s) ==
  /\ set' = s
  /\ events' = IF s = set THEN events ELSE events \union {"set"}

PodBecomes(o, p) ==
  /\ pods' = [pods EXCEPT ![o] = p]
  /\ events' = IF p = pods[o] THEN events ELSE events \union {"pods"}

(* API server: a failed pod is removed at once, any other terminates. *)
ApiDelete(p) == IF isFailed(p) THEN NoPod ELSE [p EXCEPT !.terminating = TRUE]

-----------------------------------------------------------------------------
(* The set. *)

NoStatus == [observedGeneration |-> 0, replicas |-> 0, readyReplicas |-> 0,
             currentReplicas |-> 0, updatedReplicas |-> 0,
             currentRevision |-> NoRevision, updateRevision |-> NoRevision]

StatusType ==
  [observedGeneration : Nat, replicas : Int, readyReplicas : Int,
   currentReplicas : Int, updatedReplicas : Int,
   currentRevision : Templates \union {NoRevision},
   updateRevision : Templates \union {NoRevision}]

SetType == [spec : Specs, generation : Nat, deleting : BOOLEAN,
            status : StatusType]

monotonic(s) == s.spec.policy # "Parallel"

\* The ordinals the set wants a pod at.
Desired(s) ==
  LET max == GetMaxReplicaCountAndDeleteSlots(s.spec.replicas,
                                              GetDeleteSlots(s.spec.ann))
  IN  {o \in Ordinals : o < max.replicaCount /\ o \notin max.deleteSlots}

\* Mutant: the last ordinal below the partition is taken for one above it.
FromCurrentRevisionOffByOne(s, o) ==
  \/ /\ s.spec.strategy = "RollingUpdate"
     /\ s.spec.partition = Nil
     /\ o < s.status.currentReplicas
  \/ /\ s.spec.partition # Nil
     /\ o < s.spec.partition - 1

\* The pod is to be built from the current revision: `A && B || C` binds as
\* (A && B) || C, so a partition also counts under OnDelete.
FromCurrentRevision(s, o) ==
  \/ /\ s.spec.strategy = "RollingUpdate"
     /\ s.spec.partition = Nil
     /\ o < s.status.currentReplicas
  \/ /\ s.spec.partition # Nil
     /\ o < s.spec.partition

newVersionedStatefulSetPod(s, cur, o) ==
  [phase |-> "New", terminating |-> FALSE, labelled |-> TRUE,
   rev |-> IF FromCurrentRevision(s, o) THEN cur ELSE s.spec.template]

\* Mutant: any update is complete once all pods are ready.
completeWhenReady(s, st) ==
  IF /\ s.spec.strategy = "RollingUpdate"
     /\ st.readyReplicas = st.replicas
  THEN [st EXCEPT !.currentReplicas = st.updatedReplicas,
                  !.currentRevision = st.updateRevision]
  ELSE st

completeRollingUpdate(s, st) ==
  IF /\ s.spec.strategy = "RollingUpdate"
     /\ st.updatedReplicas = st.replicas
     /\ st.readyReplicas = st.replicas
  THEN [st EXCEPT !.currentReplicas = st.updatedReplicas,
                  !.currentRevision = st.updateRevision]
  ELSE st

\* Mutant: a change of readyReplicas alone is not written.
inconsistentButForReady(s, st) ==
  \/ st.observedGeneration > s.status.observedGeneration
  \/ [st EXCEPT !.observedGeneration = 0, !.readyReplicas = 0]
       # [s.status EXCEPT !.observedGeneration = 0, !.readyReplicas = 0]

inconsistentStatus(s, st) ==
  \/ st.observedGeneration > s.status.observedGeneration
  \/ [st EXCEPT !.observedGeneration = 0]
       # [s.status EXCEPT !.observedGeneration = 0]

-----------------------------------------------------------------------------
(* A sync in progress. view, pods and revs are what it read from the       *)
(* caches; the rest are its local variables.                               *)

Idle == [pc |-> "idle"]

FrameType ==
  [pc : {"revisions", "pass", "create", "status", "truncate"},
   view : SetType,
   pods : [Ordinals -> PodType],
   revs : [Templates -> Nat],
   cur : Templates,                       \* currentRevision
   replicas : [Ordinals -> PodType],      \* NoPod for a nil entry
   condemned : SUBSET Ordinals,           \* the condemned left to examine
   next : Nat,                            \* the replicas left to examine
   done : BOOLEAN,                        \* updateStatefulSet has returned
   status : StatusType]

upd(f) == f.view.spec.template   \* updateRevision

\* sort.Sort, then the last one first.
Greatest(S) == {o \in S : \A p \in S : p <= o}
Least(S) == {o \in S : \A p \in S : o <= p}

ListedRevisions(f) == {t \in Templates : f.revs[t] > 0}
Condemned(f) == {o \in Ordinals : exists(f.pods[o])} \ Desired(f.view)

\* The first pod, replica or condemned, that is not healthy. An empty replica
\* slot was filled with a new pod, which is not healthy.
firstUnhealthy(f) ==
  Least({o \in Desired(f.view) \union Condemned(f) : ~ isHealthy(f.pods[o])})

\* The counters start from the pods that were listed.
CountStatus(f, cur) ==
  LET listed == {o \in Ordinals : exists(f.pods[o])}
      live(r) == {o \in listed : ~ isTerminating(f.pods[o]) /\ f.pods[o].rev = r}
  IN  [observedGeneration |-> f.view.generation,
       replicas |-> Cardinality(listed),
       readyReplicas |-> Cardinality({o \in listed : isRunningAndReady(f.pods[o])}),
       currentReplicas |-> Cardinality(live(cur)),
       updatedReplicas |-> Cardinality(live(upd(f))),
       currentRevision |-> cur,
       updateRevision |-> upd(f)]

\* The pod counters after a pod of revision r came (d = 1) or went (d = -1).
Adjust(f, r, d) ==
  [f.status EXCEPT
     !.currentReplicas = @ + (IF r = f.cur THEN d ELSE 0),
     !.updatedReplicas = @ + (IF r = upd(f) THEN d ELSE 0)]

\* Mutant: there is no default for a set without a status.
currentRevisionNoDefault(f) == f.view.status.currentRevision

\* The revision the status names, if it is listed, or else the update one.
currentRevision(f) ==
  IF f.view.status.currentRevision \in ListedRevisions(f)
  THEN f.view.status.currentRevision ELSE upd(f)

\* What updateStatefulSet does before its first call: the revisions are
\* known, the pods are split into replicas and condemned, the counters set
\* and the empty slots filled.
StartPass(f) ==
  LET cur == currentRevision(f)
  IN  [f EXCEPT
         !.pc = "pass",
         !.cur = cur,
         !.status = CountStatus(f, cur),
         !.replicas = [o \in Ordinals |->
            IF o \notin Desired(f.view) THEN NoPod
            ELSE IF exists(f.pods[o]) THEN f.pods[o]
            ELSE newVersionedStatefulSetPod(f.view, cur, o)],
         !.condemned = IF monotonic(f.view) THEN Condemned(f)
                       ELSE {o \in Condemned(f) : ~ isTerminating(f.pods[o])}]

-----------------------------------------------------------------------------
(* Where the pass stands. *)

\* Mutant: nothing waits for a predecessor.
SettledWithoutWaiting(f, o) ==
  LET p == f.replicas[o]
  IN  p = NoPod \/ (isCreated(p) /\ ~ isFailed(p) /\ identityMatches(p))

\* The loop over replicas goes past this one without a call or a return.
Settled(f, o) ==
  LET p == f.replicas[o]
  IN  \/ p = NoPod
      \/ /\ isCreated(p) /\ ~ isFailed(p)
         /\ monotonic(f.view) => isHealthy(p)
         /\ identityMatches(p)

\* The replica the loop stops at, as a set of at most one.
AtReplica(f) == Least({o \in Ordinals : o >= f.next /\ ~ Settled(f, o)})

MustWaitFor(f, o) ==
  LET p == f.replicas[o]
  IN  isCreated(p) /\ ~ isFailed(p) /\ monotonic(f.view) /\ ~ isHealthy(p)

\* Mutant: the second loop starts with the first condemned pod.
AtCondemnedAscending(f) == IF AtReplica(f) = {} THEN Least(f.condemned) ELSE {}

\* The condemned pod the second loop stops at.
AtCondemned(f) == IF AtReplica(f) = {} THEN Greatest(f.condemned) ELSE {}

MustSpare(f, o) ==
  /\ monotonic(f.view)
  /\ \/ isTerminating(f.pods[o])
     \/ ~ isRunningAndReady(f.pods[o]) /\ o \notin firstUnhealthy(f)

Outdated(f, o) ==
  f.replicas[o].rev # upd(f) /\ ~ isTerminating(f.replicas[o])

\* Mutant: the rolling update does not wait for the pods it has replaced.
AtUpdateWithoutWaiting(f) ==
  IF AtReplica(f) = {} /\ f.condemned = {} /\ f.view.spec.strategy # "OnDelete"
  THEN Greatest({o \in Ordinals : /\ o >= f.view.spec.partition
                                  /\ f.replicas[o] # NoPod
                                  /\ Outdated(f, o)})
  ELSE {}

\* The replica the rolling update stops at. updateMin is the partition, or 0.
AtUpdate(f) ==
  IF AtReplica(f) = {} /\ f.condemned = {} /\ f.view.spec.strategy # "OnDelete"
  THEN Greatest({o \in Ordinals : /\ o >= f.view.spec.partition
                                  /\ f.replicas[o] # NoPod
                                  /\ Outdated(f, o) \/ ~ isHealthy(f.replicas[o])})
  ELSE {}

\* Mutant: a set that is being deleted is reconciled like any other.
PassOverEvenDeleting(f) ==
  \/ f.done
  \/ \E o \in AtReplica(f) : MustWaitFor(f, o)
  \/ \E o \in AtCondemned(f) : MustSpare(f, o)
  \/ /\ AtReplica(f) = {} /\ AtCondemned(f) = {}
     /\ \A o \in AtUpdate(f) : ~ Outdated(f, o)

\* updateStatefulSet returns without another call.
PassOver(f) ==
  \/ f.view.deleting
  \/ f.done
  \/ \E o \in AtReplica(f) : MustWaitFor(f, o)
  \/ \E o \in AtCondemned(f) : MustSpare(f, o)
  \/ /\ AtReplica(f) = {} /\ AtCondemned(f) = {}
     /\ \A o \in AtUpdate(f) : ~ Outdated(f, o)

InPass == w.pc = "pass" /\ ~ PassOver(w)

-----------------------------------------------------------------------------
(* The worker. Every call to the API server is a step of its own. *)

\* Mutant: a failed sync is forgotten.
RequeueForgotten ==
  /\ w' = Idle
  /\ UNCHANGED queued

\* An error ends the sync; processNextWorkItem puts the key back.
Requeue ==
  /\ w' = Idle
  /\ queued' = TRUE

\* processNextWorkItem and sync: the key leaves the queue and the set, its
\* pods and its revisions are read from the caches.
Sync ==
  /\ queued
  /\ events \subseteq Lagging
  /\ "claims" \in Lagging \/ claimCache = claims
  /\ "revisions" \in Lagging \/ revCache = revs
  /\ w = Idle
  /\ queued' = FALSE
  /\ w' = [pc |-> "revisions", view |-> setCache, pods |-> podCache,
           revs |-> revCache, cur |-> setCache.spec.template,
           replicas |-> [o \in Ordinals |-> NoPod], condemned |-> {},
           next |-> 0, done |-> FALSE, status |-> NoStatus]
  /\ UNCHANGED <<api, caches, budget>>

\* One more than the largest number, or 1, as a set of one.
nextRevision(f) ==
  {n \in {f.revs[t] + 1 : t \in Templates} : \A t \in Templates : f.revs[t] < n}

\* The equal revision is the last one: the template has not changed.
KeepRevision ==
  /\ w.pc = "revisions"
  /\ w.revs[upd(w)] > 0
  /\ \A t \in Templates : w.revs[t] <= w.revs[upd(w)]
  /\ w' = StartPass(w)
  /\ UNCHANGED <<api, caches, queued, budget>>

\* An older revision is equal, or one with the same number is listed after
\* it: a rollback gives the equal one the next number. The update conflicts
\* when the revision is not what was listed. (UpdateControllerRevision then
\* retries with the client's empty result, which is an error at once.)
RollBack ==
  /\ w.pc = "revisions"
  /\ w.revs[upd(w)] > 0
  /\ \E t \in Templates \ {upd(w)} : w.revs[t] >= w.revs[upd(w)]
  /\ \/ /\ revs[upd(w)] = w.revs[upd(w)]
        /\ \E n \in nextRevision(w) : revs' = [revs EXCEPT ![upd(w)] = n]
        /\ w' = StartPass(w)
        /\ UNCHANGED queued
     \/ /\ revs[upd(w)] # w.revs[upd(w)]
        /\ Requeue
        /\ UNCHANGED revs
  /\ UNCHANGED <<set, pods, claims, events, caches, budget>>

\* No equal revision is listed. One that exists all the same has the same
\* name and data, and is used as it is.
CreateRevision ==
  /\ w.pc = "revisions"
  /\ w.revs[upd(w)] = 0
  /\ \E n \in nextRevision(w) :
       revs' = IF revs[upd(w)] > 0 THEN revs ELSE [revs EXCEPT ![upd(w)] = n]
  /\ w' = StartPass(w)
  /\ UNCHANGED <<set, pods, claims, events, caches, queued, budget>>
-----------------------------------------------------------------------------
(* The worker, continued: the pass over the pods. *)

DeletePod(o) == PodBecomes(o, ApiDelete(pods[o]))

\* A failed replica is deleted; its slot gets a new pod, created next.
RecreateFailed ==
  /\ InPass
  /\ \E o \in AtReplica(w) :
       /\ isFailed(w.replicas[o])
       /\ \/ /\ exists(pods[o])
             /\ DeletePod(o)
             /\ w' = [w EXCEPT
                        !.replicas[o] = newVersionedStatefulSetPod(w.view, w.cur, o),
                        !.status = [Adjust(w, w.replicas[o].rev, -1)
                                      EXCEPT !.replicas = @ - 1]]
             /\ UNCHANGED queued
          \/ /\ ~ exists(pods[o])
             /\ Requeue
             /\ UNCHANGED <<pods, events>>
  /\ UNCHANGED <<set, claims, revs, caches, budget>>

\* Mutant: the claim's name leaves out the ordinal.
MissingOnEveryPod(o) == {c \in Claims : \A p \in Ordinals : <<p, c>> \notin claimCache}

\* The claims of a pod that the cache does not show.
Missing(o) == {c \in Claims : <<o, c>> \notin claimCache}

\* createPersistentVolumeClaims: a claim the cache does not show is created.
\* One that exists all the same is an error, after all have been tried.
CreateClaims ==
  /\ InPass
  /\ \E o \in AtReplica(w) :
       /\ ~ isCreated(w.replicas[o])
       /\ claims' = claims \union ({o} \X Missing(o))
       /\ IF ({o} \X Missing(o)) \cap claims = {}
          THEN /\ w' = [w EXCEPT !.pc = "create", !.next = o]
               /\ UNCHANGED queued
          ELSE Requeue
  /\ UNCHANGED <<set, pods, revs, events, caches, budget>>

\* CreateStatefulPod, after its claims: a name in use is an error.
CreatePod ==
  /\ w.pc = "create"
  /\ LET o == w.next
         new == w.replicas[o]
     IN  \/ /\ ~ exists(pods[o])
            /\ PodBecomes(o, [new EXCEPT !.phase = "Pending"])
            /\ w' = [w EXCEPT !.pc = "pass", !.next = o + 1,
                              !.done = monotonic(w.view),
                              !.status = [Adjust(w, new.rev, 1)
                                            EXCEPT !.replicas = @ + 1]]
            /\ UNCHANGED queued
         \/ /\ exists(pods[o])
            /\ Requeue
            /\ UNCHANGED <<pods, events>>
  /\ UNCHANGED <<set, claims, revs, caches, budget>>

\* UpdateStatefulPod restores the pod's label. A conflicting update is
\* retried with the cached pod; nothing is left to do when that one is in
\* order, or when there is none and the copy at hand has its label by now.
UpdatePod ==
  /\ InPass
  /\ \E o \in AtReplica(w) :
       /\ isCreated(w.replicas[o]) /\ ~ isFailed(w.replicas[o])
       /\ \/ /\ exists(pods[o])
             /\ pods[o] \in {w.replicas[o], podCache[o]}
             /\ PodBecomes(o, [pods[o] EXCEPT !.labelled = TRUE])
             /\ w' = [w EXCEPT !.next = o + 1]
             /\ UNCHANGED queued
          \/ /\ exists(pods[o])
             /\ pods[o] # w.replicas[o]
             /\ identityMatches(podCache[o]) \/ ~ exists(podCache[o])
             /\ w' = [w EXCEPT !.next = o + 1]
             /\ UNCHANGED <<pods, events, queued>>
          \/ /\ \/ ~ exists(pods[o])
                \/ /\ pods[o] \notin {w.replicas[o], podCache[o]}
                   /\ exists(podCache[o]) /\ ~ identityMatches(podCache[o])
             /\ Requeue
             /\ UNCHANGED <<pods, events>>
  /\ UNCHANGED <<set, claims, revs, caches, budget>>

\* Scale in: the condemned pod with the greatest ordinal goes.
DeleteCondemned ==
  /\ InPass
  /\ \E o \in AtCondemned(w) :
       \/ /\ exists(pods[o])
          /\ DeletePod(o)
          /\ w' = [w EXCEPT !.condemned = @ \ {o}, !.done = monotonic(w.view),
                            !.status = Adjust(w, w.pods[o].rev, -1)]
          /\ UNCHANGED queued
       \/ /\ ~ exists(pods[o])
          /\ Requeue
          /\ UNCHANGED <<pods, events>>
  /\ UNCHANGED <<set, claims, revs, caches, budget>>

\* Rolling update: the outdated pod with the greatest ordinal goes. The
\* counter is decremented whatever the revision of the pod.
DeleteOutdated ==
  /\ InPass
  /\ \E o \in AtUpdate(w) :
       \/ /\ exists(pods[o])
          /\ DeletePod(o)
          /\ w' = [w EXCEPT !.done = TRUE, !.status.currentReplicas = @ - 1]
          /\ UNCHANGED queued
       \/ /\ ~ exists(pods[o])
          /\ Requeue
          /\ UNCHANGED <<pods, events>>
  /\ UNCHANGED <<set, claims, revs, caches, budget>>

-----------------------------------------------------------------------------
(* The worker, continued: the status and the history. *)

\* The pass returned its status; a completed update is recorded in it.
EndPass ==
  /\ w.pc = "pass"
  /\ PassOver(w)
  /\ LET st == completeRollingUpdate(w.view, w.status)
     IN  w' = [w EXCEPT !.status = st,
                        !.pc = IF inconsistentStatus(w.view, st)
                               THEN "status" ELSE "truncate"]
  /\ UNCHANGED <<api, caches, queued, budget>>

\* Mutant: the retry reports the generation of the set it writes to.
WriteStatusFreshGeneration ==
  /\ w.pc = "status"
  /\ \/ /\ set \in {w.view, setCache}
        /\ SetBecomes([set EXCEPT !.status =
                         [w.status EXCEPT !.observedGeneration = set.generation]])
        /\ w' = [w EXCEPT !.pc = "truncate"]
        /\ UNCHANGED queued
     \/ /\ set \notin {w.view, setCache}
        /\ Requeue
        /\ UNCHANGED <<set, events>>
  /\ UNCHANGED <<pods, claims, revs, caches, budget>>

\* UpdateStatefulSetStatus overwrites the status of the set it read, or on a
\* conflict of the cached set, until the retries are used up.
WriteStatus ==
  /\ w.pc = "status"
  /\ \/ /\ set \in {w.view, setCache}
        /\ SetBecomes([set EXCEPT !.status = w.status])
        /\ w' = [w EXCEPT !.pc = "truncate"]
        /\ UNCHANGED queued
     \/ /\ set \notin {w.view, setCache}
        /\ Requeue
        /\ UNCHANGED <<set, events>>
  /\ UNCHANGED <<pods, claims, revs, caches, budget>>

\* Mutants: the revisions of the pods, or the current one, are not live.
HistoryOfPods(f) == ListedRevisions(f) \ {f.cur, upd(f)}
HistoryOfCurrent(f) ==
  ListedRevisions(f) \ ({upd(f)} \union {f.pods[o].rev : o \in Ordinals})

\* The listed revisions that are neither current nor update nor of a pod.
History(f) ==
  ListedRevisions(f) \ ({f.cur, upd(f)} \union {f.pods[o].rev : o \in Ordinals})

\* Mutant: one revision too many stays.
ExcessOffByOne(f) == Cardinality(History(f)) > f.view.spec.historyLimit + 1

Excess(f) == Cardinality(History(f)) > f.view.spec.historyLimit

\* The one with the lowest number goes first.
TruncateHistory ==
  /\ w.pc = "truncate"
  /\ Excess(w)
  /\ \E t \in History(w) :
       /\ \A x \in History(w) : w.revs[t] <= w.revs[x]
       /\ \/ /\ revs[t] > 0
             /\ revs' = [revs EXCEPT ![t] = 0]
             /\ w' = [w EXCEPT !.revs[t] = 0]
             /\ UNCHANGED queued
          \/ /\ revs[t] = 0
             /\ Requeue
             /\ UNCHANGED revs
  /\ UNCHANGED <<set, pods, claims, events, caches, budget>>

Finish ==
  /\ w.pc = "truncate"
  /\ ~ Excess(w)
  /\ w' = Idle
  /\ UNCHANGED <<api, caches, queued, budget>>

Worker ==
  \/ Sync
  \/ KeepRevision \/ RollBack \/ CreateRevision
  \/ RecreateFailed \/ CreateClaims \/ CreatePod \/ UpdatePod
  \/ DeleteCondemned \/ DeleteOutdated
  \/ EndPass \/ WriteStatus \/ TruncateHistory \/ Finish
-----------------------------------------------------------------------------
(* The informers. Set and pod events enqueue the set; nothing watches the   *)
(* claims and the revisions.                                                *)

RefreshSet ==
  /\ "set" \in events
  /\ events' = events \ {"set"}
  /\ setCache' = set
  /\ queued' = TRUE
  /\ UNCHANGED <<set, pods, claims, revs, podCache, claimCache, revCache, w, budget>>

\* Mutant: a pod event does not enqueue the set.
RefreshPodsSilently ==
  /\ "pods" \in events
  /\ events' = events \ {"pods"}
  /\ podCache' = pods
  /\ UNCHANGED <<set, pods, claims, revs, setCache, claimCache, revCache, queued, w, budget>>

RefreshPods ==
  /\ "pods" \in events
  /\ events' = events \ {"pods"}
  /\ podCache' = pods
  /\ queued' = TRUE
  /\ UNCHANGED <<set, pods, claims, revs, setCache, claimCache, revCache, w, budget>>

RefreshClaims ==
  /\ claimCache # claims
  /\ claimCache' = claims
  /\ UNCHANGED <<api, setCache, podCache, revCache, queued, w, budget>>

RefreshRevisions ==
  /\ revCache # revs
  /\ revCache' = revs
  /\ UNCHANGED <<api, setCache, podCache, claimCache, queued, w, budget>>

-----------------------------------------------------------------------------
(* Everyone else: the kubelet, the garbage collector and the user. *)

BecomeReady(o) ==
  /\ pods[o].phase = "Pending"
  /\ ~ isTerminating(pods[o])
  /\ {o} \X Claims \subseteq claims
  /\ PodBecomes(o, [pods[o] EXCEPT !.phase = "Ready"])
  /\ UNCHANGED <<set, claims, revs, caches, queued, w, budget>>

Terminated(o) ==
  /\ isTerminating(pods[o])
  /\ PodBecomes(o, NoPod)
  /\ UNCHANGED <<set, claims, revs, caches, queued, w, budget>>

\* Foreground deletion of the set removes its pods.
CollectPod(o) ==
  /\ set.deleting
  /\ exists(pods[o]) /\ ~ isTerminating(pods[o])
  /\ DeletePod(o)
  /\ UNCHANGED <<set, claims, revs, caches, queued, w, budget>>

\* Only a change of the spec proper gives the set a new generation: the
\* delete slots are an annotation.
EditSet(s) ==
  /\ edits < MaxEdits
  /\ ~ set.deleting
  /\ s # set.spec
  /\ SetBecomes([set EXCEPT
       !.spec = s,
       !.generation = IF [s EXCEPT !.ann = Absent] = [set.spec EXCEPT !.ann = Absent]
                      THEN @ ELSE @ + 1])
  /\ edits' = edits + 1
  /\ UNCHANGED <<pods, claims, revs, caches, queued, w, faults>>

Fault(kind) ==
  /\ kind \in Faults
  /\ faults < MaxFaults
  /\ faults' = faults + 1
  /\ UNCHANGED edits

\* A call fails, or its reply is lost, or the controller stops and another
\* one starts from caches that are no newer than the truth.
SyncBreaks ==
  /\ Fault("error")
  /\ w # Idle
  /\ Requeue
  /\ UNCHANGED <<api, caches>>

\* Some of the claims could be created, another could not.
ClaimFails ==
  /\ Fault("error")
  /\ InPass
  /\ \E o \in AtReplica(w) : \E made \in SUBSET Missing(o) :
       /\ ~ isCreated(w.replicas[o])
       /\ claims' = claims \union ({o} \X made)
  /\ Requeue
  /\ UNCHANGED <<set, pods, revs, events, caches>>

PodFails(o) ==
  /\ Fault("fail")
  /\ pods[o].phase \in {"Pending", "Ready"}
  /\ PodBecomes(o, [pods[o] EXCEPT !.phase = "Failed"])
  /\ UNCHANGED <<set, claims, revs, caches, queued, w>>

PodUnready(o) ==
  /\ Fault("unready")
  /\ pods[o].phase = "Ready"
  /\ PodBecomes(o, [pods[o] EXCEPT !.phase = "Pending"])
  /\ UNCHANGED <<set, claims, revs, caches, queued, w>>

\* The user, or a drain, deletes a pod.
DrainPod(o) ==
  /\ Fault("drain")
  /\ exists(pods[o]) /\ ~ isTerminating(pods[o])
  /\ DeletePod(o)
  /\ UNCHANGED <<set, claims, revs, caches, queued, w>>

\* The user removes the pod's name label.
RelabelPod(o) ==
  /\ Fault("relabel")
  /\ exists(pods[o]) /\ pods[o].labelled
  /\ PodBecomes(o, [pods[o] EXCEPT !.labelled = FALSE])
  /\ UNCHANGED <<set, claims, revs, caches, queued, w>>

\* The user deletes a claim; a claim in use is protected.
DropClaim(o) ==
  /\ Fault("dropClaim")
  /\ ~ exists(pods[o])
  /\ \E c \in claims : c[1] = o /\ claims' = claims \ {c}
  /\ UNCHANGED <<set, pods, revs, events, caches, queued, w>>

DeleteSet ==
  /\ Fault("deleteSet")
  /\ ~ set.deleting
  /\ SetBecomes([set EXCEPT !.deleting = TRUE, !.generation = @ + 1])
  /\ UNCHANGED <<pods, claims, revs, caches, queued, w>>

-----------------------------------------------------------------------------
Init ==
  /\ \E s \in InitialSpecs :
       set = [spec |-> s, generation |-> 1, deleting |-> FALSE, status |-> NoStatus]
  /\ pods = [o \in Ordinals |-> NoPod]
  /\ claims = {}
  /\ revs = [t \in Templates |-> 0]
  /\ setCache = set /\ podCache = pods /\ claimCache = claims /\ revCache = revs
  /\ events = {}
  /\ queued = TRUE
  /\ w = Idle
  /\ edits = 0 /\ faults = 0

Informers == RefreshSet \/ RefreshPods \/ RefreshClaims \/ RefreshRevisions

Cluster(o) == BecomeReady(o) \/ Terminated(o) \/ CollectPod(o)

Disturb ==
  \/ SyncBreaks \/ ClaimFails \/ DeleteSet
  \/ \E o \in Ordinals :
       PodFails(o) \/ PodUnready(o) \/ DrainPod(o) \/ RelabelPod(o) \/ DropClaim(o)

Next ==
  \/ Worker
  \/ Informers
  \/ \E o \in Ordinals : Cluster(o)
  \/ \E s \in Specs : EditSet(s)
  \/ Disturb

Spec == Init /\ [][Next]_vars

\* The worker runs while a key is queued, every watch delivers, and the
\* kubelet starts and stops pods. Nobody is obliged to edit or to disturb.
Fairness ==
  /\ WF_vars(Worker)
  /\ WF_vars(RefreshSet) /\ WF_vars(RefreshPods)
  /\ WF_vars(RefreshClaims) /\ WF_vars(RefreshRevisions)
  /\ \A o \in Ordinals : WF_vars(Cluster(o))

FairSpec == Spec /\ Fairness
-----------------------------------------------------------------------------
(* Properties. *)

\* Every variable has its type.
TypeOK ==
  /\ set \in SetType /\ setCache \in SetType
  /\ pods \in [Ordinals -> ApiPodType] /\ podCache \in [Ordinals -> ApiPodType]
  /\ claims \in SUBSET (Ordinals \X Claims)
  /\ claimCache \in SUBSET (Ordinals \X Claims)
  /\ revs \in [Templates -> Nat] /\ revCache \in [Templates -> Nat]
  /\ events \subseteq {"set", "pods"}
  /\ queued \in BOOLEAN
  /\ w = Idle \/ w \in FrameType
  /\ edits \in 0 .. MaxEdits
  /\ faults \in 0 .. MaxFaults

Up(p) == p.phase = "Ready" /\ ~ p.terminating

\* When status.observedGeneration is the set's generation, the status is about
\* the template the set has now, although updateStatefulSetStatus may write a
\* status that was computed from an older set onto a newer one.
ObservedGenerationHonest ==
  /\ set.status.observedGeneration <= set.generation
  /\ set.status.observedGeneration = set.generation
       => set.status.updateRevision = set.spec.template

\* createPersistentVolumeClaims comes before the pod: a pod has its claims,
\* as long as nobody deletes claims.
PodsHaveClaims ==
  \A o \in Ordinals : exists(pods[o]) => {o} \X Claims \subseteq claims

\* truncateHistory keeps the revision of every pod, so that the pod's
\* template can be restored: the revision of a pod is deleted only by a sync
\* that listed no such pod, or one on its way out.
PodRevisionsSpared ==
  [][\A o \in Ordinals, t \in Templates :
       /\ TruncateHistory /\ revs[t] > 0 /\ revs'[t] = 0
       /\ exists(pods[o]) /\ pods[o].rev = t
       => ~ exists(w.pods[o]) \/ isTerminating(w.pods[o])]_vars

\* truncateHistory keeps the revisions that the recorded status names, unless
\* that status is news to the sync; another sync is due then.
StatusRevisionsSpared ==
  [][\A t \in {set.status.currentRevision, set.status.updateRevision} \ {NoRevision} :
       TruncateHistory /\ revs[t] > 0 /\ revs'[t] = 0
       => /\ set.status \notin {w.view.status, w.status}
          /\ "set" \in events \/ queued]_vars

\* OrderedReady: a pod is created only when the sync has seen all its
\* predecessors serve, and none of them is starting, however old the listing.
CreateInOrder ==
  [][\A o \in Ordinals : CreatePod /\ pods'[o] # pods[o] /\ monotonic(w.view)
        => \A p \in Desired(w.view) : p < o =>
             Up(w.pods[p]) /\ pods[p].phase \in {"Ready", "Absent"}]_vars

\* OrderedReady: scale in or a rolling update takes a pod down only when the
\* sync has seen every other replica serve, and none of them is starting,
\* however old the listing.
TakeDownInOrder ==
  [][\A o \in Ordinals :
       (DeleteCondemned \/ DeleteOutdated) /\ pods'[o] # pods[o] /\ monotonic(w.view)
        => \A p \in Desired(w.view) \ {o} :
             Up(w.pods[p]) /\ pods[p].phase \in {"Ready", "Absent"}]_vars

\* OrderedReady: scale in terminates a pod only when no condemned pod with a
\* greater ordinal is left.
ScaleDownInOrder ==
  [][\A o \in Ordinals : DeleteCondemned /\ pods'[o] # pods[o]
        => \A p \in Ordinals \ Desired(w.view) : p > o => ~ exists(pods[p])]_vars

\* Under either pod management policy, a rolling update takes a pod down only
\* when the sync has seen every pod after it serve, and none of them is
\* starting or at another revision than the update's, however old the listing.
UpdateInOrder ==
  [][\A o \in Ordinals : DeleteOutdated /\ pods'[o] # pods[o]
        => \A p \in Desired(w.view) : p > o =>
             /\ Up(w.pods[p])
             /\ exists(pods[p]) => pods[p].phase = "Ready" /\ pods[p].rev = upd(w)]_vars

\* A rolling update is recorded as complete, that is, currentRevision moves
\* on from the one the pods were built from, only when no replica is left at
\* another revision, however old the listing the counters started from.
CompletionSound ==
  [][WriteStatus /\ w' # Idle /\ w.status.currentRevision # w.cur
       => \A o \in Desired(w.view) : exists(pods[o]) =>
            pods[o].rev = w.status.currentRevision]_vars

\* A pod below the partition is created at the revision the status names as
\* current, if the sync has that revision at hand.
PartitionHeld ==
  [][\A o \in Ordinals :
       /\ CreatePod /\ pods'[o] # pods[o]
       /\ o < w.view.spec.partition
       /\ w.view.status.currentRevision \in ListedRevisions(w)
       => pods'[o].rev = w.view.status.currentRevision]_vars

\* Nothing is left to do, or to hear of.
Quiet ==
  /\ w = Idle /\ ~ queued
  /\ events = {} /\ claimCache = claims /\ revCache = revs
  /\ \A o \in Ordinals :
       /\ ~ isTerminating(pods[o])
       /\ pods[o].phase = "Pending" => ~ ({o} \X Claims \subseteq claims)

\* Two condemned pods have failed: each waits for the other to be the first
\* unhealthy one, and OrderedReady scale in halts.
ScaleInHalted ==
  /\ monotonic(set)
  /\ Cardinality({o \in Ordinals \ Desired(set) : isFailed(pods[o])}) > 1

\* The user has deleted a claim that a pod needs.
ClaimLost == \E o \in Ordinals : exists(pods[o]) /\ ~ ({o} \X Claims \subseteq claims)

PodsConverged ==
  \A o \in Ordinals :
    IF o \in Desired(set)
    THEN /\ Up(pods[o]) /\ identityMatches(pods[o])
         /\ \/ set.spec.strategy = "OnDelete"
            \/ o < set.spec.partition
            \/ pods[o].rev = set.spec.template
    ELSE ~ exists(pods[o])

StatusExact ==
  LET live == {o \in Ordinals : exists(pods[o])}
      at(r) == Cardinality({o \in live : pods[o].rev = r})
      st == set.status
  IN  /\ st.observedGeneration = set.generation
      /\ st.replicas = Cardinality(live)
      /\ st.readyReplicas = Cardinality({o \in live : Up(pods[o])})
      /\ st.currentReplicas = at(st.currentRevision)
      /\ st.updatedReplicas = at(st.updateRevision)
      /\ st.updateRevision = set.spec.template

\* The controller does not stop short: when it has nothing left to do, each
\* desired pod serves with its label and its revision, and no other pod
\* exists, unless scale in is halted or a pod waits for a claim that is gone.
QuietPods == Quiet /\ ~ set.deleting => PodsConverged \/ ScaleInHalted \/ ClaimLost

\* When the controller has nothing left to do, the status it recorded counts
\* the pods that exist.
QuietStatus == Quiet => StatusExact

\* When the controller has nothing left to do, at most historyLimit revisions
\* that nothing uses are left.
QuietHistory ==
  Quiet => Cardinality({t \in Templates : revs[t] > 0}
             \ ({set.status.currentRevision, set.status.updateRevision}
                  \union {pods[o].rev : o \in Ordinals})) <= set.spec.historyLimit

\* StatefulSetStatus: "currentReplicas is the number of Pods created by the
\* StatefulSet controller from the StatefulSet version indicated by
\* currentRevision". A number of pods is never negative, but the controller
\* writes -1 when the template changes again during an update.
CurrentReplicasIsANumber == set.status.currentReplicas >= 0

(* Liveness. *)

\* The pods and the status settle in the state the set asks for, unless the
\* set is deleted.
Converges == <>[](set.deleting \/ (PodsConverged /\ StatusExact))

\* Once the set is being deleted, its pods go and none comes back, although
\* the controller may go on creating pods until it sees the deletion.
DeletedSetEmpties == set.deleting ~> [](\A o \in Ordinals : ~ exists(pods[o]))
=============================================================================
