---------------------- MODULE StatefulSetControlProofs ----------------------
(***************************************************************************)
(* Theorems about StatefulSetControl, for any number of ordinals,          *)
(* templates, claims, edits and faults, and whichever caches lag.          *)
(***************************************************************************)
EXTENDS StatefulSetControl, FiniteSetTheorems, TLAPS

-----------------------------------------------------------------------------
(* Types of the operators the actions are built from. *)

\* The pods that are counted are finitely many.
LEMMA CountIsNat ==
  ASSUME NEW S \in SUBSET Ordinals
  PROVE  Cardinality(S) \in Nat
<1>1. IsFiniteSet(Ordinals)
  BY ControlAssumption, FS_Interval DEF Ordinals
<1>2. IsFiniteSet(S)
  BY <1>1, FS_Subset
<1> QED
  BY <1>2, FS_CardinalityType

\* A spec the user may choose has a template and a policy.
LEMMA SpecFields ==
  ASSUME NEW s \in SetType
  PROVE  /\ s.spec \in Specs
         /\ s.spec.template \in Templates
         /\ s.generation \in Nat
         /\ s.status \in StatusType
BY ControlAssumption DEF SetType, SpecType

\* A pod built in memory has one of the two revisions.
LEMMA NewPodType ==
  ASSUME NEW s \in SetType, NEW cur \in Templates, NEW o \in Ordinals
  PROVE  /\ newVersionedStatefulSetPod(s, cur, o) \in PodType
         /\ newVersionedStatefulSetPod(s, cur, o).phase = "New"
         /\ newVersionedStatefulSetPod(s, cur, o).rev \in Templates
BY SpecFields DEF newVersionedStatefulSetPod, PodType

\* The counters of a fresh status are numbers.
LEMMA CountStatusType ==
  ASSUME NEW f \in FrameType, NEW cur \in Templates
  PROVE  CountStatus(f, cur) \in StatusType
<1> DEFINE listed == {o \in Ordinals : exists(f.pods[o])}
           live(r) == {o \in listed : ~ isTerminating(f.pods[o]) /\ f.pods[o].rev = r}
           ready == {o \in listed : isRunningAndReady(f.pods[o])}
<1>1. /\ Cardinality(listed) \in Nat
      /\ Cardinality(ready) \in Nat
      /\ Cardinality(live(cur)) \in Nat
      /\ Cardinality(live(upd(f))) \in Nat
  <2>1. \A S \in SUBSET Ordinals : Cardinality(S) \in Nat
    BY CountIsNat
  <2>2. /\ listed \in SUBSET Ordinals /\ ready \in SUBSET Ordinals
        /\ live(cur) \in SUBSET Ordinals /\ live(upd(f)) \in SUBSET Ordinals
    OBVIOUS
  <2> QED
    BY <2>1, <2>2
<1>2. f.view \in SetType
  BY DEF FrameType
<1>3. f.view.generation \in Nat /\ upd(f) \in Templates
  BY <1>2, SpecFields DEF upd
<1>4. CountStatus(f, cur) =
        [observedGeneration |-> f.view.generation,
         replicas |-> Cardinality(listed),
         readyReplicas |-> Cardinality(ready),
         currentReplicas |-> Cardinality(live(cur)),
         updatedReplicas |-> Cardinality(live(upd(f))),
         currentRevision |-> cur,
         updateRevision |-> upd(f)]
  BY DEF CountStatus
<1> HIDE DEF listed, live, ready
<1> QED
  BY <1>1, <1>3, <1>4 DEF StatusType

\* Entering the pass over the pods gives every local variable a value.
LEMMA StartPassType ==
  ASSUME NEW f \in FrameType
  PROVE  StartPass(f) \in FrameType
<1> DEFINE cur == currentRevision(f)
           reps == [o \in Ordinals |->
                      IF o \notin Desired(f.view) THEN NoPod
                      ELSE IF exists(f.pods[o]) THEN f.pods[o]
                      ELSE newVersionedStatefulSetPod(f.view, cur, o)]
           cond == IF monotonic(f.view) THEN Condemned(f)
                   ELSE {o \in Condemned(f) : ~ isTerminating(f.pods[o])}
<1>1. f.view \in SetType /\ f.pods \in [Ordinals -> PodType]
  BY DEF FrameType
<1>2. cur \in Templates
  BY <1>1, SpecFields DEF currentRevision, ListedRevisions, upd
<1>3. CountStatus(f, cur) \in StatusType
  BY <1>2, CountStatusType
<1>4. reps \in [Ordinals -> PodType]
  <2>1. NoPod \in PodType
    BY DEF PodType
  <2>2. \A o \in Ordinals : newVersionedStatefulSetPod(f.view, cur, o) \in PodType
    BY <1>1, <1>2, NewPodType
  <2> QED
    BY <1>1, <2>1, <2>2
<1>5. cond \in SUBSET Ordinals
  BY DEF Condemned
<1>6. StartPass(f) = [f EXCEPT !.pc = "pass", !.cur = cur,
                               !.status = CountStatus(f, cur),
                               !.replicas = reps, !.condemned = cond]
  BY DEF StartPass
<1> HIDE DEF cur, reps, cond
<1> QED
  BY <1>2, <1>3, <1>4, <1>5, <1>6 DEF FrameType

\* A pod comes or goes: the counters stay numbers.
LEMMA AdjustType ==
  ASSUME NEW f \in FrameType, NEW r, NEW d \in Int
  PROVE  /\ Adjust(f, r, d) \in StatusType
         /\ Adjust(f, r, d).replicas = f.status.replicas
         /\ Adjust(f, r, d).observedGeneration = f.status.observedGeneration
         /\ Adjust(f, r, d).updateRevision = f.status.updateRevision
<1> DEFINE a == f.status.currentReplicas + (IF r = f.cur THEN d ELSE 0)
           b == f.status.updatedReplicas + (IF r = upd(f) THEN d ELSE 0)
<1>1. f.status \in StatusType
  BY DEF FrameType
<1>2. a \in Int /\ b \in Int
  BY <1>1 DEF StatusType
<1>3. Adjust(f, r, d) = [f.status EXCEPT !.currentReplicas = a, !.updatedReplicas = b]
  BY DEF Adjust
<1> HIDE DEF a, b
<1> QED
  BY <1>1, <1>2, <1>3 DEF StatusType

\* Where the loops stop is an ordinal.
LEMMA StopsAtOrdinals ==
  ASSUME NEW f \in FrameType
  PROVE  /\ AtReplica(f) \subseteq Ordinals
         /\ AtCondemned(f) \subseteq Ordinals
         /\ AtUpdate(f) \subseteq Ordinals
         /\ Ordinals \subseteq Nat
BY ControlAssumption
   DEF AtReplica, AtCondemned, AtUpdate, Least, Greatest, FrameType, Ordinals

\* An API pod is a pod, and stays one when it is deleted, or changed in place.
LEMMA ApiPods ==
  /\ NoPod \in ApiPodType
  /\ ApiPodType \subseteq PodType
  /\ \A p \in ApiPodType : exists(p) =>
       /\ ApiDelete(p) \in ApiPodType
       /\ [p EXCEPT !.labelled = TRUE] \in ApiPodType
       /\ [p EXCEPT !.labelled = FALSE] \in ApiPodType
       /\ \A ph \in {"Pending", "Ready", "Failed"} : [p EXCEPT !.phase = ph] \in ApiPodType
<1>1. NoPod \in ApiPodType /\ ApiPodType \subseteq PodType
  BY DEF ApiPodType, PodType, NoPod
<1>2. ASSUME NEW p \in ApiPodType, exists(p)
      PROVE  /\ ApiDelete(p) \in ApiPodType
             /\ [p EXCEPT !.labelled = TRUE] \in ApiPodType
             /\ [p EXCEPT !.labelled = FALSE] \in ApiPodType
             /\ \A ph \in {"Pending", "Ready", "Failed"} :
                  [p EXCEPT !.phase = ph] \in ApiPodType
  <2>1. p \in [phase : {"New", "Pending", "Ready", "Failed"}, terminating : BOOLEAN,
               rev : Templates, labelled : BOOLEAN]
    BY <1>2 DEF ApiPodType, PodType, exists, NoPod
  <2> QED
    BY <1>1, <2>1 DEF ApiPodType, PodType, ApiDelete
<1> QED
  BY <1>1, <1>2

\* A changed pod is an API pod and its event is a pod event.
LEMMA PodBecomesType ==
  ASSUME TypeOK, NEW o \in Ordinals, NEW p \in ApiPodType, PodBecomes(o, p)
  PROVE  pods' \in [Ordinals -> ApiPodType] /\ events' \subseteq {"set", "pods"}
BY DEF TypeOK, PodBecomes

\* A changed set is a set and its event is a set event.
LEMMA SetBecomesType ==
  ASSUME TypeOK, NEW s \in SetType, SetBecomes(s)
  PROVE  set' \in SetType /\ events' \subseteq {"set", "pods"}
BY DEF TypeOK, SetBecomes

\* A sync that is under way has a frame.
LEMMA Running ==
  ASSUME TypeOK, w.pc # "idle"
  PROVE  w \in FrameType
BY DEF TypeOK, Idle

-----------------------------------------------------------------------------
(* Type correctness. TypeOK is not inductive: CreatePod stores a replica of *)
(* its frame, which has to be one that was built and not an empty slot.     *)

\* A sync about to create a pod has built it.
Creating ==
  w.pc = "create" => w.next \in Ordinals /\ w.replicas[w.next].phase = "New"

\* The initial state has its types.
LEMMA TypeInit ==
  Init => TypeOK
<1> SUFFICES ASSUME Init PROVE TypeOK
  OBVIOUS
<1>1. PICK s \in InitialSpecs :
        set = [spec |-> s, generation |-> 1, deleting |-> FALSE, status |-> NoStatus]
  BY DEF Init
<1>2. set \in SetType
  BY <1>1, ControlAssumption DEF SetType, StatusType, NoStatus
<1>3. pods \in [Ordinals -> ApiPodType]
  BY ApiPods DEF Init
<1> QED
  BY <1>2, <1>3, ControlAssumption DEF Init, TypeOK

\* The steps of the worker before and after the pass over the pods.
LEMMA TypeWorkerEnds ==
  ASSUME TypeOK,
         Sync \/ KeepRevision \/ RollBack \/ CreateRevision
           \/ EndPass \/ WriteStatus \/ TruncateHistory \/ Finish
  PROVE  TypeOK'
<1>1. CASE Sync
  <2>1. setCache.spec.template \in Templates
    BY SpecFields DEF TypeOK
  <2>2. NoStatus \in StatusType
    BY DEF NoStatus, StatusType
  <2>3. w' \in FrameType
    BY <1>1, <2>1, <2>2, ApiPods DEF Sync, TypeOK, FrameType
  <2> QED
    BY <1>1, <2>3 DEF Sync, TypeOK, api, caches, budget
<1>2. CASE KeepRevision
  BY <1>2, Running, StartPassType DEF KeepRevision, TypeOK, api, caches, budget
<1>3. CASE RollBack
  <2>1. w \in FrameType /\ upd(w) \in Templates
    BY <1>3, Running, SpecFields DEF RollBack, FrameType, upd
  <2>2. \A n \in nextRevision(w) : n \in Nat
    BY <2>1 DEF nextRevision, FrameType
  <2>3. revs' \in [Templates -> Nat]
    BY <1>3, <2>1, <2>2 DEF RollBack, TypeOK
  <2>4. (w' = Idle \/ w' \in FrameType) /\ queued' \in BOOLEAN
    BY <1>3, <2>1, StartPassType DEF RollBack, Requeue, TypeOK
  <2> QED
    BY <1>3, <2>3, <2>4 DEF RollBack, TypeOK, caches, budget
<1>4. CASE CreateRevision
  <2>1. w \in FrameType /\ upd(w) \in Templates
    BY <1>4, Running, SpecFields DEF CreateRevision, FrameType, upd
  <2>2. \A n \in nextRevision(w) : n \in Nat
    BY <2>1 DEF nextRevision, FrameType
  <2>3. revs' \in [Templates -> Nat]
    BY <1>4, <2>1, <2>2 DEF CreateRevision, TypeOK
  <2> QED
    BY <1>4, <2>1, <2>3, StartPassType DEF CreateRevision, TypeOK, caches, budget
<1>5. CASE EndPass
  <2> DEFINE st == completeRollingUpdate(w.view, w.status)
  <2>1. w \in FrameType
    BY <1>5, Running DEF EndPass
  <2>2. st \in StatusType
    BY <2>1 DEF completeRollingUpdate, FrameType, StatusType
  <2>3. w' = [w EXCEPT !.status = st,
                       !.pc = IF inconsistentStatus(w.view, st)
                              THEN "status" ELSE "truncate"]
    BY <1>5 DEF EndPass
  <2> HIDE DEF st
  <2>4. w' \in FrameType
    BY <2>1, <2>2, <2>3 DEF FrameType
  <2> QED
    BY <1>5, <2>4 DEF EndPass, TypeOK, api, caches, budget
<1>6. CASE WriteStatus
  <2>1. w \in FrameType
    BY <1>6, Running DEF WriteStatus
  <2>2. [set EXCEPT !.status = w.status] \in SetType
    BY <2>1 DEF TypeOK, FrameType, SetType
  <2>3. set' \in SetType /\ events' \subseteq {"set", "pods"}
    BY <1>6, <2>2, SetBecomesType DEF WriteStatus, TypeOK
  <2>4. (w' = Idle \/ w' \in FrameType) /\ queued' \in BOOLEAN
    BY <1>6, <2>1 DEF WriteStatus, Requeue, FrameType, TypeOK
  <2> QED
    BY <1>6, <2>3, <2>4 DEF WriteStatus, TypeOK, caches, budget
<1>7. CASE TruncateHistory
  <2>1. w \in FrameType
    BY <1>7, Running DEF TruncateHistory
  <2>2. PICK t \in History(w) :
          \/ /\ revs' = [revs EXCEPT ![t] = 0]
             /\ w' = [w EXCEPT !.revs[t] = 0]
             /\ UNCHANGED queued
          \/ Requeue /\ UNCHANGED revs
    BY <1>7 DEF TruncateHistory
  <2>3. t \in Templates
    BY DEF History, ListedRevisions
  <2>4. w' \in FrameType \/ w' = Idle
    BY <2>1, <2>2, <2>3 DEF FrameType, Requeue
  <2>5. revs' \in [Templates -> Nat]
    BY <2>2, <2>3 DEF TypeOK
  <2>6. queued' \in BOOLEAN
    BY <2>2 DEF TypeOK, Requeue
  <2> QED
    BY <1>7, <2>4, <2>5, <2>6 DEF TruncateHistory, TypeOK, caches, budget
<1>8. CASE Finish
  BY <1>8 DEF Finish, TypeOK, api, caches, budget
<1> QED
  BY <1>1, <1>2, <1>3, <1>4, <1>5, <1>6, <1>7, <1>8

\* The steps of the pass over the pods.
LEMMA TypePass ==
  ASSUME TypeOK, Creating,
         RecreateFailed \/ CreateClaims \/ CreatePod \/ UpdatePod
           \/ DeleteCondemned \/ DeleteOutdated
  PROVE  TypeOK'
<1>0. w \in FrameType
  BY Running DEF RecreateFailed, CreateClaims, CreatePod, UpdatePod,
                 DeleteCondemned, DeleteOutdated, InPass
<1>1. CASE RecreateFailed
  <2>1. PICK o \in AtReplica(w) :
          \/ /\ exists(pods[o])
             /\ DeletePod(o)
             /\ w' = [w EXCEPT
                        !.replicas[o] = newVersionedStatefulSetPod(w.view, w.cur, o),
                        !.status = [Adjust(w, w.replicas[o].rev, -1)
                                      EXCEPT !.replicas = @ - 1]]
             /\ UNCHANGED queued
          \/ Requeue /\ UNCHANGED <<pods, events>>
    BY <1>1 DEF RecreateFailed
  <2>2. o \in Ordinals
    BY <1>0, StopsAtOrdinals
  <2>3. newVersionedStatefulSetPod(w.view, w.cur, o) \in PodType
    BY <1>0, <2>2, NewPodType DEF FrameType
  <2>4. [Adjust(w, w.replicas[o].rev, -1) EXCEPT !.replicas = @ - 1] \in StatusType
    <3>1. Adjust(w, w.replicas[o].rev, -1) \in StatusType
      BY <1>0, AdjustType
    <3> QED
      BY <3>1 DEF StatusType
  <2>5. w' = Idle \/ w' \in FrameType
    <3>1. ASSUME NEW p \in PodType, NEW st \in StatusType
          PROVE  [w EXCEPT !.replicas[o] = p, !.status = st] \in FrameType
      BY <1>0, <2>2, <3>1 DEF FrameType
    <3> QED
      BY <2>1, <2>3, <2>4, <3>1 DEF Requeue
  <2>6. pods' \in [Ordinals -> ApiPodType] /\ events' \subseteq {"set", "pods"}
    BY <2>1, <2>2, ApiPods, PodBecomesType DEF DeletePod, TypeOK
  <2>7. queued' \in BOOLEAN
    BY <2>1 DEF TypeOK, Requeue
  <2> QED
    BY <1>1, <2>5, <2>6, <2>7 DEF RecreateFailed, TypeOK, caches, budget
<1>2. CASE CreateClaims
  <2>1. PICK o \in AtReplica(w) :
          /\ claims' = claims \union ({o} \X Missing(o))
          /\ \/ w' = [w EXCEPT !.pc = "create", !.next = o] /\ UNCHANGED queued
             \/ Requeue
    BY <1>2 DEF CreateClaims
  <2>2. o \in Ordinals /\ o \in Nat
    BY <1>0, StopsAtOrdinals
  <2>3. claims' \in SUBSET (Ordinals \X Claims)
    BY <2>1, <2>2 DEF Missing, TypeOK
  <2>4. w' = Idle \/ w' \in FrameType
    BY <1>0, <2>1, <2>2 DEF FrameType, Requeue
  <2>5. queued' \in BOOLEAN
    BY <2>1 DEF TypeOK, Requeue
  <2> QED
    BY <1>2, <2>3, <2>4, <2>5 DEF CreateClaims, TypeOK, caches, budget
<1>3. CASE CreatePod
  <2> DEFINE o == w.next
             new == w.replicas[o]
             st == [Adjust(w, new.rev, 1) EXCEPT !.replicas = @ + 1]
  <2>1. \/ /\ PodBecomes(o, [new EXCEPT !.phase = "Pending"])
           /\ w' = [w EXCEPT !.pc = "pass", !.next = o + 1,
                             !.done = monotonic(w.view), !.status = st]
           /\ UNCHANGED queued
        \/ Requeue /\ UNCHANGED <<pods, events>>
    BY <1>3 DEF CreatePod
  <2>2. o \in Ordinals /\ o \in Nat /\ new.phase = "New" /\ new \in PodType
    BY <1>0, <1>3, StopsAtOrdinals DEF CreatePod, Creating, FrameType
  <2>3. [new EXCEPT !.phase = "Pending"] \in ApiPodType
    BY <2>2 DEF PodType, NoPod, ApiPodType
  <2>4. st \in StatusType
    <3>1. Adjust(w, new.rev, 1) \in StatusType
      BY <1>0, AdjustType
    <3> QED
      BY <3>1 DEF StatusType
  <2>5. monotonic(w.view) \in BOOLEAN
    BY DEF monotonic
  <2> HIDE DEF st
  <2>6. o + 1 \in Nat
    BY <2>2
  <2> HIDE DEF o, new
  <2>7. [w EXCEPT !.pc = "pass", !.next = o + 1,
                  !.done = monotonic(w.view), !.status = st] \in FrameType
    BY <1>0, <2>4, <2>5, <2>6 DEF FrameType
  <2>8. w' = Idle \/ w' \in FrameType
    BY <2>1, <2>7 DEF Requeue
  <2>9. pods' \in [Ordinals -> ApiPodType] /\ events' \subseteq {"set", "pods"}
    BY <2>1, <2>2, <2>3, PodBecomesType DEF TypeOK
  <2>10. queued' \in BOOLEAN
    BY <2>1 DEF TypeOK, Requeue
  <2> QED
    BY <1>3, <2>8, <2>9, <2>10 DEF CreatePod, TypeOK, caches, budget
<1>4. CASE UpdatePod
  <2>1. PICK o \in AtReplica(w) :
          \/ /\ exists(pods[o])
             /\ PodBecomes(o, [pods[o] EXCEPT !.labelled = TRUE])
             /\ w' = [w EXCEPT !.next = o + 1]
             /\ UNCHANGED queued
          \/ w' = [w EXCEPT !.next = o + 1] /\ UNCHANGED <<pods, events, queued>>
          \/ Requeue /\ UNCHANGED <<pods, events>>
    BY <1>4 DEF UpdatePod
  <2>2. o \in Ordinals /\ o \in Nat
    BY <1>0, StopsAtOrdinals
  <2>3. w' = Idle \/ w' \in FrameType
    <3>1. [w EXCEPT !.next = o + 1] \in FrameType
      BY <1>0, <2>2 DEF FrameType
    <3> QED
      BY <2>1, <3>1 DEF Requeue
  <2>4. pods' \in [Ordinals -> ApiPodType] /\ events' \subseteq {"set", "pods"}
    BY <2>1, <2>2, ApiPods, PodBecomesType DEF TypeOK
  <2>5. queued' \in BOOLEAN
    BY <2>1 DEF TypeOK, Requeue
  <2> QED
    BY <1>4, <2>3, <2>4, <2>5 DEF UpdatePod, TypeOK, caches, budget
<1>5. CASE DeleteCondemned
  <2>1. PICK o \in AtCondemned(w) :
          \/ /\ exists(pods[o])
             /\ DeletePod(o)
             /\ w' = [w EXCEPT !.condemned = @ \ {o}, !.done = monotonic(w.view),
                               !.status = Adjust(w, w.pods[o].rev, -1)]
             /\ UNCHANGED queued
          \/ Requeue /\ UNCHANGED <<pods, events>>
    BY <1>5 DEF DeleteCondemned
  <2>2. o \in Ordinals
    BY <1>0, StopsAtOrdinals
  <2>3. Adjust(w, w.pods[o].rev, -1) \in StatusType /\ monotonic(w.view) \in BOOLEAN
    BY <1>0, AdjustType DEF monotonic
  <2>4. w' = Idle \/ w' \in FrameType
    <3>1. [w EXCEPT !.condemned = @ \ {o}, !.done = monotonic(w.view),
                    !.status = Adjust(w, w.pods[o].rev, -1)] \in FrameType
      BY <1>0, <2>3 DEF FrameType
    <3> QED
      BY <2>1, <3>1 DEF Requeue
  <2>5. pods' \in [Ordinals -> ApiPodType] /\ events' \subseteq {"set", "pods"}
    BY <2>1, <2>2, ApiPods, PodBecomesType DEF DeletePod, TypeOK
  <2>6. queued' \in BOOLEAN
    BY <2>1 DEF TypeOK, Requeue
  <2> QED
    BY <1>5, <2>4, <2>5, <2>6 DEF DeleteCondemned, TypeOK, caches, budget
<1>6. CASE DeleteOutdated
  <2>1. PICK o \in AtUpdate(w) :
          \/ /\ exists(pods[o])
             /\ DeletePod(o)
             /\ w' = [w EXCEPT !.done = TRUE, !.status.currentReplicas = @ - 1]
             /\ UNCHANGED queued
          \/ Requeue /\ UNCHANGED <<pods, events>>
    BY <1>6 DEF DeleteOutdated
  <2>2. o \in Ordinals
    BY <1>0, StopsAtOrdinals
  <2>3. w' = Idle \/ w' \in FrameType
    <3>1. w.status \in StatusType
      BY <1>0 DEF FrameType
    <3>2. [w.status EXCEPT !.currentReplicas = @ - 1] \in StatusType
      BY <3>1 DEF StatusType
    <3>3. [w EXCEPT !.done = TRUE, !.status.currentReplicas = @ - 1] \in FrameType
      BY <1>0, <3>2 DEF FrameType
    <3> QED
      BY <2>1, <3>3 DEF Requeue
  <2>4. pods' \in [Ordinals -> ApiPodType] /\ events' \subseteq {"set", "pods"}
    BY <2>1, <2>2, ApiPods, PodBecomesType DEF DeletePod, TypeOK
  <2>5. queued' \in BOOLEAN
    BY <2>1 DEF TypeOK, Requeue
  <2> QED
    BY <1>6, <2>3, <2>4, <2>5 DEF DeleteOutdated, TypeOK, caches, budget
<1> QED
  BY <1>1, <1>2, <1>3, <1>4, <1>5, <1>6

\* The steps of the informers.
LEMMA TypeInformers ==
  ASSUME TypeOK, Informers
  PROVE  TypeOK'
BY DEF Informers, RefreshSet, RefreshPods, RefreshClaims, RefreshRevisions,
       TypeOK, api, budget

\* The steps of the kubelet and the garbage collector.
LEMMA TypeCluster ==
  ASSUME TypeOK, NEW o \in Ordinals, Cluster(o)
  PROVE  TypeOK'
<1>1. pods[o] \in ApiPodType
  BY DEF TypeOK
<1>2. pods' \in [Ordinals -> ApiPodType] /\ events' \subseteq {"set", "pods"}
  <2>1. CASE BecomeReady(o)
    BY <1>1, <2>1, ApiPods, PodBecomesType DEF BecomeReady, exists
  <2>2. CASE Terminated(o)
    BY <2>2, ApiPods, PodBecomesType DEF Terminated
  <2>3. CASE CollectPod(o)
    BY <1>1, <2>3, ApiPods, PodBecomesType DEF CollectPod, DeletePod
  <2> QED
    BY <2>1, <2>2, <2>3 DEF Cluster
<1> QED
  BY <1>2 DEF Cluster, BecomeReady, Terminated, CollectPod, TypeOK, caches, budget

\* The user's changes.
LEMMA TypeEdit ==
  ASSUME TypeOK, NEW s \in Specs, EditSet(s)
  PROVE  TypeOK'
<1>1. set' \in SetType /\ events' \subseteq {"set", "pods"}
  <2> DEFINE g == IF [s EXCEPT !.ann = Absent] = [set.spec EXCEPT !.ann = Absent]
                  THEN set.generation ELSE set.generation + 1
  <2>1. SetBecomes([set EXCEPT !.spec = s, !.generation = g])
    BY DEF EditSet
  <2>2. g \in Nat
    BY DEF TypeOK, SetType
  <2> HIDE DEF g
  <2>3. [set EXCEPT !.spec = s, !.generation = g] \in SetType
    BY <2>2 DEF TypeOK, SetType
  <2> QED
    BY <2>1, <2>3, SetBecomesType
<1>2. edits' \in 0 .. MaxEdits
  BY ControlAssumption DEF EditSet, TypeOK
<1> QED
  BY <1>1, <1>2 DEF EditSet, TypeOK, caches

\* The faults.
LEMMA TypeDisturb ==
  ASSUME TypeOK, Disturb
  PROVE  TypeOK'
<1>0. \A k : Fault(k) => faults' \in 0 .. MaxFaults /\ UNCHANGED edits
  BY ControlAssumption DEF Fault, TypeOK
<1>1. CASE SyncBreaks
  BY <1>0, <1>1 DEF SyncBreaks, Requeue, TypeOK, api, caches
<1>2. CASE ClaimFails
  <2>1. PICK o \in AtReplica(w) : \E made \in SUBSET Missing(o) :
          claims' = claims \union ({o} \X made)
    BY <1>2 DEF ClaimFails
  <2>2. o \in Ordinals
    BY <1>2, Running, StopsAtOrdinals DEF ClaimFails, InPass
  <2>3. claims' \in SUBSET (Ordinals \X Claims)
    BY <2>1, <2>2 DEF Missing, TypeOK
  <2> QED
    BY <1>0, <1>2, <2>3 DEF ClaimFails, Requeue, TypeOK, caches
<1>3. CASE DeleteSet
  <2>1. [set EXCEPT !.deleting = TRUE, !.generation = @ + 1] \in SetType
    <3>1. set \in SetType /\ set.generation + 1 \in Nat
      BY DEF TypeOK, SetType
    <3> QED
      BY <3>1 DEF SetType
  <2>2. set' \in SetType /\ events' \subseteq {"set", "pods"}
    BY <1>3, <2>1, SetBecomesType DEF DeleteSet
  <2> QED
    BY <1>0, <1>3, <2>2 DEF DeleteSet, TypeOK, caches
<1>4. ASSUME NEW o \in Ordinals,
             PodFails(o) \/ PodUnready(o) \/ DrainPod(o) \/ RelabelPod(o)
      PROVE  TypeOK'
  <2>1. pods[o] \in ApiPodType
    BY DEF TypeOK
  <2>2. pods' \in [Ordinals -> ApiPodType] /\ events' \subseteq {"set", "pods"}
    BY <1>4, <2>1, ApiPods, PodBecomesType
       DEF PodFails, PodUnready, DrainPod, RelabelPod, DeletePod, exists
  <2> QED
    BY <1>0, <1>4, <2>2
       DEF PodFails, PodUnready, DrainPod, RelabelPod, TypeOK, caches
<1>5. ASSUME NEW o \in Ordinals, DropClaim(o)
      PROVE  TypeOK'
  BY <1>0, <1>5 DEF DropClaim, TypeOK, caches
<1> QED
  BY <1>1, <1>2, <1>3, <1>4, <1>5 DEF Disturb

\* No step but CreateClaims makes a sync turn to creating a pod.
LEMMA TurnsToCreating ==
  ASSUME TypeOK, [Next]_vars, ~ CreateClaims
  PROVE  w' = w \/ w'.pc # "create"
<1>1. ASSUME Worker
      PROVE  w'.pc # "create"
  <2>1. \A f \in FrameType : StartPass(f).pc = "pass"
    BY DEF StartPass, FrameType
  <2>2. w.pc # "idle" => w \in FrameType
    BY Running
  <2>3. Idle.pc # "create"
    BY DEF Idle
  <2>4. CASE Sync
    BY <2>4 DEF Sync
  <2>5. CASE KeepRevision \/ RollBack \/ CreateRevision
    BY <2>1, <2>2, <2>3, <2>5 DEF KeepRevision, RollBack, CreateRevision, Requeue
  <2>6. CASE RecreateFailed
    BY <2>2, <2>3, <2>6 DEF RecreateFailed, Requeue, InPass, FrameType
  <2>7. CASE CreatePod
    BY <2>2, <2>3, <2>7 DEF CreatePod, Requeue, FrameType
  <2>8. CASE UpdatePod
    BY <2>2, <2>3, <2>8 DEF UpdatePod, Requeue, InPass, FrameType
  <2>9. CASE DeleteCondemned
    BY <2>2, <2>3, <2>9 DEF DeleteCondemned, Requeue, InPass, FrameType
  <2>10. CASE DeleteOutdated
    BY <2>2, <2>3, <2>10 DEF DeleteOutdated, Requeue, InPass, FrameType
  <2>11. CASE EndPass
    BY <2>2, <2>11 DEF EndPass, FrameType
  <2>12. CASE WriteStatus
    BY <2>2, <2>3, <2>12 DEF WriteStatus, Requeue, FrameType
  <2>13. CASE TruncateHistory
    BY <2>2, <2>3, <2>13 DEF TruncateHistory, Requeue, FrameType
  <2>14. CASE Finish
    BY <2>3, <2>14 DEF Finish
  <2> QED
    BY <1>1, <2>4, <2>5, <2>6, <2>7, <2>8, <2>9, <2>10, <2>11, <2>12, <2>13, <2>14
       DEF Worker
<1>2. ASSUME ~ Worker
      PROVE  w' = w \/ w' = Idle
  BY <1>2 DEF Next, vars, Informers, RefreshSet, RefreshPods, RefreshClaims,
       RefreshRevisions, Cluster, BecomeReady, Terminated, CollectPod, EditSet,
       Disturb, SyncBreaks, ClaimFails, DeleteSet, PodFails, PodUnready, DrainPod,
       RelabelPod, DropClaim, Requeue
<1>3. Idle.pc # "create"
  BY DEF Idle
<1> QED
  BY <1>1, <1>2, <1>3

\* The pod CreateClaims turns to is one that was built.
LEMMA CreatingStep ==
  ASSUME TypeOK, Creating, [Next]_vars
  PROVE  Creating'
<1>1. CASE CreateClaims
  <2>1. PICK o \in AtReplica(w) :
          /\ ~ isCreated(w.replicas[o])
          /\ w' = [w EXCEPT !.pc = "create", !.next = o] \/ w' = Idle
    BY <1>1 DEF CreateClaims, Requeue
  <2>2. w \in FrameType
    BY <1>1, Running DEF CreateClaims, InPass
  <2>3. o \in Ordinals /\ ~ Settled(w, o)
    BY <2>2 DEF AtReplica, Least
  <2>4. w.replicas[o].phase = "New"
    BY <2>1, <2>2, <2>3 DEF Settled, isCreated, FrameType, PodType
  <2>5. CASE w' = Idle
    BY <2>5 DEF Creating, Idle
  <2>6. CASE w' = [w EXCEPT !.pc = "create", !.next = o]
    <3>1. w'.next = o /\ w'.replicas = w.replicas
      BY <2>2, <2>6 DEF FrameType
    <3> QED
      BY <2>3, <2>4, <3>1 DEF Creating
  <2> QED
    BY <2>1, <2>5, <2>6
<1>2. CASE w' = w
  BY <1>2 DEF Creating
<1>3. CASE w'.pc # "create"
  BY <1>3 DEF Creating
<1> QED
  BY <1>1, <1>2, <1>3, TurnsToCreating

\* The type invariant and the fact about the pod being created are preserved.
LEMMA TypeStep ==
  ASSUME TypeOK, Creating, [Next]_vars
  PROVE  TypeOK'
<1>1. CASE Worker
  BY <1>1, TypeWorkerEnds, TypePass DEF Worker
<1>2. CASE Informers
  BY <1>2, TypeInformers
<1>3. CASE \E o \in Ordinals : Cluster(o)
  BY <1>3, TypeCluster
<1>4. CASE \E s \in Specs : EditSet(s)
  BY <1>4, TypeEdit
<1>5. CASE Disturb
  BY <1>5, TypeDisturb
<1>6. CASE UNCHANGED vars
  BY <1>6 DEF vars, TypeOK
<1> QED
  BY <1>1, <1>2, <1>3, <1>4, <1>5, <1>6 DEF Next

\* Every variable of the controller, the API server and the caches keeps its
\* type, whatever the bounds. In particular currentRevision and the revision
\* of every pod are never empty.
THEOREM TypeCorrect == Spec => []TypeOK
<1>1. Init => TypeOK /\ Creating
  <2>1. ASSUME w = Idle PROVE Creating
    BY <2>1 DEF Creating, Idle
  <2>2. Init => w = Idle
    BY DEF Init
  <2> QED
    BY <2>1, <2>2, TypeInit
<1>2. TypeOK /\ Creating /\ [Next]_vars => (TypeOK /\ Creating)'
  BY TypeStep, CreatingStep
<1> QED
  BY <1>1, <1>2, PTL DEF Spec

-----------------------------------------------------------------------------
(* The observed generation. The status is computed from the set a sync read *)
(* and may be written onto a newer one. The invariant orders the            *)
(* generations of the recorded status, the sync's copy, the cache and the   *)
(* truth, and says that copies of one generation have one template.         *)

\* What the sync under way knows of the set.
FrameGenerations ==
  /\ set.status.observedGeneration <= w.view.generation
  /\ w.view.generation <= setCache.generation
  /\ w.view.generation = set.generation
       => w.view.spec.template = set.spec.template
  /\ w.pc \in {"pass", "create", "status"} =>
       /\ w.status.observedGeneration = w.view.generation
       /\ w.status.updateRevision = w.view.spec.template

\* What the cache and the recorded status know of it.
CacheGenerations ==
  /\ set.status.observedGeneration <= setCache.generation
  /\ setCache.generation <= set.generation
  /\ setCache.generation = set.generation
       => setCache.spec.template = set.spec.template

Generations ==
  /\ CacheGenerations
  /\ w # Idle => FrameGenerations
  /\ ObservedGenerationHonest

\* Initially nothing has been observed and all generations agree.
LEMMA GenerationsInit ==
  Init => Generations
<1> SUFFICES ASSUME Init PROVE Generations
  OBVIOUS
<1>1. /\ set.generation = 1 /\ set.status.observedGeneration = 0
      /\ setCache = set /\ w = Idle
  BY DEF Init, NoStatus
<1> QED
  BY <1>1 DEF Generations, CacheGenerations, ObservedGenerationHonest

\* A step that leaves the set, its cache and what matters of the frame alone.
LEMMA GenerationsKept ==
  ASSUME Generations, UNCHANGED <<set, setCache>>,
         \/ w' = w
         \/ w' = Idle
         \/ /\ w # Idle /\ w'.view = w.view
            /\ w'.pc \in {"pass", "create", "status"} =>
                 /\ w'.status.observedGeneration = w.view.generation
                 /\ w'.status.updateRevision = w.view.spec.template
  PROVE  Generations'
BY DEF Generations, CacheGenerations, FrameGenerations, ObservedGenerationHonest

\* The worker, but for its first step and for the write of the status.
LEMMA GenerationsFrame ==
  ASSUME TypeOK, Generations, Worker, ~ Sync, ~ WriteStatus
  PROVE  Generations'
<1>1. UNCHANGED <<set, setCache>>
  BY DEF Worker, KeepRevision, RollBack, CreateRevision, RecreateFailed,
         CreateClaims, CreatePod, UpdatePod, DeleteCondemned, DeleteOutdated,
         EndPass, TruncateHistory, Finish, api, caches
<1>2. w \in FrameType /\ w # Idle
  <2>1. w.pc \in {"revisions", "pass", "create", "truncate"}
    BY DEF Worker, KeepRevision, RollBack, CreateRevision, RecreateFailed,
           CreateClaims, CreatePod, UpdatePod, DeleteCondemned, DeleteOutdated,
           EndPass, TruncateHistory, Finish, InPass
  <2>2. w # Idle
    BY <2>1 DEF Idle
  <2> QED
    BY <2>2 DEF TypeOK
<1>3. /\ w.pc \in {"pass", "create", "status"} =>
           /\ w.status.observedGeneration = w.view.generation
           /\ w.status.updateRevision = w.view.spec.template
      /\ w.status \in StatusType
  BY <1>2 DEF Generations, FrameGenerations, FrameType
<1> DEFINE Same(st) == /\ st.observedGeneration = w.view.generation
                       /\ st.updateRevision = w.view.spec.template
           Goal == \/ w' = Idle
                   \/ /\ w'.view = w.view
                      /\ w'.pc \in {"pass", "create", "status"} => Same(w'.status)
<1>4. CASE KeepRevision \/ RollBack \/ CreateRevision
  <2>1. StartPass(w).view = w.view /\ StartPass(w).status = CountStatus(w, currentRevision(w))
    BY <1>2 DEF StartPass, FrameType
  <2>2. Same(CountStatus(w, currentRevision(w)))
    BY DEF CountStatus, upd
  <2>3. w' = Idle \/ w' = StartPass(w)
    BY <1>4 DEF KeepRevision, RollBack, CreateRevision, Requeue
  <2>4. Goal
    BY <2>1, <2>2, <2>3
  <2> QED
    BY <1>1, <1>2, <2>4, GenerationsKept
<1>5. CASE RecreateFailed
  <2>1. PICK o \in AtReplica(w) :
          \/ w' = [w EXCEPT
                     !.replicas[o] = newVersionedStatefulSetPod(w.view, w.cur, o),
                     !.status = [Adjust(w, w.replicas[o].rev, -1)
                                   EXCEPT !.replicas = @ - 1]]
          \/ w' = Idle
    BY <1>5 DEF RecreateFailed, Requeue
  <2> DEFINE st == [Adjust(w, w.replicas[o].rev, -1) EXCEPT !.replicas = @ - 1]
  <2>2. w.pc = "pass"
    BY <1>5 DEF RecreateFailed, InPass
  <2>3. Same(st)
    BY <1>2, <1>3, <2>2, AdjustType DEF StatusType
  <2>4. w' = Idle \/ (w'.view = w.view /\ w'.status = st)
    BY <1>2, <2>1 DEF FrameType
  <2>5. Goal
    BY <2>3, <2>4
  <2> QED
    BY <1>1, <1>2, <2>5, GenerationsKept
<1>6. CASE CreateClaims \/ UpdatePod
  <2>1. w.pc = "pass"
    BY <1>6 DEF CreateClaims, UpdatePod, InPass
  <2>2. w' = Idle \/ (w'.view = w.view /\ w'.status = w.status)
    BY <1>2, <1>6 DEF CreateClaims, UpdatePod, Requeue, FrameType
  <2>3. Goal
    BY <1>3, <2>1, <2>2
  <2> QED
    BY <1>1, <1>2, <2>3, GenerationsKept
<1>7. CASE CreatePod
  <2> DEFINE st == [Adjust(w, w.replicas[w.next].rev, 1) EXCEPT !.replicas = @ + 1]
  <2>1. Same(st)
    BY <1>2, <1>3, <1>7, AdjustType DEF StatusType, CreatePod
  <2>2. w' = Idle \/ (w'.view = w.view /\ w'.status = st)
    BY <1>2, <1>7 DEF CreatePod, Requeue, FrameType
  <2>3. Goal
    BY <2>1, <2>2
  <2> QED
    BY <1>1, <1>2, <2>3, GenerationsKept
<1>8. CASE DeleteCondemned
  <2>1. PICK o \in AtCondemned(w) :
          \/ w' = [w EXCEPT !.condemned = @ \ {o}, !.done = monotonic(w.view),
                            !.status = Adjust(w, w.pods[o].rev, -1)]
          \/ w' = Idle
    BY <1>8 DEF DeleteCondemned, Requeue
  <2>2. w.pc = "pass"
    BY <1>8 DEF DeleteCondemned, InPass
  <2>3. Same(Adjust(w, w.pods[o].rev, -1))
    BY <1>2, <1>3, <2>2, AdjustType
  <2>4. w' = Idle \/ (w'.view = w.view /\ w'.status = Adjust(w, w.pods[o].rev, -1))
    BY <1>2, <2>1 DEF FrameType
  <2>5. Goal
    BY <2>3, <2>4
  <2> QED
    BY <1>1, <1>2, <2>5, GenerationsKept
<1>9. CASE DeleteOutdated
  <2>1. w.pc = "pass"
    BY <1>9 DEF DeleteOutdated, InPass
  <2>2. w' = Idle \/ w' = [w EXCEPT !.done = TRUE, !.status.currentReplicas = @ - 1]
    BY <1>9 DEF DeleteOutdated, Requeue
  <2>3. \/ w' = Idle
        \/ /\ w'.view = w.view
           /\ w'.status.observedGeneration = w.status.observedGeneration
           /\ w'.status.updateRevision = w.status.updateRevision
    <3>1. [w EXCEPT !.done = TRUE, !.status.currentReplicas = @ - 1].view = w.view
      BY <1>2 DEF FrameType
    <3>2. [w EXCEPT !.done = TRUE, !.status.currentReplicas = @ - 1].status
            = [w.status EXCEPT !.currentReplicas = @ - 1]
      BY <1>2 DEF FrameType
    <3>3. /\ [w.status EXCEPT !.currentReplicas = @ - 1].observedGeneration
               = w.status.observedGeneration
          /\ [w.status EXCEPT !.currentReplicas = @ - 1].updateRevision
               = w.status.updateRevision
      BY <1>3 DEF StatusType
    <3> QED
      BY <2>2, <3>1, <3>2, <3>3
  <2>4. Goal
    BY <1>3, <2>1, <2>3
  <2> QED
    BY <1>1, <1>2, <2>4, GenerationsKept
<1>10. CASE EndPass
  <2> DEFINE st == completeRollingUpdate(w.view, w.status)
  <2>1. w.pc = "pass"
    BY <1>10 DEF EndPass
  <2>2. Same(st)
    BY <1>3, <2>1 DEF completeRollingUpdate, StatusType
  <2>3. w'.view = w.view /\ w'.status = st
    BY <1>2, <1>10 DEF EndPass, FrameType
  <2>4. Goal
    BY <2>2, <2>3
  <2> QED
    BY <1>1, <1>2, <2>4, GenerationsKept
<1>11. CASE TruncateHistory \/ Finish
  <2>1. w' = Idle \/ (w'.view = w.view /\ w'.pc = "truncate")
    BY <1>2, <1>11 DEF TruncateHistory, Finish, Requeue, FrameType
  <2>2. Goal
    BY <2>1
  <2> QED
    BY <1>1, <1>2, <2>2, GenerationsKept
<1> QED
  BY <1>4, <1>5, <1>6, <1>7, <1>8, <1>9, <1>10, <1>11 DEF Worker

\* The steps that change the set, its cache, or start a sync, and the rest.
LEMMA GenerationsStep ==
  ASSUME TypeOK, Generations, [Next]_vars
  PROVE  Generations'
<1> USE DEF Generations, CacheGenerations, FrameGenerations, ObservedGenerationHonest
<1>0. /\ set \in SetType /\ setCache \in SetType
      /\ set.generation \in Nat /\ setCache.generation \in Nat
      /\ set.status.observedGeneration \in Nat
  BY DEF TypeOK, SetType, StatusType
<1>1. CASE Sync
  <2>1. /\ w'.view = setCache /\ w'.pc = "revisions"
        /\ UNCHANGED <<set, setCache>>
    BY <1>1 DEF Sync, api, caches
  <2> QED
    BY <1>0, <2>1
<1>2. CASE WriteStatus
  <2>1. w \in FrameType /\ w.pc = "status" /\ w # Idle
    BY <1>2, Running DEF WriteStatus, Idle
  <2>2. w.view.generation \in Nat
    BY <2>1 DEF FrameType, SetType
  <2>3. CASE w' = Idle /\ UNCHANGED <<set, setCache>>
    BY <2>3, GenerationsKept
  <2>4. CASE /\ set' = [set EXCEPT !.status = w.status]
             /\ w' = [w EXCEPT !.pc = "truncate"]
             /\ UNCHANGED setCache
    <3>1. /\ set'.status = w.status /\ set'.generation = set.generation
          /\ set'.spec = set.spec
      BY <1>0, <2>4 DEF SetType
    <3>2. w'.view = w.view /\ w'.pc = "truncate"
      BY <2>1, <2>4 DEF FrameType
    <3> QED
      BY <1>0, <2>1, <2>2, <2>4, <3>1, <3>2
  <2> QED
    BY <1>2, <2>3, <2>4 DEF WriteStatus, SetBecomes, Requeue, caches
<1>3. CASE Worker /\ ~ Sync /\ ~ WriteStatus
  BY <1>3, GenerationsFrame
<1>4. CASE RefreshSet
  <2>1. setCache' = set /\ UNCHANGED <<set, w>>
    BY <1>4 DEF RefreshSet
  <2>2. w # Idle => w.view.generation \in Nat
    BY DEF TypeOK, FrameType, SetType
  <2> QED
    BY <1>0, <2>1, <2>2
<1>5. ASSUME NEW s \in Specs, EditSet(s) PROVE Generations'
  <2>1. /\ set'.status = set.status
        /\ \/ set'.generation = set.generation /\ set'.spec.template = set.spec.template
           \/ set'.generation = set.generation + 1
    <3> DEFINE same == [s EXCEPT !.ann = Absent] = [set.spec EXCEPT !.ann = Absent]
    <3>1. set' = [set EXCEPT !.spec = s,
                    !.generation = IF same THEN set.generation ELSE set.generation + 1]
      BY <1>5 DEF EditSet, SetBecomes
    <3>2. same => s.template = set.spec.template
      <4>1. s \in SpecType /\ set.spec \in SpecType
        BY <1>0, ControlAssumption DEF SetType
      <4>2. /\ [s EXCEPT !.ann = Absent].template = s.template
            /\ [set.spec EXCEPT !.ann = Absent].template = set.spec.template
        BY <4>1 DEF SpecType
      <4> QED
        BY <4>2
    <3> HIDE DEF same
    <3> QED
      BY <1>0, <3>1, <3>2 DEF SetType
  <2>2. UNCHANGED <<setCache, w>>
    BY <1>5 DEF EditSet, caches
  <2>3. w # Idle => w.view.generation \in Nat
    BY DEF TypeOK, FrameType, SetType
  <2> QED
    BY <1>0, <2>1, <2>2, <2>3
<1>6. CASE DeleteSet
  <2>1. set'.status = set.status /\ set'.generation = set.generation + 1
    BY <1>0, <1>6 DEF DeleteSet, SetBecomes, SetType
  <2>2. UNCHANGED <<setCache, w>>
    BY <1>6 DEF DeleteSet, caches
  <2>3. w # Idle => w.view.generation \in Nat
    BY DEF TypeOK, FrameType, SetType
  <2> QED
    BY <1>0, <2>1, <2>2, <2>3
<1>7. CASE UNCHANGED <<set, setCache>> /\ (w' = w \/ w' = Idle)
  BY <1>7, GenerationsKept
<1>8. ASSUME ~ Worker, ~ RefreshSet, ~ DeleteSet, ~ \E s \in Specs : EditSet(s)
      PROVE  UNCHANGED <<set, setCache>> /\ (w' = w \/ w' = Idle)
  BY <1>8 DEF Next, vars, Informers, RefreshPods, RefreshClaims,
       RefreshRevisions, Cluster, BecomeReady, Terminated, CollectPod,
       Disturb, SyncBreaks, ClaimFails, PodFails, PodUnready, DrainPod,
       RelabelPod, DropClaim, Requeue, api, caches
<1> QED
  BY <1>1, <1>2, <1>3, <1>4, <1>5, <1>6, <1>7, <1>8

\* Whoever waits until observedGeneration has reached the generation of the
\* set reads a status that is about the set's present template, although
\* syncs run on stale copies and UpdateStatefulSetStatus retries onto newer
\* ones.
THEOREM ObservedGenerationTrusted == Spec => []ObservedGenerationHonest
<1>1. Init => TypeOK /\ Creating /\ Generations
  <2>1. ASSUME w = Idle PROVE Creating
    BY <2>1 DEF Creating, Idle
  <2>2. Init => w = Idle
    BY DEF Init
  <2> QED
    BY <2>1, <2>2, TypeInit, GenerationsInit
<1>2. TypeOK /\ Creating /\ Generations /\ [Next]_vars => (TypeOK /\ Creating /\ Generations)'
  BY TypeStep, CreatingStep, GenerationsStep
<1>3. Generations => ObservedGenerationHonest
  BY DEF Generations
<1> QED
  BY <1>1, <1>2, <1>3, PTL DEF Spec

-----------------------------------------------------------------------------
(* Claims. As long as nobody deletes a claim, the cache shows no claim that *)
(* is gone, so what createPersistentVolumeClaims sees or makes is there.    *)

\* The claims of the pod a sync is about to create are there.
CreatingHasClaims == w.pc = "create" => {w.next} \X Claims \subseteq claims

ClaimsInv ==
  /\ claimCache \subseteq claims
  /\ CreatingHasClaims
  /\ PodsHaveClaims

\* A step that makes no new pod, drops no claim and does not turn to creating.
LEMMA ClaimsKept ==
  ASSUME ClaimsInv, claims \subseteq claims', claimCache' \subseteq claims',
         w' = w \/ w'.pc # "create",
         \A o \in Ordinals : exists(pods'[o]) => exists(pods[o])
  PROVE  ClaimsInv'
BY DEF ClaimsInv, CreatingHasClaims, PodsHaveClaims

\* A pod that exists, or is removed, is no new pod.
LEMMA NoNewPod ==
  ASSUME TypeOK, NEW o \in Ordinals, NEW p, PodBecomes(o, p),
         exists(pods[o]) \/ p = NoPod
  PROVE  \A x \in Ordinals : exists(pods'[x]) => exists(pods[x])
BY DEF PodBecomes, TypeOK, exists, NoPod

\* Steps other than CreateClaims and CreatePod make no pod and drop no claim.
LEMMA NoNewPodStep ==
  ASSUME TypeOK, [Next]_vars, ~ CreatePod
  PROVE  \A x \in Ordinals : exists(pods'[x]) => exists(pods[x])
<1>0. w.pc # "idle" => w \in FrameType
  BY Running
<1>1. CASE RecreateFailed \/ UpdatePod
  <2>1. w \in FrameType
    BY <1>0, <1>1 DEF RecreateFailed, UpdatePod, InPass
  <2>2. AtReplica(w) \subseteq Ordinals
    BY <2>1, StopsAtOrdinals
  <2> QED
    BY <1>1, <2>2, NoNewPod DEF RecreateFailed, UpdatePod, DeletePod
<1>2. CASE DeleteCondemned \/ DeleteOutdated
  <2>1. w \in FrameType
    BY <1>0, <1>2 DEF DeleteCondemned, DeleteOutdated, InPass
  <2>2. AtCondemned(w) \subseteq Ordinals /\ AtUpdate(w) \subseteq Ordinals
    BY <2>1, StopsAtOrdinals
  <2> QED
    BY <1>2, <2>2, NoNewPod DEF DeleteCondemned, DeleteOutdated, DeletePod
<1>3. ASSUME NEW o \in Ordinals, Cluster(o)
      PROVE  \A x \in Ordinals : exists(pods'[x]) => exists(pods[x])
  BY <1>3, NoNewPod DEF Cluster, BecomeReady, Terminated, CollectPod, DeletePod, exists
<1>4. ASSUME NEW o \in Ordinals,
             PodFails(o) \/ PodUnready(o) \/ DrainPod(o) \/ RelabelPod(o)
      PROVE  \A x \in Ordinals : exists(pods'[x]) => exists(pods[x])
  BY <1>4, NoNewPod DEF PodFails, PodUnready, DrainPod, RelabelPod, DeletePod, exists
<1>5. CASE UNCHANGED pods
  BY <1>5
<1>6. ASSUME Worker, ~ RecreateFailed, ~ UpdatePod, ~ DeleteCondemned, ~ DeleteOutdated
      PROVE  UNCHANGED pods
  BY <1>6 DEF Worker, Sync, KeepRevision, RollBack, CreateRevision, CreateClaims,
       EndPass, WriteStatus, TruncateHistory, Finish, api
<1>7. Informers \/ (\E s \in Specs : EditSet(s)) \/ SyncBreaks \/ ClaimFails \/ DeleteSet
        \/ (\E o \in Ordinals : DropClaim(o)) \/ UNCHANGED vars
      => UNCHANGED pods
  BY DEF Informers, RefreshSet, RefreshPods, RefreshClaims, RefreshRevisions,
       EditSet, SyncBreaks, ClaimFails, DeleteSet, DropClaim, vars, api
<1> QED
  BY <1>1, <1>2, <1>3, <1>4, <1>5, <1>6, <1>7 DEF Next, Disturb

\* Every step keeps the claims of existing pods and of the one being created.
LEMMA ClaimsStep ==
  ASSUME "dropClaim" \notin Faults, TypeOK, Creating, ClaimsInv, [Next]_vars
  PROVE  ClaimsInv'
<1>1. CASE CreateClaims
  <2>1. PICK o \in AtReplica(w) :
          /\ claims' = claims \union ({o} \X Missing(o))
          /\ w' = [w EXCEPT !.pc = "create", !.next = o] \/ w' = Idle
    BY <1>1 DEF CreateClaims, Requeue
  <2>2. UNCHANGED <<pods, claimCache>>
    BY <1>1 DEF CreateClaims, caches
  <2>3. {o} \X Claims \subseteq claims'
    BY <2>1 DEF Missing, ClaimsInv
  <2>4. CreatingHasClaims'
    <3>1. CASE w' = Idle
      BY <3>1 DEF CreatingHasClaims, Idle
    <3>2. CASE w' = [w EXCEPT !.pc = "create", !.next = o]
      <4>1. w \in FrameType
        BY <1>1, Running DEF CreateClaims, InPass
      <4>2. w'.next = o
        BY <3>2, <4>1 DEF FrameType
      <4> QED
        BY <2>3, <4>2 DEF CreatingHasClaims
    <3> QED
      BY <2>1, <3>1, <3>2
  <2> QED
    BY <2>1, <2>2, <2>4 DEF ClaimsInv, PodsHaveClaims
<1>2. CASE CreatePod
  <2>1. w \in FrameType /\ w.next \in Ordinals
    BY <1>2, Running DEF CreatePod, Creating
  <2>2. w'.pc # "create"
    <3>1. Idle.pc # "create"
      BY DEF Idle
    <3> QED
      BY <1>2, <2>1, <3>1 DEF CreatePod, Requeue, FrameType
  <2>3. UNCHANGED <<claims, claimCache>>
    BY <1>2 DEF CreatePod, caches
  <2>4. PodsHaveClaims'
    <3>1. \A x \in Ordinals \ {w.next} : pods'[x] = pods[x]
      BY <1>2, <2>1 DEF CreatePod, PodBecomes, TypeOK
    <3>2. {w.next} \X Claims \subseteq claims
      BY <1>2 DEF ClaimsInv, CreatingHasClaims, CreatePod
    <3> QED
      BY <2>1, <2>3, <3>1, <3>2 DEF PodsHaveClaims, ClaimsInv
  <2> QED
    BY <2>2, <2>3, <2>4 DEF ClaimsInv, CreatingHasClaims
<1>3. CASE RefreshClaims
  <2>1. claimCache' = claims /\ UNCHANGED <<claims, w, pods>>
    BY <1>3 DEF RefreshClaims, api
  <2> QED
    BY <2>1, ClaimsKept
<1>4. CASE ~ CreateClaims /\ ~ CreatePod /\ ~ RefreshClaims
  <2>1. claims \subseteq claims' /\ UNCHANGED claimCache
    BY <1>4 DEF Next, vars, Worker, Sync, KeepRevision, RollBack, CreateRevision,
         RecreateFailed, UpdatePod, DeleteCondemned, DeleteOutdated, EndPass,
         WriteStatus, TruncateHistory, Finish, Informers, RefreshSet, RefreshPods,
         RefreshRevisions, Cluster, BecomeReady, Terminated, CollectPod, EditSet,
         Disturb, SyncBreaks, ClaimFails, DeleteSet, PodFails, PodUnready, DrainPod,
         RelabelPod, DropClaim, Fault, api, caches
  <2>2. w' = w \/ w'.pc # "create"
    BY <1>4, TurnsToCreating
  <2>3. \A x \in Ordinals : exists(pods'[x]) => exists(pods[x])
    BY <1>4, NoNewPodStep
  <2>4. claimCache' \subseteq claims'
    BY <2>1 DEF ClaimsInv
  <2> QED
    BY <2>1, <2>2, <2>3, <2>4, ClaimsKept
<1> QED
  BY <1>1, <1>2, <1>3, <1>4

\* A pod never exists without its claims, however stale the claim cache and
\* whatever fails on the way, as long as no claim is deleted.
THEOREM ClaimsBeforePods ==
  ASSUME "dropClaim" \notin Faults
  PROVE  Spec => []PodsHaveClaims
<1>1. Init => TypeOK /\ Creating /\ ClaimsInv
  <2>1. ASSUME w = Idle PROVE Creating /\ CreatingHasClaims
    BY <2>1 DEF Creating, CreatingHasClaims, Idle
  <2>2. Init => w = Idle /\ claimCache \subseteq claims /\ PodsHaveClaims
    BY DEF Init, PodsHaveClaims, exists, NoPod
  <2> QED
    BY <2>1, <2>2, TypeInit DEF ClaimsInv
<1>2. TypeOK /\ Creating /\ ClaimsInv /\ [Next]_vars => (TypeOK /\ Creating /\ ClaimsInv)'
  BY TypeStep, CreatingStep, ClaimsStep
<1>3. ClaimsInv => PodsHaveClaims
  BY DEF ClaimsInv
<1> QED
  BY <1>1, <1>2, <1>3, PTL DEF Spec
=============================================================================
