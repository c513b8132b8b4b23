----------------------- MODULE StatefulSetOrderProofs -----------------------
(***************************************************************************)
(* The order in which a StatefulSet creates, updates and removes its pods. *)
(* A pass decides on the pods it listed when the sync started and acts on  *)
(* the pods there are. The first half says what a pass has seen when it    *)
(* acts, whatever the caches and the cluster do. The second half says what *)
(* that listing, however old, still tells of the pods there are.           *)
(***************************************************************************)
EXTENDS StatefulSetQuietProofs

-----------------------------------------------------------------------------
(* What the calls of a pass do to its frame and to the pods. *)

\* A step of the pass keeps what the sync has read.
StaysInPass ==
  /\ w'.pc = "pass"
  /\ w'.view = w.view /\ w'.pods = w.pods /\ w'.cur = w.cur

\* Nobody but the pass changes the pods, and it breaks off.
BreaksOff == w' = Idle /\ UNCHANGED pods

\* A pass that makes a call is not over.
LEMMA StillRunning ==
  ASSUME TypeOK, InPass
  PROVE  /\ w \in FrameType /\ w.pc = "pass" /\ ~ w.done /\ ~ w.view.deleting
         /\ \A o \in AtReplica(w) : ~ MustWaitFor(w, o)
         /\ \A o \in AtCondemned(w) : ~ MustSpare(w, o)
         /\ \/ AtReplica(w) # {} \/ AtCondemned(w) # {}
            \/ \E o \in AtUpdate(w) : Outdated(w, o)
BY Running DEF InPass, PassOver

\* The failed replica goes and its slot is filled.
LEMMA Recreates ==
  ASSUME TypeOK, RecreateFailed
  PROVE  \/ BreaksOff
         \/ \E o \in AtReplica(w) :
              /\ o \in Ordinals /\ isFailed(w.replicas[o]) /\ exists(pods[o])
              /\ pods' = [pods EXCEPT ![o] = ApiDelete(pods[o])]
              /\ StaysInPass
              /\ w'.next = w.next /\ w'.done = w.done /\ w'.condemned = w.condemned
              /\ w'.replicas = [w.replicas EXCEPT
                                  ![o] = newVersionedStatefulSetPod(w.view, w.cur, o)]
              /\ w'.status.replicas = w.status.replicas - 1
              /\ w'.status.updatedReplicas = w.status.updatedReplicas
                   - (IF w.replicas[o].rev = upd(w) THEN 1 ELSE 0)
<1>1. w \in FrameType /\ w.pc = "pass"
  BY StillRunning DEF RecreateFailed
<1>2. CASE w' = Idle /\ UNCHANGED pods
  BY <1>2 DEF BreaksOff
<1>3. ASSUME NEW o \in AtReplica(w), isFailed(w.replicas[o]), exists(pods[o]), DeletePod(o),
             w' = [w EXCEPT !.replicas[o] = newVersionedStatefulSetPod(w.view, w.cur, o),
                            !.status = [Adjust(w, w.replicas[o].rev, -1)
                                          EXCEPT !.replicas = @ - 1]]
      PROVE  \E x \in AtReplica(w) :
              /\ x \in Ordinals /\ isFailed(w.replicas[x]) /\ exists(pods[x])
              /\ pods' = [pods EXCEPT ![x] = ApiDelete(pods[x])]
              /\ StaysInPass
              /\ w'.next = w.next /\ w'.done = w.done /\ w'.condemned = w.condemned
              /\ w'.replicas = [w.replicas EXCEPT
                                  ![x] = newVersionedStatefulSetPod(w.view, w.cur, x)]
              /\ w'.status.replicas = w.status.replicas - 1
              /\ w'.status.updatedReplicas = w.status.updatedReplicas
                   - (IF w.replicas[x].rev = upd(w) THEN 1 ELSE 0)
  <2>1. o \in Ordinals
    BY <1>1, StopsAtOrdinals
  <2>2. PICK st : st = [Adjust(w, w.replicas[o].rev, -1) EXCEPT !.replicas = @ - 1]
    OBVIOUS
  <2>3. w.status \in StatusType
    BY <1>1 DEF FrameType
  <2>4. /\ st.replicas = w.status.replicas - 1
        /\ st.updatedReplicas = w.status.updatedReplicas
             - (IF w.replicas[o].rev = upd(w) THEN 1 ELSE 0)
    BY <2>2, <2>3 DEF Adjust, StatusType
  <2>5. w' = [w EXCEPT !.replicas[o] = newVersionedStatefulSetPod(w.view, w.cur, o),
                       !.status = st]
    BY <1>3, <2>2
  <2>6. /\ w'.pc = "pass" /\ w'.view = w.view /\ w'.pods = w.pods /\ w'.cur = w.cur
        /\ w'.next = w.next /\ w'.done = w.done /\ w'.condemned = w.condemned
        /\ w'.replicas = [w.replicas EXCEPT
                            ![o] = newVersionedStatefulSetPod(w.view, w.cur, o)]
        /\ w'.status = st
    BY <1>1, <2>1, <2>5 DEF FrameType
  <2> QED
    BY <1>3, <2>1, <2>4, <2>6 DEF StaysInPass, DeletePod, PodBecomes
<1> QED
  BY <1>2, <1>3 DEF RecreateFailed, Requeue

\* The pass turns to the pod that it is about to create.
LEMMA TurnsToCreate ==
  ASSUME TypeOK, CreateClaims
  PROVE  \/ BreaksOff
         \/ \E o \in AtReplica(w) :
              /\ o \in Ordinals /\ ~ isCreated(w.replicas[o])
              /\ UNCHANGED pods
              /\ w' = [w EXCEPT !.pc = "create", !.next = o]
              /\ w'.pc = "create" /\ w'.next = o /\ w'.done = w.done
              /\ w'.view = w.view /\ w'.pods = w.pods /\ w'.cur = w.cur
              /\ w'.replicas = w.replicas /\ w'.condemned = w.condemned
              /\ w'.status = w.status
<1>1. w \in FrameType /\ w.pc = "pass"
  BY StillRunning DEF CreateClaims
<1>2. UNCHANGED pods
  BY DEF CreateClaims
<1>3. \/ w' = Idle
      \/ \E o \in AtReplica(w) :
           ~ isCreated(w.replicas[o]) /\ w' = [w EXCEPT !.pc = "create", !.next = o]
  BY DEF CreateClaims, Requeue
<1>4. \A o \in AtReplica(w) : o \in Ordinals
  BY <1>1, StopsAtOrdinals
<1> QED
  BY <1>1, <1>2, <1>3, <1>4 DEF FrameType, BreaksOff

\* The pod is created and counted.
LEMMA Creates ==
  ASSUME TypeOK, Creating, CreatePod
  PROVE  \/ BreaksOff
         \/ /\ w \in FrameType /\ w.pc = "create"
            /\ w.next \in Ordinals /\ w.replicas[w.next].phase = "New"
            /\ ~ exists(pods[w.next])
            /\ pods' = [pods EXCEPT ![w.next] =
                          [w.replicas[w.next] EXCEPT !.phase = "Pending"]]
            /\ StaysInPass
            /\ w'.next = w.next + 1 /\ w'.done = monotonic(w.view)
            /\ w'.replicas = w.replicas /\ w'.condemned = w.condemned
            /\ w'.status.replicas = w.status.replicas + 1
            /\ w'.status.readyReplicas = w.status.readyReplicas
            /\ w'.status.updatedReplicas = w.status.updatedReplicas
                 + (IF w.replicas[w.next].rev = upd(w) THEN 1 ELSE 0)
<1>1. w \in FrameType /\ w.pc = "create"
  BY Running DEF CreatePod
<1>2. w.next \in Ordinals /\ w.replicas[w.next].phase = "New"
  BY <1>1 DEF Creating
<1>3. CASE w' = Idle /\ UNCHANGED pods
  BY <1>3 DEF BreaksOff
<1>4. ASSUME ~ exists(pods[w.next]),
             PodBecomes(w.next, [w.replicas[w.next] EXCEPT !.phase = "Pending"]),
             w' = [w EXCEPT !.pc = "pass", !.next = w.next + 1,
                            !.done = monotonic(w.view),
                            !.status = [Adjust(w, w.replicas[w.next].rev, 1)
                                          EXCEPT !.replicas = @ + 1]]
      PROVE  /\ StaysInPass
             /\ w'.next = w.next + 1 /\ w'.done = monotonic(w.view)
             /\ w'.replicas = w.replicas /\ w'.condemned = w.condemned
             /\ w'.status.replicas = w.status.replicas + 1
             /\ w'.status.readyReplicas = w.status.readyReplicas
             /\ w'.status.updatedReplicas = w.status.updatedReplicas
                  + (IF w.replicas[w.next].rev = upd(w) THEN 1 ELSE 0)
  <2>1. PICK st : st = [Adjust(w, w.replicas[w.next].rev, 1) EXCEPT !.replicas = @ + 1]
    OBVIOUS
  <2>2. w.status \in StatusType
    BY <1>1 DEF FrameType
  <2>3. /\ st.replicas = w.status.replicas + 1
        /\ st.readyReplicas = w.status.readyReplicas
        /\ st.updatedReplicas = w.status.updatedReplicas
             + (IF w.replicas[w.next].rev = upd(w) THEN 1 ELSE 0)
    BY <2>1, <2>2 DEF Adjust, StatusType
  <2>4. PICK d : d = monotonic(w.view)
    OBVIOUS
  <2>5. w' = [w EXCEPT !.pc = "pass", !.next = w.next + 1, !.done = d, !.status = st]
    BY <1>4, <2>1, <2>4
  <2>6. /\ w'.pc = "pass" /\ w'.view = w.view /\ w'.pods = w.pods /\ w'.cur = w.cur
        /\ w'.next = w.next + 1 /\ w'.done = d
        /\ w'.replicas = w.replicas /\ w'.condemned = w.condemned /\ w'.status = st
    BY <1>1, <2>5 DEF FrameType
  <2> QED
    BY <2>3, <2>4, <2>6 DEF StaysInPass
<1>5. \/ w' = Idle /\ UNCHANGED pods
      \/ /\ ~ exists(pods[w.next])
         /\ PodBecomes(w.next, [w.replicas[w.next] EXCEPT !.phase = "Pending"])
         /\ w' = [w EXCEPT !.pc = "pass", !.next = w.next + 1,
                           !.done = monotonic(w.view),
                           !.status = [Adjust(w, w.replicas[w.next].rev, 1)
                                         EXCEPT !.replicas = @ + 1]]
  BY DEF CreatePod, Requeue
<1> QED
  BY <1>1, <1>2, <1>3, <1>4, <1>5 DEF PodBecomes

\* The label is restored, or in order, and the loop goes past the replica.
LEMMA Relabels ==
  ASSUME TypeOK, UpdatePod
  PROVE  \/ BreaksOff
         \/ \E o \in AtReplica(w) :
              /\ o \in Ordinals
              /\ isCreated(w.replicas[o]) /\ ~ isFailed(w.replicas[o]) /\ exists(pods[o])
              /\ \/ UNCHANGED pods
                 \/ pods' = [pods EXCEPT ![o] = [pods[o] EXCEPT !.labelled = TRUE]]
              /\ StaysInPass
              /\ w'.next = o + 1 /\ w'.done = w.done
              /\ w'.replicas = w.replicas /\ w'.condemned = w.condemned
              /\ w'.status = w.status
<1>1. w \in FrameType /\ w.pc = "pass"
  BY StillRunning DEF UpdatePod
<1>2. \/ w' = Idle /\ UNCHANGED pods
      \/ \E o \in AtReplica(w) :
           /\ isCreated(w.replicas[o]) /\ ~ isFailed(w.replicas[o]) /\ exists(pods[o])
           /\ \/ UNCHANGED pods
              \/ pods' = [pods EXCEPT ![o] = [pods[o] EXCEPT !.labelled = TRUE]]
           /\ w' = [w EXCEPT !.next = o + 1]
  BY DEF UpdatePod, Requeue, PodBecomes
<1>3. \A o \in AtReplica(w) : o \in Ordinals
  BY <1>1, StopsAtOrdinals
<1> QED
  BY <1>1, <1>2, <1>3 DEF FrameType, BreaksOff, StaysInPass

\* A condemned pod is deleted, and counted out of its revision only.
LEMMA ScalesIn ==
  ASSUME TypeOK, DeleteCondemned
  PROVE  \/ BreaksOff
         \/ \E o \in AtCondemned(w) :
              /\ o \in Ordinals /\ exists(pods[o])
              /\ pods' = [pods EXCEPT ![o] = ApiDelete(pods[o])]
              /\ StaysInPass
              /\ w'.next = w.next /\ w'.done = monotonic(w.view)
              /\ w'.replicas = w.replicas /\ w'.condemned = w.condemned \ {o}
              /\ w'.status.replicas = w.status.replicas
              /\ w'.status.readyReplicas = w.status.readyReplicas
              /\ w'.status.updatedReplicas <= w.status.updatedReplicas
<1>1. w \in FrameType /\ w.pc = "pass"
  BY StillRunning DEF DeleteCondemned
<1>2. CASE w' = Idle /\ UNCHANGED pods
  BY <1>2 DEF BreaksOff
<1>3. ASSUME NEW o \in AtCondemned(w), exists(pods[o]), DeletePod(o),
             w' = [w EXCEPT !.condemned = @ \ {o}, !.done = monotonic(w.view),
                            !.status = Adjust(w, w.pods[o].rev, -1)]
      PROVE  /\ o \in Ordinals /\ StaysInPass
             /\ w'.next = w.next /\ w'.done = monotonic(w.view)
             /\ w'.replicas = w.replicas /\ w'.condemned = w.condemned \ {o}
             /\ w'.status.replicas = w.status.replicas
             /\ w'.status.readyReplicas = w.status.readyReplicas
             /\ w'.status.updatedReplicas <= w.status.updatedReplicas
  <2>1. PICK st : st = Adjust(w, w.pods[o].rev, -1)
    OBVIOUS
  <2>2. w.status \in StatusType
    BY <1>1 DEF FrameType
  <2>3. /\ st.replicas = w.status.replicas
        /\ st.readyReplicas = w.status.readyReplicas
        /\ st.updatedReplicas <= w.status.updatedReplicas
    BY <2>1, <2>2 DEF Adjust, StatusType
  <2>4. PICK d : d = monotonic(w.view)
    OBVIOUS
  <2>5. w' = [w EXCEPT !.condemned = w.condemned \ {o}, !.done = d, !.status = st]
    BY <1>1, <1>3, <2>1, <2>4 DEF FrameType
  <2>6. /\ w'.pc = "pass" /\ w'.view = w.view /\ w'.pods = w.pods /\ w'.cur = w.cur
        /\ w'.next = w.next /\ w'.done = d
        /\ w'.replicas = w.replicas /\ w'.condemned = w.condemned \ {o} /\ w'.status = st
    BY <1>1, <2>5 DEF FrameType
  <2> QED
    BY <1>1, <2>3, <2>4, <2>6, StopsAtOrdinals DEF StaysInPass
<1>4. \/ w' = Idle /\ UNCHANGED pods
      \/ \E o \in AtCondemned(w) :
           /\ exists(pods[o]) /\ DeletePod(o)
           /\ w' = [w EXCEPT !.condemned = @ \ {o}, !.done = monotonic(w.view),
                             !.status = Adjust(w, w.pods[o].rev, -1)]
  BY DEF DeleteCondemned, Requeue
<1> QED
  BY <1>2, <1>3, <1>4 DEF DeletePod, PodBecomes

\* An outdated pod is deleted and the pass is done.
LEMMA Rolls ==
  ASSUME TypeOK, DeleteOutdated
  PROVE  \/ BreaksOff
         \/ \E o \in AtUpdate(w) :
              /\ o \in Ordinals /\ exists(pods[o])
              /\ pods' = [pods EXCEPT ![o] = ApiDelete(pods[o])]
              /\ StaysInPass
              /\ w'.next = w.next /\ w'.done = TRUE
              /\ w'.replicas = w.replicas /\ w'.condemned = w.condemned
              /\ w'.status.replicas = w.status.replicas
              /\ w'.status.readyReplicas = w.status.readyReplicas
              /\ w'.status.updatedReplicas = w.status.updatedReplicas
<1>1. w \in FrameType /\ w.pc = "pass"
  BY StillRunning DEF DeleteOutdated
<1>2. \/ w' = Idle /\ UNCHANGED pods
      \/ \E o \in AtUpdate(w) :
           /\ exists(pods[o]) /\ DeletePod(o)
           /\ w' = [w EXCEPT !.done = TRUE, !.status.currentReplicas = @ - 1]
  BY DEF DeleteOutdated, Requeue
<1>3. CASE w' = [w EXCEPT !.done = TRUE, !.status.currentReplicas = @ - 1]
  <2>1. w.status \in StatusType
    BY <1>1 DEF FrameType
  <2>2. /\ StaysInPass
        /\ w'.next = w.next /\ w'.done = TRUE
        /\ w'.replicas = w.replicas /\ w'.condemned = w.condemned
        /\ w'.status.replicas = w.status.replicas
        /\ w'.status.readyReplicas = w.status.readyReplicas
        /\ w'.status.updatedReplicas = w.status.updatedReplicas
    BY <1>1, <1>3, <2>1 DEF FrameType, StatusType, StaysInPass
  <2>3. \A o \in AtUpdate(w) : o \in Ordinals
    BY <1>1, StopsAtOrdinals
  <2> QED
    BY <1>2, <1>3, <2>2, <2>3 DEF DeletePod, PodBecomes, BreaksOff
<1> QED
  BY <1>2, <1>3 DEF BreaksOff

-----------------------------------------------------------------------------
(* The shape of a pass that is under way. *)

UnderWay == w.pc \in {"pass", "create"} /\ ~ w.done

\* A replica is nil, or the pod that was listed, or one that was built since
\* none was listed, or one that had failed.
Vacant(p) == ~ exists(p) \/ isFailed(p)
Slots ==
  UnderWay => \A o \in Ordinals :
    \/ o \notin Desired(w.view) /\ w.replicas[o] = NoPod
    \/ o \in Desired(w.view) /\ exists(w.pods[o]) /\ w.replicas[o] = w.pods[o]
    \/ o \in Desired(w.view) /\ w.replicas[o].phase = "New" /\ Vacant(w.pods[o])

\* The condemned pods are left in peace until the first one goes.
Marked ==
  UnderWay =>
    /\ w.condemned \subseteq Condemned(w)
    /\ monotonic(w.view) => w.condemned = Condemned(w)

\* In order, the first loop has gone past healthy replicas only.
Passed ==
  UnderWay /\ monotonic(w.view) =>
    \A p \in Ordinals : p < w.next => w.replicas[p] = NoPod \/ isHealthy(w.replicas[p])

\* A pass starts at the first replica, and does not create when it is done.
Started ==
  /\ w.pc = "revisions" => w.next = 0 /\ ~ w.done
  /\ w.pc = "create" => ~ w.done

PassInv == TypeOK /\ Creating /\ Slots /\ Marked /\ Passed /\ Started

\* A step leaves the sync alone, ends it, starts it, makes a call of the pass,
\* or is outside the pass.
LEMMA PassCases ==
  ASSUME TypeOK, [Next]_vars
  PROVE  \/ w' = w \/ w' = Idle \/ Sync
         \/ w \in FrameType /\ w.pc = "revisions" /\ w' = StartPass(w) /\ UNCHANGED pods
         \/ RecreateFailed \/ CreateClaims \/ CreatePod
         \/ UpdatePod \/ DeleteCondemned \/ DeleteOutdated
         \/ w'.pc \in {"status", "truncate"} /\ w.pc \in Later /\ UNCHANGED pods
<1>1. CASE KeepRevision \/ RollBack \/ CreateRevision
  BY <1>1, Running DEF KeepRevision, RollBack, CreateRevision, Requeue, api
<1>2. CASE EndPass
  BY <1>2, PassEnds DEF EndPass, api, Later
<1>3. CASE WriteStatus
  BY <1>3, StatusWrite DEF WriteStatus, Later
<1>4. CASE TruncateHistory
  BY <1>4, RevisionDeleted DEF TruncateHistory, Later
<1>5. CASE Finish
  BY <1>5 DEF Finish
<1> QED
  BY <1>1, <1>2, <1>3, <1>4, <1>5, Bystanders DEF Worker

\* Who else changes a pod: the cluster, and faults.
OthersChange(o) ==
  \/ BecomeReady(o) \/ Terminated(o) \/ CollectPod(o)
  \/ PodFails(o) \/ PodUnready(o) \/ DrainPod(o) \/ RelabelPod(o)

\* A pod changes by a call of the pass, or by what others do.
LEMMA PodChanges ==
  ASSUME TypeOK, [Next]_vars,
         ~ RecreateFailed, ~ CreatePod, ~ UpdatePod, ~ DeleteCondemned, ~ DeleteOutdated
  PROVE  \/ UNCHANGED pods
         \/ w' = w /\ \E o \in Ordinals : OthersChange(o)
<1>1. ASSUME NEW o \in Ordinals, OthersChange(o)
      PROVE  w' = w
  BY <1>1 DEF OthersChange, BecomeReady, Terminated, CollectPod, PodFails, PodUnready,
       DrainPod, RelabelPod
<1>2. \/ UNCHANGED pods
      \/ \E o \in Ordinals : OthersChange(o)
  BY DEF OthersChange, Next, vars, Worker, Sync, KeepRevision, RollBack, CreateRevision,
       CreateClaims, EndPass, WriteStatus, TruncateHistory, Finish, Informers,
       RefreshSet, RefreshPods, RefreshClaims, RefreshRevisions, Cluster, EditSet,
       Disturb, SyncBreaks, ClaimFails, DeleteSet, DropClaim, api
<1> QED
  BY <1>1, <1>2

\* The replicas before the one the first loop stops at are healthy.
LEMMA HealthyBefore ==
  ASSUME w \in FrameType, UnderWay, Passed, monotonic(w.view),
         NEW o \in Ordinals, o \in AtReplica(w), NEW p \in Ordinals, p < o
  PROVE  w.replicas[p] = NoPod \/ isHealthy(w.replicas[p])
<1>1. o \in Nat /\ p \in Nat /\ w.next \in Nat
  BY StopsAtOrdinals DEF FrameType
<1>2. CASE p < w.next
  BY <1>2 DEF Passed
<1>3. CASE p >= w.next
  <2>1. Settled(w, p)
    BY <1>1, <1>3 DEF AtReplica, Least
  <2> QED
    BY <2>1 DEF Settled
<1> QED
  BY <1>1, <1>2, <1>3

\* When the first loop stops nowhere, all replicas are healthy.
LEMMA HealthyAll ==
  ASSUME w \in FrameType, UnderWay, Passed, monotonic(w.view), AtReplica(w) = {},
         NEW p \in Ordinals
  PROVE  w.replicas[p] = NoPod \/ isHealthy(w.replicas[p])
<1> DEFINE S == {o \in Ordinals : o >= w.next /\ ~ Settled(w, o)}
<1>1. p \in Nat /\ w.next \in Nat
  BY StopsAtOrdinals DEF FrameType
<1>2. S = {}
  <2>1. S \in SUBSET Ordinals /\ Least(S) = {}
    BY DEF AtReplica
  <2> HIDE DEF S
  <2> QED
    BY <2>1, LeastAndGreatest
<1>3. CASE p < w.next
  BY <1>3 DEF Passed
<1>4. CASE p >= w.next
  BY <1>2, <1>4 DEF Settled
<1> QED
  BY <1>1, <1>3, <1>4

\* A healthy replica is a pod that was listed and served.
LEMMA HealthyServed ==
  ASSUME UnderWay, Slots, NEW p \in Desired(w.view),
         w.replicas[p] = NoPod \/ isHealthy(w.replicas[p])
  PROVE  p \in Ordinals /\ w.replicas[p] = w.pods[p] /\ Up(w.pods[p])
<1>1. p \in Ordinals
  BY DEF Desired
<1>2. CASE w.replicas[p].phase = "New"
  BY <1>2 DEF isHealthy, isRunningAndReady, NoPod
<1>3. CASE w.replicas[p] = w.pods[p] /\ exists(w.pods[p])
  <2>1. NoPod.phase = "Absent"
    BY DEF NoPod
  <2>2. isHealthy(w.pods[p])
    BY <1>3, <2>1 DEF exists
  <2> QED
    BY <1>1, <1>3, <2>2 DEF isHealthy, isRunningAndReady, isTerminating, Up
<1> QED
  BY <1>1, <1>2, <1>3 DEF Slots

\* A step that keeps the replicas and the pods listed keeps the slots.
LEMMA SlotsKept ==
  ASSUME Slots, UnderWay' => UnderWay,
         w'.view = w.view, w'.pods = w.pods, w'.replicas = w.replicas
  PROVE  Slots'
BY DEF Slots

\* A pass starts with the pods it listed, and builds the others.
LEMMA SlotsStart ==
  ASSUME w \in FrameType, w' = StartPass(w)
  PROVE  Slots' /\ Marked'
<1> DEFINE cur == currentRevision(w)
<1>1. /\ w'.view = w.view /\ w'.pods = w.pods
      /\ w'.replicas = [o \in Ordinals |->
               IF o \notin Desired(w.view) THEN NoPod
               ELSE IF exists(w.pods[o]) THEN w.pods[o]
               ELSE newVersionedStatefulSetPod(w.view, cur, o)]
      /\ w'.condemned = IF monotonic(w.view) THEN Condemned(w)
                        ELSE {o \in Condemned(w) : ~ isTerminating(w.pods[o])}
  BY PassStarts
<1>2. Condemned(w') = Condemned(w)
  BY <1>1 DEF Condemned
<1>3. Marked'
  BY <1>1, <1>2 DEF Marked
<1>4. \A o \in Ordinals : newVersionedStatefulSetPod(w.view, cur, o).phase = "New"
  BY DEF newVersionedStatefulSetPod
<1>5. \A o \in Ordinals : ~ exists(w.pods[o]) => Vacant(w.pods[o])
  BY DEF Vacant
<1> HIDE DEF cur
<1>6. Slots'
  BY <1>1, <1>4, <1>5 DEF Slots
<1> QED
  BY <1>3, <1>6

\* The slots stay as they are, but for a failed pod that is built anew.
LEMMA SlotsStep ==
  ASSUME TypeOK, Creating, Slots, Started, [Next]_vars
  PROVE  Slots'
<1>0. Idle.pc = "idle"
  BY DEF Idle
<1>1. CASE w' = w
  BY <1>1 DEF Slots, UnderWay
<1>2. CASE BreaksOff \/ w' = Idle \/ Sync \/ w'.pc \in {"status", "truncate"}
  BY <1>0, <1>2 DEF BreaksOff, Sync, Slots, UnderWay
<1>3. CASE w \in FrameType /\ w' = StartPass(w)
  BY <1>3, SlotsStart
<1>4. CASE RecreateFailed /\ ~ BreaksOff
  <2>1. PICK o \in AtReplica(w) :
          /\ o \in Ordinals /\ isFailed(w.replicas[o]) /\ StaysInPass
          /\ w'.replicas = [w.replicas EXCEPT
                              ![o] = newVersionedStatefulSetPod(w.view, w.cur, o)]
    BY <1>4, Recreates
  <2>2. UnderWay /\ w.replicas \in [Ordinals -> PodType]
    BY <1>4, StillRunning DEF RecreateFailed, UnderWay, FrameType
  <2>3. newVersionedStatefulSetPod(w.view, w.cur, o).phase = "New"
    BY DEF newVersionedStatefulSetPod
  <2>4. o \in Desired(w.view) /\ Vacant(w.pods[o])
    <3>1. NoPod.phase # "Failed" /\ w.replicas[o].phase = "Failed"
      BY <2>1 DEF NoPod, isFailed
    <3>2. o \in Desired(w.view) /\ w.replicas[o] = w.pods[o]
      BY <2>1, <2>2, <3>1 DEF Slots
    <3> QED
      BY <3>1, <3>2 DEF Vacant, isFailed
  <2> SUFFICES ASSUME NEW x \in Ordinals
               PROVE
    \/ x \notin Desired(w.view) /\ w'.replicas[x] = NoPod
    \/ x \in Desired(w.view) /\ exists(w.pods[x]) /\ w'.replicas[x] = w.pods[x]
    \/ x \in Desired(w.view) /\ w'.replicas[x].phase = "New" /\ Vacant(w.pods[x])
    BY <2>1 DEF Slots, StaysInPass
  <2>5. CASE x = o
    BY <2>1, <2>2, <2>3, <2>4, <2>5
  <2>6. CASE x # o
    <3>1. w'.replicas[x] = w.replicas[x]
      BY <2>1, <2>2, <2>6
    <3> QED
      BY <2>2, <3>1 DEF Slots
  <2> QED
    BY <2>5, <2>6
<1>5. CASE CreateClaims /\ ~ BreaksOff
  <2>1. UnderWay
    BY <1>5, StillRunning DEF CreateClaims, UnderWay
  <2> QED
    BY <1>5, <2>1, TurnsToCreate, SlotsKept
<1>6. CASE CreatePod /\ ~ BreaksOff
  <2>1. UnderWay
    BY <1>6, Creates DEF UnderWay, Started
  <2> QED
    BY <1>6, <2>1, Creates, SlotsKept DEF StaysInPass
<1>7. CASE UpdatePod /\ ~ BreaksOff
  <2>1. UnderWay
    BY <1>7, StillRunning DEF UpdatePod, UnderWay
  <2> QED
    BY <1>7, <2>1, Relabels, SlotsKept DEF StaysInPass
<1>8. CASE DeleteCondemned /\ ~ BreaksOff
  <2>1. UnderWay
    BY <1>8, StillRunning DEF DeleteCondemned, UnderWay
  <2> QED
    BY <1>8, <2>1, ScalesIn, SlotsKept DEF StaysInPass
<1>9. CASE DeleteOutdated /\ ~ BreaksOff
  <2>1. UnderWay
    BY <1>9, StillRunning DEF DeleteOutdated, UnderWay
  <2> QED
    BY <1>9, <2>1, Rolls, SlotsKept DEF StaysInPass
<1> QED
  BY <1>1, <1>2, <1>3, <1>4, <1>5, <1>6, <1>7, <1>8, <1>9, PassCases

\* In order, the first condemned pod that goes is the last call of the pass.
LEMMA MarkedStep ==
  ASSUME TypeOK, Creating, Marked, Started, [Next]_vars
  PROVE  Marked'
<1>0. Idle.pc = "idle"
  BY DEF Idle
<1>1. CASE w' = w
  BY <1>1 DEF Marked, UnderWay, Condemned
<1>2. CASE BreaksOff \/ w' = Idle \/ Sync \/ w'.pc \in {"status", "truncate"}
  BY <1>0, <1>2 DEF BreaksOff, Sync, Marked, UnderWay
<1>3. CASE w \in FrameType /\ w' = StartPass(w)
  BY <1>3, SlotsStart
<1>4. ASSUME UnderWay, w'.view = w.view, w'.pods = w.pods, w'.condemned = w.condemned
      PROVE  Marked'
  BY <1>4 DEF Marked, Condemned
<1>5. CASE RecreateFailed /\ ~ BreaksOff
  BY <1>4, <1>5, Recreates, StillRunning DEF RecreateFailed, UnderWay, StaysInPass
<1>6. CASE CreateClaims /\ ~ BreaksOff
  BY <1>4, <1>6, TurnsToCreate, StillRunning DEF CreateClaims, UnderWay
<1>7. CASE CreatePod /\ ~ BreaksOff
  BY <1>4, <1>7, Creates DEF UnderWay, Started, StaysInPass
<1>8. CASE UpdatePod /\ ~ BreaksOff
  BY <1>4, <1>8, Relabels, StillRunning DEF UpdatePod, UnderWay, StaysInPass
<1>9. CASE DeleteOutdated /\ ~ BreaksOff
  BY <1>9, Rolls DEF Marked, UnderWay
<1>10. CASE DeleteCondemned /\ ~ BreaksOff
  <2>1. UnderWay
    BY <1>10, StillRunning DEF DeleteCondemned, UnderWay
  <2>2. \E o : /\ w'.condemned = w.condemned \ {o}
               /\ w'.done = monotonic(w.view) /\ StaysInPass
    BY <1>10, ScalesIn
  <2>3. Condemned(w') = Condemned(w) /\ (monotonic(w'.view) <=> monotonic(w.view))
    BY <2>2 DEF StaysInPass, Condemned
  <2> QED
    BY <2>1, <2>2, <2>3 DEF Marked, UnderWay, StaysInPass
<1> QED
  BY <1>1, <1>2, <1>3, <1>5, <1>6, <1>7, <1>8, <1>9, <1>10, PassCases

\* In order, the first loop leaves no replica behind that is not healthy.
LEMMA PassedStep ==
  ASSUME TypeOK, Creating, Passed, Started, [Next]_vars
  PROVE  Passed'
<1>0. Idle.pc = "idle" /\ Ordinals \subseteq Nat
  BY StopsAtOrdinals, ControlAssumption DEF Idle, Ordinals
<1>1. CASE w' = w
  BY <1>1 DEF Passed, UnderWay
<1>2. CASE BreaksOff \/ w' = Idle \/ Sync \/ w'.pc \in {"status", "truncate"}
  BY <1>0, <1>2 DEF BreaksOff, Sync, Passed, UnderWay
<1>3. CASE w \in FrameType /\ w.pc = "revisions" /\ w' = StartPass(w)
  <2>1. w'.next = 0
    BY <1>3, PassStarts DEF Started
  <2> QED
    BY <1>0, <2>1 DEF Passed
<1>4. CASE RecreateFailed /\ ~ BreaksOff
  <2>1. PICK o \in AtReplica(w) :
          /\ o \in Ordinals /\ StaysInPass /\ w'.next = w.next
          /\ w'.replicas = [w.replicas EXCEPT
                              ![o] = newVersionedStatefulSetPod(w.view, w.cur, o)]
    BY <1>4, Recreates
  <2>2. /\ UnderWay /\ w \in FrameType /\ w.next \in Nat
        /\ w.replicas \in [Ordinals -> PodType]
    BY <1>4, StillRunning DEF RecreateFailed, UnderWay, FrameType
  <2>3. o >= w.next
    BY DEF AtReplica, Least
  <2>4. \A p \in Ordinals : p < w.next => w'.replicas[p] = w.replicas[p]
    BY <1>0, <2>1, <2>2, <2>3
  <2> QED
    BY <2>1, <2>2, <2>4 DEF Passed, StaysInPass
<1>5. CASE CreateClaims /\ ~ BreaksOff
  <2>1. PICK o \in AtReplica(w) :
          /\ o \in Ordinals /\ w'.next = o /\ w'.view = w.view
          /\ w'.replicas = w.replicas
    BY <1>5, TurnsToCreate
  <2>2. UnderWay /\ w \in FrameType
    BY <1>5, StillRunning DEF CreateClaims, UnderWay
  <2> QED
    BY <2>1, <2>2, HealthyBefore DEF Passed
<1>6. CASE CreatePod /\ ~ BreaksOff
  BY <1>6, Creates DEF Passed, UnderWay, StaysInPass
<1>7. CASE UpdatePod /\ ~ BreaksOff
  <2>1. PICK o \in AtReplica(w) :
          /\ o \in Ordinals /\ w'.next = o + 1 /\ StaysInPass
          /\ isCreated(w.replicas[o]) /\ ~ isFailed(w.replicas[o])
          /\ w'.replicas = w.replicas
    BY <1>7, Relabels
  <2>2. UnderWay /\ w \in FrameType /\ ~ MustWaitFor(w, o)
    BY <1>7, StillRunning DEF UpdatePod, UnderWay
  <2>3. monotonic(w.view) => isHealthy(w.replicas[o])
    BY <2>1, <2>2 DEF MustWaitFor
  <2>4. \A p \in Ordinals : p < o + 1 => p < o \/ p = o
    BY <1>0, <2>1
  <2> QED
    BY <2>1, <2>2, <2>3, <2>4, HealthyBefore DEF Passed, StaysInPass
<1>8. CASE DeleteCondemned /\ ~ BreaksOff
  BY <1>8, ScalesIn DEF Passed, UnderWay, StaysInPass
<1>9. CASE DeleteOutdated /\ ~ BreaksOff
  BY <1>9, Rolls DEF Passed, UnderWay
<1> QED
  BY <1>1, <1>2, <1>3, <1>4, <1>5, <1>6, <1>7, <1>8, <1>9, PassCases

\* A pass starts at the first replica, and does not create when it is done.
LEMMA StartedStep ==
  ASSUME TypeOK, Creating, Started, [Next]_vars
  PROVE  Started'
<1>0. Idle.pc = "idle"
  BY DEF Idle
<1>1. CASE w' = w
  BY <1>1 DEF Started
<1>2. CASE BreaksOff \/ w' = Idle \/ w'.pc \in {"status", "truncate"}
  BY <1>0, <1>2 DEF BreaksOff, Started
<1>3. CASE Sync
  BY <1>3 DEF Sync, Started
<1>4. CASE w'.pc = "pass"
  BY <1>4 DEF Started
<1>5. CASE CreateClaims /\ ~ BreaksOff
  BY <1>5, TurnsToCreate, StillRunning DEF CreateClaims, Started
<1> QED
  BY <1>1, <1>2, <1>3, <1>4, <1>5, PassCases, PassStarts, Recreates, Creates, Relabels,
     ScalesIn, Rolls DEF StaysInPass

\* The shape of a pass is an invariant, whatever caches lag and whatever goes
\* wrong.
LEMMA PassInvHolds == Spec => []PassInv
<1>1. Init => PassInv
  <2> SUFFICES ASSUME Init PROVE PassInv
    OBVIOUS
  <2>1. w.pc = "idle"
    BY DEF Init, Idle
  <2> QED
    BY <2>1, TypeInit DEF PassInv, Creating, Slots, Marked, Passed, Started, UnderWay
<1>2. PassInv /\ [Next]_vars => PassInv'
  BY TypeStep, CreatingStep, SlotsStep, MarkedStep, PassedStep, StartedStep DEF PassInv
<1> QED
  BY <1>1, <1>2, PTL DEF Spec

-----------------------------------------------------------------------------
(* What a pass has seen when it acts. These hold for every policy, fault    *)
(* and stale cache.                                                         *)

\* In order, a pass that creates a pod has listed all its predecessors as
\* serving.
CreateSeesPredecessors ==
  [][\A o \in Ordinals : CreatePod /\ monotonic(w.view) /\ pods'[o] # pods[o]
        => \A p \in Desired(w.view) : p < o => Up(w.pods[p])]_vars

\* In order, a pass that deletes a condemned pod has listed no condemned pod
\* with a greater ordinal.
ScaleInSeesLast ==
  [][\A o \in Ordinals : DeleteCondemned /\ monotonic(w.view) /\ pods'[o] # pods[o]
        => \A p \in Ordinals \ Desired(w.view) : p > o => ~ exists(w.pods[p])]_vars

\* A pass that deletes an outdated pod has listed every pod after it as
\* serving at the update revision.
UpdateSeesSuccessors ==
  [][\A o \in Ordinals : DeleteOutdated /\ pods'[o] # pods[o]
        => \A p \in Desired(w.view) : p > o =>
             Up(w.pods[p]) /\ w.pods[p].rev = upd(w)]_vars

\* The pod that CreatePod makes is the one the pass has turned to, and its
\* predecessors had been listed as serving.
LEMMA CreateSeen ==
  ASSUME PassInv, CreatePod, monotonic(w.view), NEW o \in Ordinals, pods'[o] # pods[o],
         NEW p \in Desired(w.view), p < o
  PROVE  UnderWay /\ p \in Ordinals /\ Up(w.pods[p])
<1> USE DEF PassInv
<1>1. ~ BreaksOff
  BY DEF BreaksOff
<1>2. /\ w \in FrameType /\ w.pc = "create" /\ w.next \in Ordinals
      /\ \E new : pods' = [pods EXCEPT ![w.next] = new]
  BY <1>1, Creates
<1>3. o = w.next
  BY <1>2 DEF TypeOK
<1>4. UnderWay /\ p \in Ordinals
  BY <1>2 DEF UnderWay, Started, Desired
<1>5. w.replicas[p] = NoPod \/ isHealthy(w.replicas[p])
  BY <1>3, <1>4 DEF Passed
<1> QED
  BY <1>4, <1>5, HealthyServed

\* The condemned pod that goes is the last of the ones that were listed.
LEMMA ScaleInSeen ==
  ASSUME PassInv, DeleteCondemned, monotonic(w.view), NEW o \in Ordinals, pods'[o] # pods[o],
         NEW p \in Ordinals \ Desired(w.view), p > o
  PROVE  UnderWay /\ ~ exists(w.pods[p])
<1> USE DEF PassInv
<1>1. ~ BreaksOff
  BY DEF BreaksOff
<1>2. PICK x \in AtCondemned(w) :
        /\ x \in Ordinals /\ \E new : pods' = [pods EXCEPT ![x] = new]
  BY <1>1, ScalesIn
<1>3. o = x
  BY <1>2 DEF TypeOK
<1>4. UnderWay
  BY StillRunning DEF DeleteCondemned, UnderWay
<1>5. \A y \in w.condemned : y <= o
  BY <1>2, <1>3 DEF AtCondemned, Greatest
<1>6. o \in Nat /\ p \in Nat
  BY ControlAssumption DEF Ordinals
<1>7. p \notin Condemned(w)
  BY <1>4, <1>5, <1>6 DEF Marked
<1> QED
  BY <1>4, <1>7 DEF Condemned

\* The pods after the one a rolling update deletes had been listed as serving
\* at the update revision.
LEMMA UpdateSeen ==
  ASSUME PassInv, DeleteOutdated, NEW o \in Ordinals, pods'[o] # pods[o],
         NEW p \in Desired(w.view), p > o
  PROVE  UnderWay /\ p \in Ordinals /\ Up(w.pods[p]) /\ w.pods[p].rev = upd(w)
<1> USE DEF PassInv
<1>1. ~ BreaksOff
  BY DEF BreaksOff
<1>2. PICK x \in AtUpdate(w) :
        /\ x \in Ordinals /\ \E new : pods' = [pods EXCEPT ![x] = new]
  BY <1>1, Rolls
<1>3. o = x
  BY <1>2 DEF TypeOK
<1>4. UnderWay /\ p \in Ordinals /\ w \in FrameType
  BY StillRunning DEF DeleteOutdated, UnderWay, Desired
<1>5. o \in Nat /\ p \in Nat /\ w.view.spec.partition \in Int
  <2>1. w.view.spec \in SpecType
    BY <1>4, ControlAssumption, SpecFields DEF FrameType
  <2> QED
    BY <1>4, <2>1, ControlAssumption DEF Ordinals, SpecType, Nil
<1>6. /\ o >= w.view.spec.partition
      /\ ~ (p >= w.view.spec.partition /\ w.replicas[p] # NoPod
              /\ (Outdated(w, p) \/ ~ isHealthy(w.replicas[p])))
  BY <1>2, <1>3, <1>4, <1>5 DEF AtUpdate, Greatest
<1>7. w.replicas[p] = NoPod \/ (isHealthy(w.replicas[p]) /\ ~ Outdated(w, p))
  BY <1>5, <1>6
<1>8. w.replicas[p] = w.pods[p] /\ Up(w.pods[p])
  BY <1>4, <1>7, HealthyServed
<1>9. w.replicas[p] # NoPod
  BY <1>8 DEF Up, NoPod
<1>10. w.pods[p].rev = upd(w)
  BY <1>7, <1>8, <1>9 DEF Outdated, isTerminating, Up
<1> QED
  BY <1>4, <1>8, <1>10

\* No pod is created out of order, as far as the sync could know: the caches
\* may be stale, and pods may fail, or be deleted, while it runs.
THEOREM CreatesInOrderSeen == Spec => CreateSeesPredecessors
<1>1. PassInv /\ [Next]_vars
        => [\A o \in Ordinals : CreatePod /\ monotonic(w.view) /\ pods'[o] # pods[o]
              => \A p \in Desired(w.view) : p < o => Up(w.pods[p])]_vars
  BY CreateSeen
<1> QED
  BY <1>1, PassInvHolds, PTL DEF Spec, CreateSeesPredecessors

\* No pod is scaled in out of order, as far as the sync could know.
THEOREM ScalesInOrderSeen == Spec => ScaleInSeesLast
<1>1. PassInv /\ [Next]_vars
        => [\A o \in Ordinals : DeleteCondemned /\ monotonic(w.view) /\ pods'[o] # pods[o]
              => \A p \in Ordinals \ Desired(w.view) : p > o => ~ exists(w.pods[p])]_vars
  BY ScaleInSeen
<1> QED
  BY <1>1, PassInvHolds, PTL DEF Spec, ScaleInSeesLast

\* No pod is updated out of order, as far as the sync could know, under either
\* pod management policy.
THEOREM UpdatesInOrderSeen == Spec => UpdateSeesSuccessors
<1>1. PassInv /\ [Next]_vars
        => [\A o \in Ordinals : DeleteOutdated /\ pods'[o] # pods[o]
              => \A p \in Desired(w.view) : p > o =>
                   Up(w.pods[p]) /\ w.pods[p].rev = upd(w)]_vars
  BY UpdateSeen
<1> QED
  BY <1>1, PassInvHolds, PTL DEF Spec, UpdateSeesSuccessors

-----------------------------------------------------------------------------
(* What the listing of a pass still tells. It may be older than the pods    *)
(* there are, and the user may edit the set at any time. But nobody other   *)
(* than the sync may fail or delete its pods or delete the set: a sync that *)
(* does not see a pod yet would create it again after such a disturbance,   *)
(* while the cache shows, to the next sync, the one before.                 *)

Undisturbed == Faults \cap {"fail", "drain", "deleteSet"} = {}

\* A pod that serves does not stop serving by itself.
StaysReady == "unready" \notin Faults

\* A sync that has calls to make.
Deciding == w.pc = "revisions" \/ UnderWay

\* Nobody deletes the set, and no pod has failed.
Alive ==
  /\ ~ set.deleting /\ ~ setCache.deleting
  /\ w # Idle => ~ w.view.deleting
NoneFailed ==
  \A o \in Ordinals :
    /\ ~ isFailed(pods[o]) /\ ~ isFailed(podCache[o])
    /\ w # Idle => ~ isFailed(w.pods[o])

\* A pod that is not on its way out.
Live(p) == exists(p) /\ ~ isTerminating(p)

\* What a copy p of a pod, if it is live, tells of the pod q there is: q may
\* be on its way out, but it is not another one.
Foretells(p, q) ==
  Live(p) /\ exists(q) =>
    /\ q.rev = p.rev
    /\ StaysReady /\ p.phase = "Ready" => q.phase = "Ready"

CacheTells == \A o \in Ordinals : Foretells(podCache[o], pods[o])
ListTells == w # Idle => \A o \in Ordinals : Foretells(w.pods[o], pods[o])

\* Where the sync may still create a pod because it has listed none, the
\* cache does not show a pod that lives, unless it does live.
NoneToReplace ==
  Deciding => \A o \in Ordinals :
    o >= w.next /\ ~ exists(w.pods[o]) /\ ~ Live(pods[o]) => ~ Live(podCache[o])

ListingInv ==
  /\ PassInv /\ Built /\ Alive /\ NoneFailed
  /\ CacheTells /\ ListTells /\ NoneToReplace

\* A sync that is under way, or starts its pass, was deciding before, and its
\* loop does not go back.
LEMMA DecidingBefore ==
  ASSUME TypeOK, Creating, Started, [Next]_vars, Deciding', ~ Sync
  PROVE  /\ Deciding /\ w'.view = w.view /\ w'.pods = w.pods
         /\ \A o \in Ordinals : o >= w'.next => o >= w.next
<1>0. Idle.pc = "idle" /\ Ordinals \subseteq Nat /\ (w \in FrameType => w.next \in Nat)
  BY ControlAssumption DEF Idle, Ordinals, FrameType
<1>1. CASE w' = w
  BY <1>1 DEF Deciding, UnderWay
<1>2. CASE BreaksOff \/ w' = Idle \/ w'.pc \in {"status", "truncate"}
  BY <1>0, <1>2 DEF BreaksOff, Deciding, UnderWay
<1>3. CASE w \in FrameType /\ w.pc = "revisions" /\ w' = StartPass(w)
  BY <1>3, PassStarts DEF Deciding
<1>4. CASE RecreateFailed /\ ~ BreaksOff
  BY <1>4, Recreates, StillRunning DEF RecreateFailed, Deciding, UnderWay, StaysInPass
<1>5. CASE (CreateClaims /\ ~ BreaksOff) \/ (UpdatePod /\ ~ BreaksOff)
  <2>1. w \in FrameType /\ Deciding
    BY <1>5, StillRunning DEF CreateClaims, UpdatePod, Deciding, UnderWay
  <2>2. PICK x \in AtReplica(w) :
          /\ x \in Ordinals /\ w'.next \in {x, x + 1}
          /\ w'.view = w.view /\ w'.pods = w.pods
    BY <1>5, TurnsToCreate, Relabels DEF StaysInPass
  <2>3. x >= w.next /\ x \in Nat /\ w.next \in Nat
    BY <1>0, <2>1, <2>2 DEF AtReplica, Least
  <2>4. ASSUME NEW o \in Ordinals, o >= w'.next PROVE o >= w.next
    <3>1. o \in Nat
      BY <1>0
    <3>2. o >= x
      BY <2>2, <2>3, <2>4, <3>1
    <3> QED
      BY <2>3, <3>1, <3>2
  <2> QED
    BY <2>1, <2>2, <2>4
<1>6. CASE CreatePod /\ ~ BreaksOff
  <2>1. /\ w \in FrameType /\ w.pc = "create" /\ StaysInPass /\ w'.next = w.next + 1
    BY <1>6, Creates
  <2>2. PICK n \in Nat : n = w.next /\ w'.next = n + 1
    BY <1>0, <2>1
  <2>3. \A o \in Ordinals : o >= n + 1 => o >= n
    BY <1>0
  <2>4. Deciding
    BY <2>1 DEF Started, Deciding, UnderWay
  <2> QED
    BY <2>1, <2>2, <2>3, <2>4 DEF StaysInPass
<1>7. CASE (DeleteCondemned /\ ~ BreaksOff) \/ (DeleteOutdated /\ ~ BreaksOff)
  BY <1>7, ScalesIn, Rolls, StillRunning
     DEF DeleteCondemned, DeleteOutdated, Deciding, UnderWay, StaysInPass
<1> QED
  BY <1>1, <1>2, <1>3, <1>4, <1>5, <1>6, <1>7, PassCases

\* What a sync works on comes from the caches and stays.
LEMMA FrameKept ==
  ASSUME TypeOK, [Next]_vars, w' # Idle
  PROVE  \/ Sync /\ w'.view = setCache /\ w'.pods = podCache
         \/ w # Idle /\ w'.view = w.view /\ w'.pods = w.pods
<1>0. Idle.pc = "idle"
  BY DEF Idle
<1>1. CASE Sync
  BY <1>1 DEF Sync
<1>2. CASE w \in FrameType /\ w.pc = "revisions" /\ w' = StartPass(w)
  BY <1>0, <1>2, PassStarts
<1>3. CASE GoesOn
  BY <1>0, <1>3 DEF GoesOn, Later
<1> QED
  BY <1>1, <1>2, <1>3, FrameStep

\* Only DeleteSet marks the set as deleting.
LEMMA AliveStep ==
  ASSUME Undisturbed, TypeOK, Alive, [Next]_vars
  PROVE  Alive'
<1>1. ~ set'.deleting
  <2>1. CASE UNCHANGED set
    BY <2>1 DEF Alive
  <2>2. CASE WriteStatus
    <3>1. \/ UNCHANGED set
          \/ \E st : set' = [set EXCEPT !.status = st]
      BY <2>2 DEF WriteStatus, SetBecomes
    <3> QED
      BY <3>1 DEF Alive, TypeOK, SetType
  <2>3. ASSUME NEW s \in Specs, EditSet(s) PROVE ~ set'.deleting
    <3>1. \E g : set' = [set EXCEPT !.spec = s, !.generation = g]
      BY <2>3 DEF EditSet, SetBecomes
    <3> QED
      BY <3>1 DEF Alive, TypeOK, SetType
  <2>4. ~ DeleteSet
    BY DEF DeleteSet, Fault, Undisturbed
  <2> QED
    BY <2>1, <2>2, <2>3, <2>4
       DEF Next, vars, Worker, Sync, KeepRevision, RollBack, CreateRevision,
           RecreateFailed, CreateClaims, CreatePod, UpdatePod, DeleteCondemned,
           DeleteOutdated, EndPass, TruncateHistory, Finish, Informers, RefreshSet,
           RefreshPods, RefreshClaims, RefreshRevisions, Cluster, BecomeReady,
           Terminated, CollectPod, Disturb, SyncBreaks, ClaimFails, PodFails,
           PodUnready, DrainPod, RelabelPod, DropClaim, api
<1>2. setCache' \in {setCache, set}
  BY EventsStep DEF RefreshSet
<1> QED
  BY <1>1, <1>2, FrameKept DEF Alive

\* A pod that exists has all its fields.
LEMMA PodFields ==
  ASSUME TypeOK, NEW o \in Ordinals, exists(pods[o])
  PROVE  pods[o] \in [phase : {"New", "Pending", "Ready", "Failed"},
                      terminating : BOOLEAN, rev : Templates, labelled : BOOLEAN]
BY DEF TypeOK, ApiPodType, PodType, exists, NoPod

\* What others do while nobody disturbs the set makes no pod, fails none and
\* starts the end of none.
LEMMA OthersSpare ==
  ASSUME Undisturbed, TypeOK, Alive, NEW o \in Ordinals, OthersChange(o),
         NEW x \in Ordinals
  PROVE  /\ exists(pods'[x]) => exists(pods[x])
         /\ StaysReady /\ pods[x].phase = "Ready" /\ exists(pods'[x])
              => pods'[x].phase = "Ready"
         /\ Live(pods[x]) => Live(pods'[x])
         /\ ~ isFailed(pods[x]) => ~ isFailed(pods'[x])
<1>0. NoPod.phase = "Absent"
  BY DEF NoPod
<1>1. ~ CollectPod(o) /\ ~ PodFails(o) /\ ~ DrainPod(o)
  BY DEF CollectPod, Alive, PodFails, DrainPod, Fault, Undisturbed
<1>2. ASSUME NEW p, PodBecomes(o, p) PROVE pods'[x] = IF x = o THEN p ELSE pods[x]
  BY <1>2 DEF PodBecomes, TypeOK
<1>3. CASE BecomeReady(o)
  <2>1. exists(pods[o]) /\ pods'[x] = IF x = o THEN [pods[o] EXCEPT !.phase = "Ready"]
                                      ELSE pods[x]
    BY <1>2, <1>3 DEF BecomeReady, exists
  <2>2. LET p == [pods[o] EXCEPT !.phase = "Ready"]
        IN  p.phase = "Ready" /\ p.terminating = pods[o].terminating
    BY <2>1, PodFields
  <2> QED
    BY <2>1, <2>2 DEF Live, exists, isTerminating, isFailed
<1>4. CASE Terminated(o)
  <2>1. isTerminating(pods[o]) /\ pods'[x] = IF x = o THEN NoPod ELSE pods[x]
    BY <1>2, <1>4 DEF Terminated
  <2> QED
    BY <1>0, <2>1 DEF Live, exists, isFailed
<1>5. CASE PodUnready(o)
  <2>1. /\ exists(pods[o]) /\ ~ StaysReady
        /\ pods'[x] = IF x = o THEN [pods[o] EXCEPT !.phase = "Pending"] ELSE pods[x]
    BY <1>2, <1>5 DEF PodUnready, exists, Fault, StaysReady
  <2>2. LET p == [pods[o] EXCEPT !.phase = "Pending"]
        IN  p.phase = "Pending" /\ p.terminating = pods[o].terminating
    BY <2>1, PodFields
  <2> QED
    BY <2>1, <2>2 DEF Live, exists, isTerminating, isFailed
<1>6. CASE RelabelPod(o)
  <2>1. exists(pods[o]) /\ pods'[x] = IF x = o THEN [pods[o] EXCEPT !.labelled = FALSE]
                                      ELSE pods[x]
    BY <1>2, <1>6 DEF RelabelPod
  <2>2. LET p == [pods[o] EXCEPT !.labelled = FALSE]
        IN  p.phase = pods[o].phase /\ p.terminating = pods[o].terminating
    BY <2>1, PodFields
  <2> QED
    BY <2>1, <2>2 DEF Live, exists, isTerminating, isFailed
<1> QED
  BY <1>1, <1>3, <1>4, <1>5, <1>6 DEF OthersChange

\* Without failed pods there is none to recreate.
LEMMA NothingToRecreate ==
  ASSUME PassInv, NoneFailed
  PROVE  ~ RecreateFailed
<1> SUFFICES ASSUME RecreateFailed PROVE FALSE
  OBVIOUS
<1>1. UnderWay /\ w # Idle /\ w \in FrameType
  BY StillRunning DEF PassInv, RecreateFailed, UnderWay, Idle
<1>2. PICK o \in AtReplica(w) : isFailed(w.replicas[o])
  BY DEF RecreateFailed
<1>3. o \in Ordinals
  BY <1>1, StopsAtOrdinals
<1>4. w.replicas[o].phase = "Failed" /\ NoPod.phase # "Failed"
  BY <1>2 DEF isFailed, NoPod
<1>5. w.replicas[o] = w.pods[o]
  BY <1>1, <1>3, <1>4 DEF PassInv, Slots
<1> QED
  BY <1>1, <1>2, <1>3, <1>5 DEF NoneFailed

\* What becomes of a pod while nobody disturbs the set.
LEMMA PodSpared ==
  ASSUME Undisturbed, PassInv, Alive, NoneFailed, [Next]_vars, NEW x \in Ordinals
  PROVE  /\ exists(pods'[x]) => \/ exists(pods[x])
                                \/ CreatePod /\ ~ BreaksOff /\ x = w.next
         /\ StaysReady /\ pods[x].phase = "Ready" /\ exists(pods'[x])
              => pods'[x].phase = "Ready"
         /\ Live(pods[x]) => \/ Live(pods'[x])
                             \/ DeleteCondemned /\ ~ BreaksOff /\ x \in AtCondemned(w)
                             \/ DeleteOutdated /\ ~ BreaksOff
         /\ ~ isFailed(pods'[x])
<1> USE DEF PassInv
<1>0. ~ isFailed(pods[x])
  BY DEF NoneFailed
<1>1. CASE BreaksOff \/ UNCHANGED pods
  BY <1>0, <1>1 DEF BreaksOff
<1>2. CASE ~ CreatePod /\ ~ UpdatePod /\ ~ DeleteCondemned /\ ~ DeleteOutdated
  BY <1>0, <1>1, <1>2, NothingToRecreate, PodChanges, OthersSpare
<1>3. CASE CreatePod /\ ~ BreaksOff
  <2>1. /\ w \in FrameType /\ w.next \in Ordinals /\ ~ exists(pods[w.next])
        /\ pods' = [pods EXCEPT ![w.next] = [w.replicas[w.next] EXCEPT !.phase = "Pending"]]
    BY <1>3, Creates
  <2>2. [w.replicas[w.next] EXCEPT !.phase = "Pending"].phase = "Pending"
    BY <2>1 DEF FrameType, PodType, NoPod
  <2>3. CASE x = w.next
    <3>1. pods'[x].phase = "Pending"
      BY <2>1, <2>2, <2>3 DEF TypeOK
    <3>2. pods[x].phase = "Absent"
      BY <2>1, <2>3 DEF exists
    <3> QED
      BY <1>3, <2>3, <3>1, <3>2 DEF Live, exists, isFailed
  <2>4. CASE x # w.next
    <3>1. pods'[x] = pods[x]
      BY <2>1, <2>4 DEF TypeOK
    <3> QED
      BY <1>0, <3>1
  <2> QED
    BY <2>3, <2>4
<1>4. CASE UpdatePod /\ ~ BreaksOff
  <2>1. PICK o \in Ordinals :
          /\ exists(pods[o])
          /\ \/ UNCHANGED pods
             \/ pods' = [pods EXCEPT ![o] = [pods[o] EXCEPT !.labelled = TRUE]]
    BY <1>4, Relabels
  <2>2. LET p == [pods[o] EXCEPT !.labelled = TRUE]
        IN  p.phase = pods[o].phase /\ p.terminating = pods[o].terminating
    BY <2>1, PodFields
  <2>3. pods'[x].phase = pods[x].phase /\ pods'[x].terminating = pods[x].terminating
    BY <2>1, <2>2 DEF TypeOK
  <2> QED
    BY <1>0, <2>3 DEF Live, exists, isTerminating, isFailed
<1>5. ASSUME NEW o \in Ordinals, exists(pods[o]),
             pods' = [pods EXCEPT ![o] = ApiDelete(pods[o])]
      PROVE  /\ pods'[x].phase = pods[x].phase
             /\ x # o => pods'[x] = pods[x]
  <2>1. ApiDelete(pods[o]) = [pods[o] EXCEPT !.terminating = TRUE]
    BY DEF ApiDelete, NoneFailed
  <2>2. ApiDelete(pods[o]).phase = pods[o].phase
    BY <1>5, <2>1, PodFields
  <2> QED
    BY <1>5, <2>2 DEF TypeOK
<1>6. CASE DeleteCondemned /\ ~ BreaksOff
  <2>1. PICK o \in AtCondemned(w) :
          /\ o \in Ordinals /\ exists(pods[o])
          /\ pods' = [pods EXCEPT ![o] = ApiDelete(pods[o])]
    BY <1>6, ScalesIn
  <2>2. pods'[x].phase = pods[x].phase /\ (x # o => pods'[x] = pods[x])
    BY <1>5, <2>1
  <2> QED
    BY <1>0, <1>6, <2>1, <2>2 DEF exists, isFailed
<1>7. CASE DeleteOutdated /\ ~ BreaksOff
  <2>1. PICK o \in AtUpdate(w) :
          /\ o \in Ordinals /\ exists(pods[o])
          /\ pods' = [pods EXCEPT ![o] = ApiDelete(pods[o])]
    BY <1>7, Rolls
  <2>2. pods'[x].phase = pods[x].phase
    BY <1>5, <2>1
  <2> QED
    BY <1>0, <1>7, <2>2 DEF exists, isFailed
<1> QED
  BY <1>1, <1>2, <1>3, <1>4, <1>6, <1>7

\* No pod fails, and none that failed is listed.
LEMMA NoneFailedStep ==
  ASSUME Undisturbed, PassInv, Alive, NoneFailed, [Next]_vars
  PROVE  NoneFailed'
<1>1. \A x \in Ordinals : ~ isFailed(pods'[x])
  BY PodSpared
<1>2. TypeOK /\ podCache' \in {podCache, pods}
  BY EventsStep DEF RefreshPods, PassInv
<1> QED
  BY <1>1, <1>2, FrameKept DEF NoneFailed

\* The pod that CreatePod makes had not been listed, at the place where the
\* loop is.
LEMMA CreatesUnlisted ==
  ASSUME PassInv, Built, NoneFailed, CreatePod, ~ BreaksOff
  PROVE  /\ Deciding /\ w # Idle /\ w.next \in Ordinals
         /\ ~ exists(w.pods[w.next]) /\ ~ exists(pods[w.next])
<1>1. /\ w.pc = "create" /\ w.next \in Ordinals /\ w.replicas[w.next].phase = "New"
      /\ ~ exists(pods[w.next])
  BY Creates DEF PassInv
<1>2. UnderWay /\ w # Idle
  BY <1>1 DEF PassInv, Started, UnderWay, Idle
<1>3. NoPod.phase # "New" /\ w.pods[w.next].phase # "New"
  BY <1>1, <1>2 DEF Built, NoPod
<1>4. Vacant(w.pods[w.next])
  BY <1>1, <1>2, <1>3 DEF PassInv, Slots
<1> QED
  BY <1>1, <1>2, <1>4 DEF Vacant, NoneFailed, Deciding

\* A copy that foretells a pod goes on doing so, unless another pod is made.
LEMMA ForetellsStep ==
  ASSUME Undisturbed, PassInv, Alive, NoneFailed, [Next]_vars, NEW x \in Ordinals,
         NEW p, Foretells(p, pods[x]),
         CreatePod /\ ~ BreaksOff /\ x = w.next => ~ Live(p)
  PROVE  Foretells(p, pods'[x])
<1> SUFFICES ASSUME Live(p), exists(pods'[x])
             PROVE  /\ pods'[x].rev = p.rev
                    /\ StaysReady /\ p.phase = "Ready" => pods'[x].phase = "Ready"
  BY DEF Foretells
<1>1. exists(pods[x])
  BY PodSpared
<1>2. pods'[x].rev = pods[x].rev
  <2>1. CASE ~ CreatePod
    BY <2>1, PodKeepsRevision DEF PassInv
  <2>2. CASE CreatePod /\ BreaksOff
    BY <2>2 DEF BreaksOff
  <2>3. CASE CreatePod /\ ~ BreaksOff
    <3>1. ~ exists(pods[w.next]) /\ \E new : pods' = [pods EXCEPT ![w.next] = new]
      BY <2>3, Creates DEF PassInv
    <3> QED
      BY <1>1, <3>1 DEF PassInv, TypeOK
  <2> QED
    BY <2>1, <2>2, <2>3
<1> QED
  BY <1>1, <1>2, PodSpared DEF Foretells

\* A pod that is listed, or cached, is not replaced by another one while the
\* copy shows it as live.
LEMMA TellsStep ==
  ASSUME Undisturbed, ListingInv, [Next]_vars
  PROVE  CacheTells' /\ ListTells'
<1> USE DEF ListingInv
<1>0. \A p : ~ exists(p) => ~ Live(p)
  BY DEF Live
<1>1. ASSUME NEW x \in Ordinals
      PROVE  Foretells(podCache[x], pods'[x])
  <2>1. CreatePod /\ ~ BreaksOff /\ x = w.next => ~ Live(podCache[x])
    <3> SUFFICES ASSUME CreatePod, ~ BreaksOff, x = w.next PROVE ~ Live(podCache[x])
      OBVIOUS
    <3>1. /\ Deciding /\ ~ exists(w.pods[x]) /\ ~ exists(pods[x])
      BY CreatesUnlisted
    <3>2. x >= w.next
      BY ControlAssumption DEF Ordinals
    <3> QED
      BY <1>0, <3>1, <3>2 DEF NoneToReplace
  <2> QED
    BY <2>1, ForetellsStep DEF CacheTells
<1>2. ASSUME w # Idle, NEW x \in Ordinals
      PROVE  Foretells(w.pods[x], pods'[x])
  <2>1. CreatePod /\ ~ BreaksOff /\ x = w.next => ~ Live(w.pods[x])
    BY <1>0, CreatesUnlisted
  <2> QED
    BY <1>2, <2>1, ForetellsStep DEF ListTells
<1>3. CacheTells'
  <2>1. CASE RefreshPods
    BY <2>1 DEF RefreshPods, CacheTells, Foretells
  <2>2. CASE UNCHANGED podCache
    BY <1>1, <2>2 DEF CacheTells
  <2> QED
    BY <2>1, <2>2, EventsStep DEF PassInv
<1>4. ListTells'
  BY <1>1, <1>2, FrameKept DEF ListTells, PassInv
<1> QED
  BY <1>3, <1>4

\* While the sync has a pod to create, the cache shows none at its place that
\* is not there.
LEMMA NoneToReplaceStep ==
  ASSUME Undisturbed, ListingInv, [Next]_vars
  PROVE  NoneToReplace'
<1> USE DEF ListingInv
<1>1. CASE Sync
  BY <1>1 DEF Sync, NoneToReplace, Live, caches
<1>2. CASE ~ Sync
  <2> SUFFICES ASSUME Deciding', NEW o \in Ordinals, o >= w'.next, ~ exists(w'.pods[o]),
                      ~ Live(pods'[o])
               PROVE  ~ Live(podCache'[o])
    BY DEF NoneToReplace
  <2>1. Deciding /\ w'.pods = w.pods /\ o >= w.next
    BY <1>2, DecidingBefore DEF PassInv
  <2>2. CASE RefreshPods
    BY <2>2 DEF RefreshPods
  <2>3. CASE UNCHANGED podCache
    <3>1. ~ Live(pods[o])
      <4>1. ~ (DeleteOutdated /\ ~ BreaksOff)
        BY Rolls DEF Deciding, UnderWay, StaysInPass, PassInv
      <4>2. DeleteCondemned => o \notin AtCondemned(w)
        <5> SUFFICES ASSUME DeleteCondemned, o \in AtCondemned(w) PROVE FALSE
          OBVIOUS
        <5>1. UnderWay /\ o \in w.condemned
          BY StillRunning DEF PassInv, DeleteCondemned, UnderWay, AtCondemned, Greatest
        <5> QED
          BY <2>1, <5>1 DEF PassInv, Marked, Condemned
      <4> QED
        BY <4>1, <4>2, PodSpared
    <3> QED
      BY <2>1, <2>3, <3>1 DEF NoneToReplace
  <2> QED
    BY <2>2, <2>3, EventsStep DEF PassInv
<1> QED
  BY <1>1, <1>2

\* However old the caches, what they and the listing of a sync show as live
\* is what is there, or what has gone.
LEMMA ListingInvHolds ==
  ASSUME Undisturbed
  PROVE  Spec => []ListingInv
<1>1. Init => ListingInv
  <2> SUFFICES ASSUME Init PROVE ListingInv
    OBVIOUS
  <2>1. w = Idle /\ w.pc = "idle" /\ ~ set.deleting /\ ~ setCache.deleting
    BY DEF Init, Idle
  <2>2. \A o \in Ordinals : /\ ~ isFailed(pods[o]) /\ ~ isFailed(podCache[o])
                            /\ ~ exists(pods[o])
    BY DEF Init, isFailed, exists, NoPod
  <2>3. PassInv
    BY <2>1, TypeInit DEF PassInv, Creating, Slots, Marked, Passed, Started, UnderWay
  <2> QED
    BY <2>1, <2>2, <2>3, RevisionsInit DEF ListingInv, Alive, NoneFailed, CacheTells, ListTells,
         NoneToReplace, Foretells, Deciding, UnderWay
<1>2. ListingInv /\ [Next]_vars => ListingInv'
  BY TypeStep, CreatingStep, SlotsStep, MarkedStep, PassedStep, StartedStep,
     BuiltStep, AliveStep, NoneFailedStep, TellsStep, NoneToReplaceStep DEF ListingInv, PassInv
<1> QED
  BY <1>1, <1>2, PTL DEF Spec

-----------------------------------------------------------------------------
(* The order of the calls, whatever the caches show. *)

\* A pod that was listed as serving serves, or is gone or on its way out.
LEMMA ServedThen ==
  ASSUME ListingInv, StaysReady, w # Idle, NEW p \in Ordinals, Up(w.pods[p])
  PROVE  /\ pods[p].phase \in {"Ready", "Absent"}
         /\ exists(pods[p]) => pods[p].phase = "Ready" /\ pods[p].rev = w.pods[p].rev
<1>1. Live(w.pods[p]) /\ w.pods[p].phase = "Ready"
  BY DEF Up, Live, exists, isTerminating
<1> QED
  BY <1>1 DEF ListingInv, ListTells, Foretells, exists

\* OrderedReady: a pod is created only when the sync has listed all its
\* predecessors as serving, and none of them is starting at that moment,
\* however old the listing is, whatever the user changes and wherever syncs
\* break off.
THEOREM CreateOrdered ==
  ASSUME Undisturbed, StaysReady
  PROVE  Spec => CreateInOrder
<1>1. ASSUME ListingInv, CreatePod, NEW o \in Ordinals, pods'[o] # pods[o],
             monotonic(w.view), NEW p \in Desired(w.view), p < o
      PROVE  Up(w.pods[p]) /\ pods[p].phase \in {"Ready", "Absent"}
  <2>1. UnderWay /\ p \in Ordinals /\ Up(w.pods[p])
    BY <1>1, CreateSeen DEF ListingInv
  <2>2. w # Idle
    BY <2>1 DEF UnderWay, Idle
  <2> QED
    BY <1>1, <2>1, <2>2, ServedThen
<1>2. ListingInv /\ [Next]_vars
        => [\A o \in Ordinals : CreatePod /\ pods'[o] # pods[o] /\ monotonic(w.view)
              => \A p \in Desired(w.view) : p < o =>
                   Up(w.pods[p]) /\ pods[p].phase \in {"Ready", "Absent"}]_vars
  BY <1>1
<1> QED
  BY <1>2, ListingInvHolds, PTL DEF Spec, CreateInOrder

\* OrderedReady: scale in or a rolling update takes a pod down only when the
\* sync has listed every other replica as serving, and none of them is
\* starting at that moment: two replicas are down at once only when an earlier
\* sync has taken the other one down and the cache does not show it yet.
THEOREM TakeDownOrdered ==
  ASSUME Undisturbed, StaysReady
  PROVE  Spec => TakeDownInOrder
<1>1. ASSUME ListingInv, DeleteCondemned \/ DeleteOutdated,
             NEW o \in Ordinals, pods'[o] # pods[o], monotonic(w.view),
             NEW p \in Desired(w.view)
      PROVE  Up(w.pods[p]) /\ pods[p].phase \in {"Ready", "Absent"}
  <2>1. w \in FrameType /\ UnderWay /\ w # Idle
    <3>1. TypeOK /\ InPass
      BY <1>1 DEF ListingInv, PassInv, DeleteCondemned, DeleteOutdated
    <3> QED
      BY <3>1, StillRunning DEF UnderWay, Idle
  <2>2. AtReplica(w) = {}
    <3>1. AtCondemned(w) # {} \/ AtUpdate(w) # {}
      BY <1>1 DEF DeleteCondemned, DeleteOutdated
    <3> QED
      BY <3>1 DEF AtCondemned, AtUpdate
  <2>3. p \in Ordinals
    BY DEF Desired
  <2>4. w.replicas[p] = NoPod \/ isHealthy(w.replicas[p])
    BY <1>1, <2>1, <2>2, <2>3, HealthyAll DEF ListingInv, PassInv
  <2>5. Up(w.pods[p])
    BY <1>1, <2>1, <2>4, HealthyServed DEF ListingInv, PassInv
  <2> QED
    BY <1>1, <2>1, <2>3, <2>5, ServedThen
<1>2. ListingInv /\ [Next]_vars
        => [\A o \in Ordinals :
              (DeleteCondemned \/ DeleteOutdated) /\ pods'[o] # pods[o] /\ monotonic(w.view)
              => \A p \in Desired(w.view) \ {o} :
                   Up(w.pods[p]) /\ pods[p].phase \in {"Ready", "Absent"}]_vars
  BY <1>1
<1> QED
  BY <1>2, ListingInvHolds, PTL DEF Spec, TakeDownInOrder

\* A rolling update takes a pod down only when the sync has listed every pod
\* after it as serving, and none of them is starting or at another revision at
\* that moment, under either pod management policy, for every partition and
\* however old the listing is.
THEOREM UpdateOrdered ==
  ASSUME Undisturbed, StaysReady
  PROVE  Spec => UpdateInOrder
<1>1. ASSUME ListingInv, DeleteOutdated, NEW o \in Ordinals, pods'[o] # pods[o],
             NEW p \in Desired(w.view), p > o
      PROVE  /\ Up(w.pods[p])
             /\ exists(pods[p]) => pods[p].phase = "Ready" /\ pods[p].rev = upd(w)
  <2>1. UnderWay /\ p \in Ordinals /\ Up(w.pods[p]) /\ w.pods[p].rev = upd(w)
    BY <1>1, UpdateSeen DEF ListingInv
  <2>2. w # Idle
    BY <2>1 DEF UnderWay, Idle
  <2> QED
    BY <1>1, <2>1, <2>2, ServedThen
<1>2. ListingInv /\ [Next]_vars
        => [\A o \in Ordinals : DeleteOutdated /\ pods'[o] # pods[o]
              => \A p \in Desired(w.view) : p > o =>
                   /\ Up(w.pods[p])
                   /\ exists(pods[p]) => pods[p].phase = "Ready" /\ pods[p].rev = upd(w)]_vars
  BY <1>1
<1> QED
  BY <1>2, ListingInvHolds, PTL DEF Spec, UpdateInOrder

\* truncateHistory spares the revision of a pod: the sync deletes it only
\* when it has listed no pod at that ordinal, or one on its way out, however
\* old its listings of the pods and of the revisions are.
THEOREM PodRevisionsKept ==
  ASSUME Undisturbed
  PROVE  Spec => PodRevisionsSpared
<1>1. ASSUME ListingInv, NEW o \in Ordinals, NEW t \in Templates,
             TruncateHistory, revs[t] > 0, revs'[t] = 0,
             exists(pods[o]), pods[o].rev = t
      PROVE  ~ exists(w.pods[o]) \/ isTerminating(w.pods[o])
  <2>1. revs' # revs /\ revs \in [Templates -> Nat]
    BY <1>1 DEF ListingInv, PassInv, TypeOK
  <2>2. PICK x \in Templates :
          revs' = [revs EXCEPT ![x] = 0] /\ \A p \in Ordinals : w.pods[p].rev # x
    BY <1>1, <2>1, RevisionDeleted DEF ListingInv, PassInv
  <2>3. w.pods[o].rev # t /\ w # Idle
    BY <1>1, <2>1, <2>2 DEF TruncateHistory, Idle
  <2> QED
    BY <1>1, <2>3 DEF ListingInv, ListTells, Foretells, Live
<1>2. ListingInv /\ [Next]_vars
        => [\A o \in Ordinals, t \in Templates :
              /\ TruncateHistory /\ revs[t] > 0 /\ revs'[t] = 0
              /\ exists(pods[o]) /\ pods[o].rev = t
              => ~ exists(w.pods[o]) \/ isTerminating(w.pods[o])]_vars
  BY <1>1
<1> QED
  BY <1>2, ListingInvHolds, PTL DEF Spec, PodRevisionsSpared

-----------------------------------------------------------------------------
(* When a rolling update is recorded as complete. The counters start from   *)
(* the listing, however old it is, and are adjusted for the calls.          *)

Counting == w.pc \in {"pass", "create"}
ListedPods == {o \in Ordinals : exists(w.pods[o])}
ListedReady == {o \in ListedPods : isRunningAndReady(w.pods[o])}
ListedUpdated == {o \in ListedPods : ~ isTerminating(w.pods[o]) /\ w.pods[o].rev = upd(w)}

\* The pass counts the pods it creates, and does not count the ones it
\* deletes as gone: it has no more updated pods than it has listed, apart
\* from those it has created.
Tally ==
  Counting =>
    /\ w.status.readyReplicas = Cardinality(ListedReady)
    /\ Cardinality(ListedPods) <= w.status.replicas
    /\ w.status.updatedReplicas - w.status.replicas
         <= Cardinality(ListedUpdated) - Cardinality(ListedPods)

\* As long as the pass has created no pod, it has not gone past a replica
\* that was not listed.
Filled ==
  Counting /\ w.status.replicas = Cardinality(ListedPods) =>
    \A o \in Desired(w.view) : ~ exists(w.pods[o]) => ~ w.done /\ o >= w.next

\* A status that records the end of an update comes from a listing with all
\* replicas at the update revision.
Completed ==
  w.pc = "status" /\ w.status.currentRevision # w.cur =>
    \A o \in Desired(w.view) : Live(w.pods[o]) /\ w.pods[o].rev = upd(w)

CompletionInv == ListingInv /\ StatusNames /\ Tally /\ Filled /\ Completed

\* Only the end of the pass turns a sync to writing its status.
LEMMA TurnsToStatus ==
  ASSUME TypeOK, Creating, [Next]_vars, w'.pc = "status"
  PROVE  w' = w \/ EndPass
<1>0. Idle.pc # "status"
  BY DEF Idle
<1>1. CASE Sync \/ KeepRevision \/ RollBack \/ CreateRevision
  <2>1. CASE Sync
    BY <2>1 DEF Sync
  <2>2. w' = Idle \/ (w \in FrameType /\ w' = StartPass(w)) \/ Sync
    BY <1>1, Running DEF KeepRevision, RollBack, CreateRevision, Requeue
  <2> QED
    BY <1>0, <2>1, <2>2, PassStarts
<1>2. CASE RecreateFailed \/ CreateClaims \/ CreatePod \/ UpdatePod \/ DeleteCondemned
           \/ DeleteOutdated
  BY <1>0, <1>2, Recreates, TurnsToCreate, Creates, Relabels, ScalesIn, Rolls
     DEF BreaksOff, StaysInPass
<1>3. CASE WriteStatus \/ TruncateHistory
  BY <1>0, <1>3, StatusWrite, RevisionDeleted
<1>4. CASE Finish
  BY <1>0, <1>4 DEF Finish
<1> QED
  BY <1>0, <1>1, <1>2, <1>3, <1>4, Bystanders DEF Worker

\* A set of ordinals that contains another is finite and counts as many.
LEMMA CountGrows ==
  ASSUME NEW S \in SUBSET Ordinals, NEW T \in SUBSET S
  PROVE  /\ IsFiniteSet(S) /\ IsFiniteSet(T)
         /\ Cardinality(S) \in Nat /\ Cardinality(T) \in Nat
         /\ Cardinality(T) <= Cardinality(S)
<1>1. IsFiniteSet(Ordinals)
  BY ControlAssumption, FS_Interval DEF Ordinals
<1>2. IsFiniteSet(S)
  BY <1>1, FS_Subset
<1> QED
  BY <1>2, CountIsNat, FS_Subset

\* The listed pods that are ready, or updated, are some of the listed ones.
LEMMA ListedCounts ==
  /\ Cardinality(ListedPods) \in Nat
  /\ Cardinality(ListedReady) \in Nat /\ Cardinality(ListedReady) <= Cardinality(ListedPods)
  /\ Cardinality(ListedUpdated) \in Nat
  /\ Cardinality(ListedUpdated) <= Cardinality(ListedPods)
  /\ Cardinality(ListedReady) = Cardinality(ListedPods) => ListedReady = ListedPods
  /\ Cardinality(ListedUpdated) = Cardinality(ListedPods) => ListedUpdated = ListedPods
<1>1. /\ ListedPods \in SUBSET Ordinals
      /\ ListedReady \in SUBSET ListedPods /\ ListedUpdated \in SUBSET ListedPods
  BY DEF ListedPods, ListedReady, ListedUpdated
<1>2. IsFiniteSet(ListedPods)
  BY <1>1, CountGrows
<1> QED
  BY <1>1, <1>2, CountGrows, FS_Subset

\* A replica that was not listed is one the first loop stops at.
LEMMA UnlistedStops ==
  ASSUME PassInv, UnderWay, w \in FrameType,
         NEW o \in Desired(w.view), ~ exists(w.pods[o]), o >= w.next
  PROVE  /\ o \in Ordinals /\ ~ isCreated(w.replicas[o])
         /\ AtReplica(w) # {} /\ \A x \in AtReplica(w) : x <= o
<1> DEFINE S == {x \in Ordinals : x >= w.next /\ ~ Settled(w, x)}
<1>1. o \in Ordinals
  BY DEF Desired
<1>2. w.replicas[o].phase = "New"
  BY <1>1 DEF PassInv, Slots
<1>3. ~ isCreated(w.replicas[o]) /\ ~ Settled(w, o)
  BY <1>2 DEF isCreated, Settled, NoPod
<1>4. S \in SUBSET Ordinals /\ o \in S /\ AtReplica(w) = Least(S)
  BY <1>1, <1>3 DEF AtReplica
<1> HIDE DEF S
<1>5. Least(S) # {}
  BY <1>4, LeastAndGreatest
<1> QED
  BY <1>1, <1>3, <1>4, <1>5 DEF Least

\* The pass starts from the counts of the listing.
LEMMA TallyStart ==
  ASSUME w \in FrameType, w' = StartPass(w), w.next = 0, ~ w.done
  PROVE  Tally' /\ Filled'
<1>1. /\ w'.view = w.view /\ w'.pods = w.pods /\ w'.next = 0 /\ ~ w'.done
      /\ w'.status = CountStatus(w, currentRevision(w))
  BY PassStarts
<1>2. ListedPods' = ListedPods /\ ListedReady' = ListedReady /\ ListedUpdated' = ListedUpdated
  BY <1>1 DEF ListedPods, ListedReady, ListedUpdated, upd
<1>3. /\ w'.status.readyReplicas = Cardinality(ListedReady)
      /\ w'.status.replicas = Cardinality(ListedPods)
      /\ w'.status.updatedReplicas = Cardinality(ListedUpdated)
  BY <1>1 DEF CountStatus, ListedPods, ListedReady, ListedUpdated
<1>4. Tally'
  BY <1>2, <1>3, ListedCounts DEF Tally
<1>5. \A o \in Desired(w.view) : o >= 0
  BY ControlAssumption DEF Desired, Ordinals
<1> QED
  BY <1>1, <1>4, <1>5 DEF Filled

\* The counts and the place of the loop after a step of the pass.
LEMMA TallyStep ==
  ASSUME ListingInv, Tally, Filled, [Next]_vars
  PROVE  Tally' /\ Filled'
<1> USE DEF ListingInv, PassInv
<1>0. Idle.pc = "idle" /\ Ordinals \subseteq Nat
  BY ControlAssumption DEF Idle, Ordinals
<1>1. CASE w' = w
  BY <1>1 DEF Tally, Filled, Counting, ListedPods, ListedReady, ListedUpdated, upd
<1>2. CASE BreaksOff \/ w' = Idle \/ Sync \/ w'.pc \in {"status", "truncate"}
  <2>1. w'.pc \notin {"pass", "create"}
    BY <1>0, <1>2 DEF BreaksOff, Sync
  <2> QED
    BY <2>1 DEF Tally, Filled, Counting
<1>3. CASE w \in FrameType /\ w.pc = "revisions" /\ w' = StartPass(w)
  BY <1>3, TallyStart DEF Started
<1>4. ASSUME w'.view = w.view, w'.pods = w.pods
      PROVE  /\ ListedPods' = ListedPods /\ ListedReady' = ListedReady
             /\ ListedUpdated' = ListedUpdated
  BY <1>4 DEF ListedPods, ListedReady, ListedUpdated, upd
<1>5. CASE CreateClaims /\ ~ BreaksOff
  <2>1. w \in FrameType /\ UnderWay /\ Counting
    BY <1>5, StillRunning DEF CreateClaims, UnderWay, Counting
  <2>2. PICK o \in AtReplica(w) :
          /\ w'.next = o /\ w'.done = w.done /\ w'.status = w.status
          /\ w'.view = w.view /\ w'.pods = w.pods
    BY <1>5, TurnsToCreate
  <2>3. Tally'
    BY <1>4, <2>1, <2>2 DEF Tally
  <2>4. o \in Nat
    BY <1>0, <2>1, StopsAtOrdinals
  <2>5. ASSUME w.status.replicas = Cardinality(ListedPods),
               NEW x \in Desired(w.view), ~ exists(w.pods[x])
        PROVE  ~ w.done /\ x >= o
    <3>1. ~ w.done /\ x >= w.next
      BY <2>1, <2>5 DEF Filled
    <3>2. o <= x /\ x \in Nat
      BY <1>0, <2>1, <2>5, <3>1, UnlistedStops
    <3> QED
      BY <2>4, <3>1, <3>2
  <2> QED
    BY <1>4, <2>2, <2>3, <2>5 DEF Filled
<1>6. CASE CreatePod /\ ~ BreaksOff
  <2>1. /\ w \in FrameType /\ w.pc = "create" /\ StaysInPass
        /\ w'.status.replicas = w.status.replicas + 1
        /\ w'.status.readyReplicas = w.status.readyReplicas
        /\ w'.status.updatedReplicas = w.status.updatedReplicas
             + (IF w.replicas[w.next].rev = upd(w) THEN 1 ELSE 0)
    BY <1>6, Creates
  <2>2. /\ w.status.replicas \in Int /\ w.status.updatedReplicas \in Int
    BY <2>1 DEF FrameType, StatusType
  <2>3. /\ ListedPods' = ListedPods /\ ListedReady' = ListedReady
        /\ ListedUpdated' = ListedUpdated
    BY <1>4, <2>1 DEF StaysInPass
  <2>4. /\ w.status.readyReplicas = Cardinality(ListedReady)
        /\ Cardinality(ListedPods) <= w.status.replicas
        /\ w.status.updatedReplicas - w.status.replicas
             <= Cardinality(ListedUpdated) - Cardinality(ListedPods)
    BY <2>1 DEF Tally, Counting
  <2>5. PICK c \in Nat : c = Cardinality(ListedPods)
    BY ListedCounts
  <2>6. PICK u \in Nat : u = Cardinality(ListedUpdated)
    BY ListedCounts
  <2>7. c <= w'.status.replicas /\ w'.status.replicas # c
    BY <2>1, <2>2, <2>4, <2>5
  <2>8. w'.status.updatedReplicas - w'.status.replicas <= u - c
    BY <2>1, <2>2, <2>4, <2>5, <2>6
  <2>9. Tally'
    BY <2>1, <2>3, <2>4, <2>5, <2>6, <2>7, <2>8 DEF Tally
  <2> QED
    BY <2>3, <2>5, <2>7, <2>9 DEF Filled
<1>7. CASE UpdatePod /\ ~ BreaksOff
  <2>1. w \in FrameType /\ UnderWay /\ Counting
    BY <1>7, StillRunning DEF UpdatePod, UnderWay, Counting
  <2>2. PICK o \in AtReplica(w) :
          /\ isCreated(w.replicas[o]) /\ StaysInPass
          /\ w'.next = o + 1 /\ w'.done = w.done /\ w'.status = w.status
    BY <1>7, Relabels
  <2>3. Tally'
    BY <1>4, <2>1, <2>2 DEF Tally, StaysInPass
  <2>4. o \in Nat
    BY <1>0, <2>1, StopsAtOrdinals
  <2>5. ASSUME w.status.replicas = Cardinality(ListedPods),
               NEW x \in Desired(w.view), ~ exists(w.pods[x])
        PROVE  ~ w.done /\ x >= o + 1
    <3>1. ~ w.done /\ x >= w.next
      BY <2>1, <2>5 DEF Filled
    <3>2. o <= x /\ x \in Nat /\ ~ isCreated(w.replicas[x])
      BY <1>0, <2>1, <2>5, <3>1, UnlistedStops
    <3> QED
      BY <2>2, <2>4, <3>1, <3>2
  <2> QED
    BY <1>4, <2>2, <2>3, <2>5 DEF Filled, StaysInPass
<1>8. CASE (DeleteCondemned \/ DeleteOutdated) /\ ~ BreaksOff
  <2>1. w \in FrameType /\ UnderWay /\ Counting /\ InPass
    BY <1>8, StillRunning DEF DeleteCondemned, DeleteOutdated, UnderWay, Counting
  <2>2. /\ StaysInPass
        /\ w'.status.replicas = w.status.replicas
        /\ w'.status.readyReplicas = w.status.readyReplicas
        /\ w'.status.updatedReplicas <= w.status.updatedReplicas
        /\ w'.status.updatedReplicas \in Int
    <3>1. w' \in FrameType
      <4>1. StaysInPass /\ TypeOK'
        BY <1>8, ScalesIn, Rolls, TypeStep
      <4> QED
        BY <1>0, <4>1 DEF StaysInPass, TypeOK
    <3>2. w.status.updatedReplicas \in Int /\ w'.status.updatedReplicas \in Int
      BY <2>1, <3>1 DEF FrameType, StatusType
    <3>3. CASE DeleteCondemned
      BY <1>8, <3>2, <3>3, ScalesIn
    <3>4. CASE DeleteOutdated
      <4>1. /\ StaysInPass
            /\ w'.status.replicas = w.status.replicas
            /\ w'.status.readyReplicas = w.status.readyReplicas
            /\ w'.status.updatedReplicas = w.status.updatedReplicas
        BY <1>8, <3>4, Rolls
      <4> QED
        BY <3>2, <4>1
    <3> QED
      BY <1>8, <3>3, <3>4
  <2>3. /\ ListedPods' = ListedPods /\ ListedReady' = ListedReady
        /\ ListedUpdated' = ListedUpdated
    BY <1>4, <2>2 DEF StaysInPass
  <2>4. w'.status.updatedReplicas - w'.status.replicas
          <= Cardinality(ListedUpdated) - Cardinality(ListedPods)
    <3>1. w.status.replicas \in Int /\ w.status.updatedReplicas \in Int
      BY <2>1 DEF FrameType, StatusType
    <3> QED
      BY <2>1, <2>2, <3>1, ListedCounts DEF Tally
  <2>5. Tally'
    BY <2>1, <2>2, <2>3, <2>4 DEF Tally
  <2>6. AtReplica(w) = {}
    <3>1. AtCondemned(w) # {} \/ AtUpdate(w) # {}
      BY <1>8 DEF DeleteCondemned, DeleteOutdated
    <3> QED
      BY <3>1 DEF AtCondemned, AtUpdate
  <2>7. w.status.replicas = Cardinality(ListedPods) =>
          \A x \in Desired(w.view) : exists(w.pods[x])
    BY <2>1, <2>6, UnlistedStops DEF Filled
  <2> QED
    BY <2>2, <2>3, <2>5, <2>7 DEF Filled, StaysInPass
<1> QED
  BY <1>1, <1>2, <1>3, <1>5, <1>6, <1>7, <1>8, PassCases, NothingToRecreate

\* The pass ends with an update complete only when it has listed every
\* replica as live at the update revision.
LEMMA CompletedEnd ==
  ASSUME ListingInv, StatusNames, Tally, Filled, EndPass,
         w'.pc = "status", w'.status.currentRevision # w'.cur,
         NEW o \in Desired(w.view)
  PROVE  Live(w.pods[o]) /\ w.pods[o].rev = upd(w)
<1> USE DEF ListingInv, PassInv
<1>1. /\ w \in FrameType /\ w.pc = "pass" /\ w'.cur = w.cur
      /\ w'.status = completeRollingUpdate(w.view, w.status)
  BY PassEnds
<1>2. /\ w.status.updatedReplicas = w.status.replicas
      /\ w.status.readyReplicas = w.status.replicas
  BY <1>1 DEF StatusNames, completeRollingUpdate
<1>3. /\ w.status.readyReplicas = Cardinality(ListedReady)
      /\ Cardinality(ListedPods) <= w.status.replicas
      /\ w.status.updatedReplicas - w.status.replicas
           <= Cardinality(ListedUpdated) - Cardinality(ListedPods)
      /\ w.status.replicas \in Int
  BY <1>1 DEF Tally, Counting, FrameType, StatusType
<1>4. w.status.replicas = Cardinality(ListedPods) /\ ListedReady = ListedPods
  BY <1>2, <1>3, ListedCounts
<1>5. ListedUpdated = ListedPods
  BY <1>2, <1>3, ListedCounts
<1>6. \A x \in Ordinals : exists(w.pods[x]) =>
        isHealthy(w.pods[x]) /\ w.pods[x].rev = upd(w)
  BY <1>4, <1>5 DEF ListedPods, ListedReady, ListedUpdated, isHealthy
<1>7. o \in Ordinals
  BY DEF Desired
<1>8. exists(w.pods[o])
  <2> SUFFICES ASSUME ~ exists(w.pods[o]) PROVE FALSE
    OBVIOUS
  <2>1. ~ w.done /\ o >= w.next
    BY <1>1, <1>4 DEF Filled, Counting
  <2>2. UnderWay /\ w # Idle
    BY <1>1, <2>1 DEF UnderWay, Idle
  <2>3. AtReplica(w) # {}
    BY <1>1, <2>1, <2>2, UnlistedStops
  <2>4. ASSUME NEW x \in AtReplica(w), MustWaitFor(w, x) PROVE FALSE
    <3>1. x \in Ordinals
      BY <1>1, StopsAtOrdinals
    <3>2. isCreated(w.replicas[x]) /\ ~ isHealthy(w.replicas[x])
      BY <2>4 DEF MustWaitFor
    <3>3. NoPod.phase = "Absent" /\ w.replicas[x].phase \notin {"Absent", "New"}
      BY <3>2 DEF isCreated, NoPod
    <3>4. w.replicas[x] = w.pods[x] /\ exists(w.pods[x])
      BY <2>2, <3>1, <3>3 DEF Slots
    <3> QED
      BY <1>6, <3>1, <3>2, <3>4
  <2>5. AtCondemned(w) = {}
    BY <2>3 DEF AtCondemned
  <2>6. ~ w.view.deleting
    BY <2>2 DEF Alive
  <2> QED
    BY <2>1, <2>3, <2>4, <2>5, <2>6 DEF EndPass, PassOver
<1> QED
  BY <1>6, <1>7, <1>8 DEF Live, isHealthy

\* Only the end of a pass decides that an update is complete.
LEMMA CompletedStep ==
  ASSUME CompletionInv, [Next]_vars
  PROVE  Completed'
<1> USE DEF CompletionInv
<1> SUFFICES ASSUME w'.pc = "status", w'.status.currentRevision # w'.cur,
                    NEW o \in Desired(w'.view)
             PROVE  Live(w'.pods[o]) /\ w'.pods[o].rev = upd(w')
  BY DEF Completed
<1>1. CASE w' = w
  BY <1>1 DEF Completed
<1>2. CASE EndPass
  <2>1. w'.view = w.view /\ w'.pods = w.pods
    BY <1>2, PassEnds DEF ListingInv, PassInv
  <2> QED
    BY <1>2, <2>1, CompletedEnd DEF upd
<1> QED
  BY <1>1, <1>2, TurnsToStatus DEF ListingInv, PassInv

\* A rolling update is recorded as complete only when no replica is left at
\* another revision, for every strategy and policy, across edits and broken
\* syncs, however old the listing is from which the counters started.
THEOREM CompletionIsSound ==
  ASSUME Undisturbed
  PROVE  Spec => CompletionSound
<1>1. Init => StatusNames /\ Tally /\ Filled /\ Completed
  <2> SUFFICES ASSUME Init PROVE StatusNames /\ Tally /\ Filled /\ Completed
    OBVIOUS
  <2>1. w.pc = "idle"
    BY DEF Init, Idle
  <2> QED
    BY <2>1 DEF StatusNames, Tally, Filled, Completed, Counting
<1>2. CompletionInv /\ [Next]_vars => (StatusNames /\ Tally /\ Filled /\ Completed)'
  BY StatusNamesStep, TallyStep, CompletedStep DEF CompletionInv, ListingInv, PassInv
<1>3. Spec => []CompletionInv
  BY <1>1, <1>2, ListingInvHolds, PTL DEF Spec, CompletionInv
<1>4. ASSUME CompletionInv, WriteStatus, w.status.currentRevision # w.cur,
             NEW o \in Desired(w.view), exists(pods[o])
      PROVE  pods[o].rev = w.status.currentRevision
  <2>1. w.pc = "status" /\ w # Idle
    BY <1>4 DEF WriteStatus, Idle
  <2>2. Live(w.pods[o]) /\ w.pods[o].rev = upd(w)
    BY <1>4, <2>1 DEF CompletionInv, Completed
  <2>3. o \in Ordinals
    BY DEF Desired
  <2>4. pods[o].rev = upd(w)
    BY <1>4, <2>1, <2>2, <2>3 DEF CompletionInv, ListingInv, ListTells, Foretells
  <2> QED
    BY <1>4, <2>1, <2>4 DEF CompletionInv, StatusNames
<1>5. CompletionInv /\ [Next]_vars
        => [WriteStatus /\ w' # Idle /\ w.status.currentRevision # w.cur
              => \A o \in Desired(w.view) : exists(pods[o]) =>
                   pods[o].rev = w.status.currentRevision]_vars
  BY <1>4
<1> QED
  BY <1>3, <1>5, PTL DEF Spec, CompletionSound
=============================================================================
