--------------------- MODULE StatefulSetRevisionsProofs ---------------------
(***************************************************************************)
(* The revisions a StatefulSet depends on: the ones its pods were built    *)
(* from and the ones its status names. truncateHistory deletes from a list *)
(* it read at the start of the sync, pods come and go meanwhile, and a     *)
(* sync may break off after any call.                                      *)
(***************************************************************************)
EXTENDS StatefulSetControlProofs

\* Where a sync is once it knows its revisions.
Later == {"pass", "create", "status", "truncate"}

-----------------------------------------------------------------------------
(* What a step does to the frame of a sync, its revisions and its pods. *)

\* What the pass over the pods starts with.
LEMMA PassStarts ==
  ASSUME NEW f \in FrameType
  PROVE  /\ StartPass(f).pc = "pass"
         /\ StartPass(f).view = f.view /\ StartPass(f).pods = f.pods
         /\ StartPass(f).revs = f.revs
         /\ StartPass(f).next = f.next /\ StartPass(f).done = f.done
         /\ StartPass(f).cur = currentRevision(f)
         /\ StartPass(f).status = CountStatus(f, currentRevision(f))
         /\ StartPass(f).condemned =
              IF monotonic(f.view) THEN Condemned(f)
              ELSE {o \in Condemned(f) : ~ isTerminating(f.pods[o])}
         /\ StartPass(f).replicas =
              [o \in Ordinals |->
                 IF o \notin Desired(f.view) THEN NoPod
                 ELSE IF exists(f.pods[o]) THEN f.pods[o]
                 ELSE newVersionedStatefulSetPod(f.view, currentRevision(f), o)]
<1> DEFINE cur == currentRevision(f)
           st == CountStatus(f, cur)
           reps == [o \in Ordinals |->
                      IF o \notin Desired(f.view) THEN NoPod
                      ELSE IF exists(f.pods[o]) THEN f.pods[o]
                      ELSE newVersionedStatefulSetPod(f.view, cur, o)]
           cond == IF monotonic(f.view) THEN Condemned(f)
                   ELSE {o \in Condemned(f) : ~ isTerminating(f.pods[o])}
<1>1. StartPass(f) = [f EXCEPT !.pc = "pass", !.cur = cur, !.status = st,
                               !.replicas = reps, !.condemned = cond]
  BY DEF StartPass
<1> HIDE DEF cur, st, reps, cond
<1>2. /\ StartPass(f).pc = "pass"
      /\ StartPass(f).view = f.view /\ StartPass(f).pods = f.pods
      /\ StartPass(f).revs = f.revs
      /\ StartPass(f).next = f.next /\ StartPass(f).done = f.done
      /\ StartPass(f).cur = cur /\ StartPass(f).status = st
      /\ StartPass(f).replicas = reps /\ StartPass(f).condemned = cond
  BY <1>1 DEF FrameType
<1> QED
  BY <1>2 DEF cur, st, reps, cond

\* The revisions a sync works with are templates.
LEMMA FrameRevisions ==
  ASSUME NEW f \in FrameType
  PROVE  /\ upd(f) \in Templates /\ f.cur \in Templates
         /\ currentRevision(f) \in {f.view.status.currentRevision, upd(f)}
         /\ currentRevision(f) # upd(f) =>
              currentRevision(f) \in Templates /\ f.revs[currentRevision(f)] > 0
         /\ f.view \in SetType /\ f.view.status \in StatusType
BY SpecFields DEF FrameType, upd, currentRevision, ListedRevisions

\* Whoever is not the worker leaves the sync alone or breaks it off.
LEMMA Bystanders ==
  ASSUME [Next]_vars, ~ Worker
  PROVE  w' = w \/ (w' = Idle /\ queued')
BY DEF Next, vars, Informers, RefreshSet, RefreshPods, RefreshClaims, RefreshRevisions,
       Cluster, BecomeReady, Terminated, CollectPod, EditSet, Disturb, SyncBreaks,
       ClaimFails, DeleteSet, PodFails, PodUnready, DrainPod, RelabelPod, DropClaim,
       Requeue

\* A sync goes on with the set, the pods and the current revision it has.
GoesOn ==
  /\ w \in FrameType /\ w.pc \in Later /\ w'.pc \in Later
  /\ w'.view = w.view /\ w'.pods = w.pods /\ w'.cur = w.cur
  /\ w'.revs = w.revs \/ TruncateHistory
  /\ w'.pc \in {"pass", "create"} => w.pc \in {"pass", "create"}
  /\ w.pc = "truncate" => w'.pc = "truncate"
  /\ w'.pc = "truncate" => w.pc = "truncate" \/ EndPass \/ WriteStatus
  /\ \/ w'.replicas = w.replicas
     \/ \E o \in Ordinals : w'.replicas =
          [w.replicas EXCEPT ![o] = newVersionedStatefulSetPod(w.view, w.cur, o)]

\* Between its start and its end a sync turns to the pods once, and goes on.
LEMMA FrameStep ==
  ASSUME TypeOK, [Next]_vars, ~ Sync
  PROVE  \/ w' = w
         \/ w' = Idle
         \/ /\ KeepRevision \/ RollBack \/ CreateRevision
            /\ w \in FrameType /\ w.pc = "revisions" /\ w' = StartPass(w)
         \/ GoesOn
<1>0. w.pc # "idle" => w \in FrameType
  BY Running
<1>1. CASE KeepRevision \/ RollBack \/ CreateRevision
  BY <1>0, <1>1 DEF KeepRevision, RollBack, CreateRevision, Requeue
<1>2. CASE RecreateFailed
  <2>1. w \in FrameType /\ w.pc = "pass"
    BY <1>0, <1>2 DEF RecreateFailed, InPass
  <2> DEFINE F(o, st) == [w EXCEPT
                 !.replicas[o] = newVersionedStatefulSetPod(w.view, w.cur, o),
                 !.status = st]
  <2>2. w' = Idle \/ \E o \in AtReplica(w) : \E st : w' = F(o, st)
    BY <1>2 DEF RecreateFailed, Requeue
  <2>3. \A o, st : F(o, st).pc = "pass" /\ F(o, st).view = w.view
                     /\ F(o, st).pods = w.pods /\ F(o, st).cur = w.cur
                     /\ F(o, st).revs = w.revs
                     /\ F(o, st).replicas = [w.replicas EXCEPT
                          ![o] = newVersionedStatefulSetPod(w.view, w.cur, o)]
    BY <2>1 DEF FrameType
  <2>4. AtReplica(w) \subseteq Ordinals
    BY <2>1, StopsAtOrdinals
  <2> HIDE DEF F
  <2>5. ASSUME NEW o \in AtReplica(w), NEW st, w' = F(o, st)
        PROVE  GoesOn
    <3>1. w'.replicas =
            [w.replicas EXCEPT ![o] = newVersionedStatefulSetPod(w.view, w.cur, o)]
      BY <2>3, <2>5
    <3>2. o \in Ordinals
      BY <2>4
    <3>3. \E x \in Ordinals : w'.replicas =
            [w.replicas EXCEPT ![x] = newVersionedStatefulSetPod(w.view, w.cur, x)]
      BY <3>1, <3>2
    <3> QED
      BY <2>1, <2>3, <2>5, <3>3 DEF GoesOn, Later
  <2> QED
    BY <2>2, <2>5
<1>3. CASE CreateClaims
  BY <1>0, <1>3 DEF CreateClaims, InPass, Requeue, GoesOn, Later, FrameType
<1>4. CASE CreatePod
  <2>1. w \in FrameType /\ w.pc = "create"
    BY <1>0, <1>4 DEF CreatePod
  <2> DEFINE F(n, d, st) == [w EXCEPT !.pc = "pass", !.next = n, !.done = d, !.status = st]
  <2>2. w' = Idle \/ \E n, d, st : w' = F(n, d, st)
    BY <1>4 DEF CreatePod, Requeue
  <2>3. \A n, d, st : F(n, d, st).pc = "pass" /\ F(n, d, st).view = w.view
                     /\ F(n, d, st).pods = w.pods /\ F(n, d, st).cur = w.cur
                     /\ F(n, d, st).revs = w.revs /\ F(n, d, st).replicas = w.replicas
    BY <2>1 DEF FrameType
  <2> HIDE DEF F
  <2> QED
    BY <2>1, <2>2, <2>3 DEF GoesOn, Later
<1>5. CASE UpdatePod
  BY <1>0, <1>5 DEF UpdatePod, InPass, Requeue, GoesOn, Later, FrameType
<1>6. CASE DeleteCondemned
  <2>1. w \in FrameType /\ w.pc = "pass"
    BY <1>0, <1>6 DEF DeleteCondemned, InPass
  <2> DEFINE F(c, d, st) == [w EXCEPT !.condemned = c, !.done = d, !.status = st]
  <2>2. w' = Idle \/ \E c, d, st : w' = F(c, d, st)
    BY <1>6 DEF DeleteCondemned, Requeue
  <2>3. \A c, d, st : F(c, d, st).pc = "pass" /\ F(c, d, st).view = w.view
                     /\ F(c, d, st).pods = w.pods /\ F(c, d, st).cur = w.cur
                     /\ F(c, d, st).revs = w.revs /\ F(c, d, st).replicas = w.replicas
    BY <2>1 DEF FrameType
  <2> HIDE DEF F
  <2> QED
    BY <2>1, <2>2, <2>3 DEF GoesOn, Later
<1>7. CASE DeleteOutdated
  BY <1>0, <1>7 DEF DeleteOutdated, InPass, Requeue, GoesOn, Later, FrameType
<1>8. CASE EndPass
  <2>1. w \in FrameType /\ w.pc = "pass"
    BY <1>0, <1>8 DEF EndPass
  <2> DEFINE F(st, p) == [w EXCEPT !.status = st, !.pc = p]
  <2>2. \E st : \E p \in {"status", "truncate"} : w' = F(st, p)
    BY <1>8 DEF EndPass
  <2>3. \A st, p : F(st, p).pc = p /\ F(st, p).view = w.view
                     /\ F(st, p).pods = w.pods /\ F(st, p).cur = w.cur
                     /\ F(st, p).revs = w.revs /\ F(st, p).replicas = w.replicas
    BY <2>1 DEF FrameType
  <2> HIDE DEF F
  <2> QED
    BY <1>8, <2>1, <2>2, <2>3 DEF GoesOn, Later
<1>9. CASE WriteStatus
  BY <1>0, <1>9 DEF WriteStatus, Requeue, GoesOn, Later, FrameType
<1>10. CASE TruncateHistory
  <2>1. w \in FrameType /\ w.pc = "truncate"
    BY <1>0, <1>10 DEF TruncateHistory
  <2>2. w' = Idle \/ \E t : w' = [w EXCEPT !.revs[t] = 0]
    BY <1>10 DEF TruncateHistory, Requeue
  <2> QED
    BY <1>10, <2>1, <2>2 DEF GoesOn, Later, FrameType
<1>11. CASE Finish
  BY <1>11 DEF Finish
<1> QED
  BY <1>1, <1>2, <1>3, <1>4, <1>5, <1>6, <1>7, <1>8, <1>9, <1>10, <1>11, Bystanders
     DEF Worker

\* Revisions change when a sync makes or renumbers its update revision, and
\* when it truncates the history.
LEMMA RevisionsStep ==
  ASSUME TypeOK, [Next]_vars
  PROVE  \/ UNCHANGED revs
         \/ RollBack \/ CreateRevision
         \/ TruncateHistory
BY DEF Next, vars, Worker, Sync, KeepRevision,
       RecreateFailed, CreateClaims, CreatePod, UpdatePod, DeleteCondemned,
       DeleteOutdated, EndPass, WriteStatus, Finish, Informers, RefreshSet,
       RefreshPods, RefreshClaims, RefreshRevisions, Cluster, BecomeReady,
       Terminated, CollectPod, EditSet, Disturb, SyncBreaks, ClaimFails,
       DeleteSet, PodFails, PodUnready, DrainPod, RelabelPod, DropClaim, api

\* A revision that is made or renumbered exists, the others are as before.
LEMMA RevisionMade ==
  ASSUME TypeOK, RollBack \/ CreateRevision
  PROVE  \/ w' = Idle /\ UNCHANGED revs
         \/ /\ w \in FrameType /\ w.pc = "revisions" /\ w' = StartPass(w)
            /\ revs'[upd(w)] > 0
            /\ \A t \in Templates \ {upd(w)} : revs'[t] = revs[t]
<1>1. w \in FrameType /\ w.pc = "revisions"
  BY Running DEF RollBack, CreateRevision
<1>2. upd(w) \in Templates /\ revs \in [Templates -> Nat] /\ w.revs \in [Templates -> Nat]
  BY <1>1, FrameRevisions DEF TypeOK, FrameType
<1>3. \A n \in nextRevision(w) : n \in Nat /\ n > 0
  BY <1>2 DEF nextRevision
<1>4. CASE RollBack
  BY <1>1, <1>2, <1>3, <1>4 DEF RollBack, Requeue
<1>5. CASE CreateRevision
  BY <1>1, <1>2, <1>3, <1>5 DEF CreateRevision
<1> QED
  BY <1>4, <1>5

\* A revision that is deleted is neither the current nor the update revision
\* of the sync, nor the one of a pod it listed.
LEMMA RevisionDeleted ==
  ASSUME TypeOK, TruncateHistory
  PROVE  \/ w' = Idle /\ queued' /\ UNCHANGED revs
         \/ \E t \in Templates \ {w.cur, upd(w)} :
              /\ \A o \in Ordinals : w.pods[o].rev # t
              /\ w \in FrameType /\ w.pc = "truncate" /\ w'.pc = "truncate"
              /\ revs' = [revs EXCEPT ![t] = 0]
              /\ w'.revs = [w.revs EXCEPT ![t] = 0]
              /\ w'.view = w.view /\ w'.pods = w.pods /\ w'.cur = w.cur
              /\ w'.status = w.status
              /\ UNCHANGED queued
<1>1. w \in FrameType /\ w.pc = "truncate"
  BY Running DEF TruncateHistory
<1>2. PICK t \in History(w) :
        \/ /\ revs' = [revs EXCEPT ![t] = 0]
           /\ w' = [w EXCEPT !.revs[t] = 0]
           /\ UNCHANGED queued
        \/ w' = Idle /\ queued' /\ UNCHANGED revs
  BY DEF TruncateHistory, Requeue
<1>3. /\ t \in Templates \ {w.cur, upd(w)}
      /\ \A o \in Ordinals : w.pods[o].rev # t
  BY DEF History, ListedRevisions
<1>4. CASE w' = [w EXCEPT !.revs[t] = 0]
  <2>1. /\ w'.revs = [w.revs EXCEPT ![t] = 0] /\ w'.pc = "truncate"
        /\ w'.view = w.view /\ w'.pods = w.pods /\ w'.cur = w.cur
        /\ w'.status = w.status
    BY <1>1, <1>3, <1>4 DEF FrameType
  <2> QED
    BY <1>1, <1>2, <1>3, <2>1
<1> QED
  BY <1>2, <1>4

\* Only CreatePod makes a pod; any other step keeps the revision of a pod.
LEMMA PodKeepsRevision ==
  ASSUME TypeOK, [Next]_vars, ~ CreatePod
  PROVE  \A x \in Ordinals : exists(pods'[x]) =>
           exists(pods[x]) /\ pods'[x].rev = pods[x].rev
<1> SUFFICES ASSUME NEW x \in Ordinals, exists(pods'[x]), pods'[x] # pods[x]
             PROVE  exists(pods[x]) /\ pods'[x].rev = pods[x].rev
  OBVIOUS
<1>1. exists(pods[x])
  BY NoNewPodStep
<1>2. pods[x] \in [phase : {"New", "Pending", "Ready", "Failed"}, terminating : BOOLEAN,
                   rev : Templates, labelled : BOOLEAN]
  BY <1>1 DEF TypeOK, ApiPodType, PodType, exists, NoPod
<1>3. ~ exists(NoPod)
  BY DEF exists, NoPod
<1>4. \/ pods'[x] = ApiDelete(pods[x])
      \/ pods'[x] = NoPod
      \/ \E l : pods'[x] = [pods[x] EXCEPT !.labelled = l]
      \/ \E ph : pods'[x] = [pods[x] EXCEPT !.phase = ph]
  <2>0. w.pc # "idle" => w \in FrameType
    BY Running
  <2>1. ASSUME NEW o \in Ordinals, NEW p, PodBecomes(o, p)
        PROVE  o = x /\ pods'[x] = p
    BY <2>1 DEF PodBecomes, TypeOK
  <2>2. CASE RecreateFailed \/ UpdatePod
    <3>1. AtReplica(w) \subseteq Ordinals
      BY <2>0, <2>2, StopsAtOrdinals DEF RecreateFailed, UpdatePod, InPass
    <3> QED
      BY <2>1, <2>2, <3>1 DEF RecreateFailed, UpdatePod, DeletePod
  <2>3. CASE DeleteCondemned \/ DeleteOutdated
    <3>1. AtCondemned(w) \subseteq Ordinals /\ AtUpdate(w) \subseteq Ordinals
      BY <2>0, <2>3, StopsAtOrdinals DEF DeleteCondemned, DeleteOutdated, InPass
    <3> QED
      BY <2>1, <2>3, <3>1 DEF DeleteCondemned, DeleteOutdated, DeletePod
  <2>4. ASSUME NEW o \in Ordinals,
               BecomeReady(o) \/ Terminated(o) \/ CollectPod(o) \/ PodFails(o)
                 \/ PodUnready(o) \/ DrainPod(o) \/ RelabelPod(o)
        PROVE  \/ pods'[x] = ApiDelete(pods[x])
               \/ pods'[x] = NoPod
               \/ \E l : pods'[x] = [pods[x] EXCEPT !.labelled = l]
               \/ \E ph : pods'[x] = [pods[x] EXCEPT !.phase = ph]
    BY <2>1, <2>4 DEF BecomeReady, Terminated, CollectPod, PodFails, PodUnready,
         DrainPod, RelabelPod, DeletePod
  <2>5. ~ UNCHANGED pods
    OBVIOUS
  <2> QED
    BY <2>2, <2>3, <2>4, <2>5 DEF Next, vars, Worker, Sync, KeepRevision, RollBack,
         CreateRevision, CreateClaims, EndPass, WriteStatus, TruncateHistory, Finish,
         Informers, RefreshSet, RefreshPods, RefreshClaims, RefreshRevisions, Cluster,
         EditSet, Disturb, SyncBreaks, ClaimFails, DeleteSet, DropClaim, api
<1> QED
  BY <1>1, <1>2, <1>3, <1>4 DEF ApiDelete

-----------------------------------------------------------------------------
(* The caches of the set and the pods. *)

\* A watch with nothing to deliver has delivered everything.
SetCacheFresh == "set" \notin events => setCache = set
PodCacheFresh == "pods" \notin events => podCache = pods

\* Every change of the set or a pod is announced; a refresh takes the event
\* and gives the key to the queue.
LEMMA EventsStep ==
  ASSUME TypeOK, [Next]_vars
  PROVE  /\ set' = set \/ "set" \in events'
         /\ pods' = pods \/ "pods" \in events'
         /\ \/ RefreshSet
            \/ UNCHANGED setCache /\ ("set" \in events => "set" \in events')
         /\ \/ RefreshPods
            \/ UNCHANGED podCache /\ ("pods" \in events => "pods" \in events')
<1> DEFINE Told == /\ set' = set \/ "set" \in events'
                   /\ pods' = pods \/ "pods" \in events'
                   /\ events \subseteq events'
<1>0. w.pc # "idle" => w \in FrameType
  BY Running
<1>1. ASSUME NEW o \in Ordinals, NEW p, PodBecomes(o, p), UNCHANGED set
      PROVE  Told
  BY <1>1 DEF PodBecomes, TypeOK
<1>2. ASSUME NEW s, SetBecomes(s), UNCHANGED pods
      PROVE  Told
  BY <1>2 DEF SetBecomes
<1>3. CASE RecreateFailed \/ UpdatePod
  <2>1. AtReplica(w) \subseteq Ordinals
    BY <1>0, <1>3, StopsAtOrdinals DEF RecreateFailed, UpdatePod, InPass
  <2>2. Told
    BY <1>1, <1>3, <2>1 DEF RecreateFailed, UpdatePod, DeletePod
  <2> QED
    BY <1>3, <2>2 DEF RecreateFailed, UpdatePod, caches
<1>4. CASE DeleteCondemned \/ DeleteOutdated
  <2>1. AtCondemned(w) \subseteq Ordinals /\ AtUpdate(w) \subseteq Ordinals
    BY <1>0, <1>4, StopsAtOrdinals DEF DeleteCondemned, DeleteOutdated, InPass
  <2>2. Told
    BY <1>1, <1>4, <2>1 DEF DeleteCondemned, DeleteOutdated, DeletePod
  <2> QED
    BY <1>4, <2>2 DEF DeleteCondemned, DeleteOutdated, caches
<1>5. CASE CreatePod
  <2>1. CASE UNCHANGED <<pods, events>>
    BY <1>5, <2>1 DEF CreatePod, caches
  <2>2. CASE PodBecomes(w.next, [w.replicas[w.next] EXCEPT !.phase = "Pending"])
    <3>1. (pods' = pods \/ "pods" \in events') /\ events \subseteq events'
      BY <2>2 DEF PodBecomes, TypeOK
    <3> QED
      BY <1>5, <3>1 DEF CreatePod, caches
  <2> QED
    BY <1>5, <2>1, <2>2 DEF CreatePod
<1>6. CASE WriteStatus
  <2>1. Told
    BY <1>2, <1>6 DEF WriteStatus
  <2> QED
    BY <1>6, <2>1 DEF WriteStatus, caches
<1>7. CASE Informers
  BY <1>7 DEF Informers, RefreshSet, RefreshPods, RefreshClaims, RefreshRevisions, api
<1>8. ASSUME NEW o \in Ordinals,
             BecomeReady(o) \/ Terminated(o) \/ CollectPod(o) \/ PodFails(o)
               \/ PodUnready(o) \/ DrainPod(o) \/ RelabelPod(o)
      PROVE  Told /\ UNCHANGED <<setCache, podCache>>
  BY <1>1, <1>8 DEF BecomeReady, Terminated, CollectPod, PodFails, PodUnready,
       DrainPod, RelabelPod, DeletePod, caches
<1>9. ASSUME (\E s \in Specs : EditSet(s)) \/ DeleteSet
      PROVE  Told /\ UNCHANGED <<setCache, podCache>>
  BY <1>2, <1>9 DEF EditSet, DeleteSet, caches
<1>10. CASE UNCHANGED <<set, pods, events, setCache, podCache>>
  BY <1>10
<1> QED
  BY <1>3, <1>4, <1>5, <1>6, <1>7, <1>8, <1>9, <1>10
     DEF Next, vars, Worker, Sync, KeepRevision, RollBack, CreateRevision, CreateClaims,
         EndPass, TruncateHistory, Finish, Cluster, Disturb, SyncBreaks, ClaimFails,
         DropClaim, api, caches

\* The caches stay fresh while nothing is announced.
LEMMA CacheFreshStep ==
  ASSUME TypeOK, SetCacheFresh, PodCacheFresh, [Next]_vars
  PROVE  SetCacheFresh' /\ PodCacheFresh'
<1>1. RefreshSet => setCache' = set /\ set' = set
  BY DEF RefreshSet
<1>2. RefreshPods => podCache' = pods /\ pods' = pods
  BY DEF RefreshPods
<1> QED
  BY <1>1, <1>2, EventsStep DEF SetCacheFresh, PodCacheFresh

-----------------------------------------------------------------------------
(* The revisions of the pods. *)

\* A pod the sync has built is built from its current or its update revision.
Built ==
  /\ w # Idle => \A o \in Ordinals : w.pods[o].phase # "New"
  /\ w.pc \in {"pass", "create"} =>
       \A o \in Ordinals : w.replicas[o].phase = "New" =>
         w.replicas[o] = newVersionedStatefulSetPod(w.view, w.cur, o)

\* What the sync has built it keeps.
LEMMA BuiltStep ==
  ASSUME TypeOK, Built, [Next]_vars
  PROVE  Built'
<1>0. Idle.pc = "idle"
  BY DEF Idle
<1>1. CASE w' = w
  BY <1>1 DEF Built
<1>2. CASE w' = Idle
  BY <1>0, <1>2 DEF Built
<1>3. CASE Sync
  BY <1>3 DEF Sync, Built, TypeOK, ApiPodType
<1>4. CASE w \in FrameType /\ w.pc = "revisions" /\ w' = StartPass(w)
  <2> DEFINE cur == currentRevision(w)
  <2>1. /\ w'.view = w.view /\ w'.pods = w.pods /\ w'.cur = cur
        /\ w'.replicas = [o \in Ordinals |->
                 IF o \notin Desired(w.view) THEN NoPod
                 ELSE IF exists(w.pods[o]) THEN w.pods[o]
                 ELSE newVersionedStatefulSetPod(w.view, cur, o)]
    BY <1>4, PassStarts
  <2>2. \A o \in Ordinals : w.pods[o].phase # "New" /\ NoPod.phase # "New"
    BY <1>0, <1>4 DEF Built, NoPod
  <2> HIDE DEF cur
  <2> QED
    BY <2>1, <2>2 DEF Built
<1>5. CASE GoesOn
  <2>1. /\ w \in FrameType /\ w # Idle /\ w'.view = w.view /\ w'.pods = w.pods
        /\ w'.cur = w.cur
        /\ w'.pc \in {"pass", "create"} => w.pc \in {"pass", "create"}
    BY <1>0, <1>5 DEF GoesOn, Later
  <2>2. CASE w'.replicas = w.replicas
    BY <2>1, <2>2 DEF Built
  <2>3. ASSUME NEW o \in Ordinals, w'.replicas =
                 [w.replicas EXCEPT ![o] = newVersionedStatefulSetPod(w.view, w.cur, o)]
        PROVE  Built'
    <3>1. w.replicas \in [Ordinals -> PodType]
      BY <2>1 DEF FrameType
    <3> QED
      BY <2>1, <2>3, <3>1 DEF Built
  <2> QED
    BY <1>5, <2>2, <2>3 DEF GoesOn
<1> QED
  BY <1>1, <1>2, <1>3, <1>4, <1>5, FrameStep

\* The pod that CreatePod makes is at one of the two revisions of the sync.
LEMMA PodMade ==
  ASSUME TypeOK, Creating, Built, CreatePod, NEW o \in Ordinals, pods'[o] # pods[o]
  PROVE  /\ w \in FrameType /\ w.pc = "create" /\ w'.pc = "pass"
         /\ w'.view = w.view /\ w'.cur = w.cur
         /\ pods'[o].rev = IF FromCurrentRevision(w.view, o) THEN w.cur ELSE upd(w)
         /\ UNCHANGED revs
<1>1. w \in FrameType /\ w.pc = "create"
  BY Running DEF CreatePod
<1>2. w.next \in Ordinals /\ w.replicas[w.next].phase = "New"
  BY <1>1 DEF Creating
<1>3. PodBecomes(w.next, [w.replicas[w.next] EXCEPT !.phase = "Pending"])
  BY DEF CreatePod
<1>4. o = w.next /\ pods'[o] = [w.replicas[o] EXCEPT !.phase = "Pending"]
  BY <1>2, <1>3 DEF PodBecomes, TypeOK
<1>5. w.replicas[o] = newVersionedStatefulSetPod(w.view, w.cur, o)
  BY <1>1, <1>2, <1>4 DEF Built
<1>6. pods'[o].rev = IF FromCurrentRevision(w.view, o) THEN w.cur ELSE upd(w)
  BY <1>4, <1>5 DEF newVersionedStatefulSetPod, upd
<1>7. \E n, d, st : w' = [w EXCEPT !.pc = "pass", !.next = n, !.done = d, !.status = st]
  BY DEF CreatePod
<1>8. w'.pc = "pass" /\ w'.view = w.view /\ w'.cur = w.cur
  BY <1>1, <1>7 DEF FrameType
<1> QED
  BY <1>1, <1>6, <1>8 DEF CreatePod

\* Nothing has been created, and no sync runs.
LEMMA RevisionsInit ==
  Init => TypeOK /\ Creating /\ SetCacheFresh /\ PodCacheFresh /\ Built
<1> SUFFICES ASSUME Init
             PROVE  TypeOK /\ Creating /\ SetCacheFresh /\ PodCacheFresh /\ Built
  OBVIOUS
<1>1. w = Idle /\ w.pc = "idle" /\ setCache = set /\ podCache = pods
  BY DEF Init, Idle
<1> QED
  BY <1>1, TypeInit DEF Creating, SetCacheFresh, PodCacheFresh, Built

\* The sync works from the revision the status it read names, if that one is
\* listed.
CurrentListed ==
  w.pc \in {"pass", "create"} =>
    (w.view.status.currentRevision \in ListedRevisions(w)
       => w.cur = w.view.status.currentRevision)

\* It does so until the end of the pass.
LEMMA CurrentListedStep ==
  ASSUME TypeOK, CurrentListed, [Next]_vars
  PROVE  CurrentListed'
<1>1. CASE w' = w
  BY <1>1 DEF CurrentListed, ListedRevisions
<1>2. CASE w' = Idle \/ Sync
  BY <1>2 DEF CurrentListed, Idle, Sync
<1>3. CASE w \in FrameType /\ w' = StartPass(w)
  <2>1. w'.view = w.view /\ w'.revs = w.revs /\ w'.cur = currentRevision(w)
    BY <1>3, PassStarts
  <2> QED
    BY <2>1 DEF CurrentListed, currentRevision, ListedRevisions
<1>4. CASE GoesOn
  <2>1. ASSUME w'.pc \in {"pass", "create"}
        PROVE  /\ w.pc \in {"pass", "create"} /\ w'.view = w.view /\ w'.cur = w.cur
               /\ w'.revs = w.revs
    BY <1>4, <2>1 DEF GoesOn, TruncateHistory
  <2> QED
    BY <2>1 DEF CurrentListed, ListedRevisions
<1> QED
  BY <1>1, <1>2, <1>3, <1>4, FrameStep

\* A pod below the partition is created from the revision the status names as
\* current, although newVersionedStatefulSetPod falls back to the new template
\* without it: whatever the caches show, the fallback needs a listing without
\* that revision.
THEOREM PartitionKept == Spec => PartitionHeld
<1> DEFINE Inv == TypeOK /\ Creating /\ Built /\ CurrentListed
<1>1. Init => Inv
  <2>1. Init => w.pc = "idle"
    BY DEF Init, Idle
  <2> QED
    BY <2>1, RevisionsInit DEF CurrentListed
<1>2. Inv /\ [Next]_vars => Inv'
  BY TypeStep, CreatingStep, BuiltStep, CurrentListedStep
<1>3. ASSUME Inv, [Next]_vars, NEW o \in Ordinals, CreatePod, pods'[o] # pods[o],
             o < w.view.spec.partition,
             w.view.status.currentRevision \in ListedRevisions(w)
      PROVE  pods'[o].rev = w.view.status.currentRevision
  <2>1. /\ w \in FrameType /\ w.pc = "create"
        /\ pods'[o].rev = IF FromCurrentRevision(w.view, o) THEN w.cur ELSE upd(w)
    BY <1>3, PodMade
  <2>2. FromCurrentRevision(w.view, o)
    <3>1. o \in Nat
      BY ControlAssumption DEF Ordinals
    <3> QED
      BY <1>3, <3>1 DEF FromCurrentRevision, Nil
  <2>3. w.cur = w.view.status.currentRevision
    BY <1>3, <2>1 DEF CurrentListed
  <2> QED
    BY <2>1, <2>2, <2>3
<1>4. Inv /\ [Next]_vars
        => [\A o \in Ordinals :
              /\ CreatePod /\ pods'[o] # pods[o]
              /\ o < w.view.spec.partition
              /\ w.view.status.currentRevision \in ListedRevisions(w)
              => pods'[o].rev = w.view.status.currentRevision]_vars
  BY <1>3
<1> HIDE DEF Inv
<1> QED
  BY <1>1, <1>2, <1>4, PTL DEF Spec, PartitionHeld

-----------------------------------------------------------------------------
(* The revisions the status names. *)

\* The status a sync works out names its revisions, and the current one or,
\* for a completed update, the update one as current.
StatusNames ==
  /\ w.pc \in {"pass", "create"} =>
       /\ w.status.currentRevision = w.cur
       /\ w.status.updateRevision = upd(w)
  /\ w.pc \in {"status", "truncate"} =>
       /\ w.status.currentRevision \in {w.cur, upd(w)}
       /\ w.status.updateRevision = upd(w)

\* Counting pods leaves the names of the revisions alone.
LEMMA CountingKeepsNames ==
  ASSUME NEW f \in FrameType, NEW r, NEW d \in Int, NEW n \in Int
  PROVE  /\ Adjust(f, r, d).currentRevision = f.status.currentRevision
         /\ Adjust(f, r, d).updateRevision = f.status.updateRevision
         /\ [Adjust(f, r, d) EXCEPT !.replicas = n].currentRevision
              = f.status.currentRevision
         /\ [Adjust(f, r, d) EXCEPT !.replicas = n].updateRevision
              = f.status.updateRevision
<1> DEFINE a == f.status.currentReplicas + (IF r = f.cur THEN d ELSE 0)
           b == f.status.updatedReplicas + (IF r = upd(f) THEN d ELSE 0)
<1>1. f.status \in StatusType
  BY DEF FrameType
<1>2. Adjust(f, r, d) = [f.status EXCEPT !.currentReplicas = a, !.updatedReplicas = b]
  BY DEF Adjust
<1> HIDE DEF a, b
<1>3. /\ Adjust(f, r, d).currentRevision = f.status.currentRevision
      /\ Adjust(f, r, d).updateRevision = f.status.updateRevision
  BY <1>1, <1>2 DEF StatusType
<1>4. Adjust(f, r, d) \in StatusType
  BY AdjustType
<1> QED
  BY <1>3, <1>4 DEF StatusType

\* The pass over the pods keeps the names until it ends.
LEMMA NamesInPass ==
  ASSUME TypeOK, w' # w, w' # Idle,
         RecreateFailed \/ CreateClaims \/ CreatePod \/ UpdatePod
           \/ DeleteCondemned \/ DeleteOutdated
  PROVE  /\ w \in FrameType /\ w.pc \in {"pass", "create"}
         /\ w'.view = w.view /\ w'.cur = w.cur /\ w'.pc \in {"pass", "create"}
         /\ w'.status.currentRevision = w.status.currentRevision
         /\ w'.status.updateRevision = w.status.updateRevision
<1>0. w \in FrameType /\ w.pc \in {"pass", "create"}
  BY Running DEF RecreateFailed, CreateClaims, CreatePod, UpdatePod, DeleteCondemned,
                 DeleteOutdated, InPass
<1>1. w.status \in StatusType /\ w.status.replicas - 1 \in Int /\ w.status.replicas + 1 \in Int
  BY <1>0 DEF FrameType, StatusType
<1>2. CASE RecreateFailed
  <2>1. PICK o : w' = [w EXCEPT
                 !.replicas[o] = newVersionedStatefulSetPod(w.view, w.cur, o),
                 !.status = [Adjust(w, w.replicas[o].rev, -1) EXCEPT !.replicas = @ - 1]]
    BY <1>2 DEF RecreateFailed, Requeue
  <2> DEFINE st == [Adjust(w, w.replicas[o].rev, -1) EXCEPT !.replicas = @ - 1]
  <2>2. st.currentRevision = w.status.currentRevision
        /\ st.updateRevision = w.status.updateRevision
    <3>1. Adjust(w, w.replicas[o].rev, -1).replicas - 1 \in Int
      BY <1>0, <1>1, AdjustType
    <3> QED
      BY <1>0, <3>1, CountingKeepsNames
  <2>3. w.pc = "pass"
    BY <1>2 DEF RecreateFailed, InPass
  <2> HIDE DEF st
  <2>4. w'.status = st /\ w'.view = w.view /\ w'.cur = w.cur /\ w'.pc = "pass"
    BY <1>0, <2>1, <2>3 DEF FrameType, st
  <2> QED
    BY <1>0, <2>2, <2>4
<1>3. CASE CreateClaims \/ UpdatePod
  BY <1>0, <1>3 DEF CreateClaims, UpdatePod, Requeue, InPass, FrameType
<1>4. CASE CreatePod
  <2> DEFINE r == w.replicas[w.next].rev
             st == [Adjust(w, r, 1) EXCEPT !.replicas = @ + 1]
  <2>1. \E n, d : w' = [w EXCEPT !.pc = "pass", !.next = n, !.done = d, !.status = st]
    BY <1>4 DEF CreatePod, Requeue
  <2>2. st.currentRevision = w.status.currentRevision
        /\ st.updateRevision = w.status.updateRevision
    <3>1. Adjust(w, r, 1).replicas + 1 \in Int
      BY <1>0, <1>1, AdjustType
    <3> QED
      BY <1>0, <3>1, CountingKeepsNames
  <2> HIDE DEF st
  <2>3. w'.status = st /\ w'.view = w.view /\ w'.cur = w.cur /\ w'.pc = "pass"
    BY <1>0, <2>1 DEF FrameType
  <2> QED
    BY <1>0, <2>2, <2>3
<1>5. CASE DeleteCondemned
  <2>1. PICK o : \E c, d : w' = [w EXCEPT !.condemned = c, !.done = d,
                                          !.status = Adjust(w, w.pods[o].rev, -1)]
    BY <1>5 DEF DeleteCondemned, Requeue
  <2> DEFINE st == Adjust(w, w.pods[o].rev, -1)
  <2>2. st.currentRevision = w.status.currentRevision
        /\ st.updateRevision = w.status.updateRevision
    BY <1>0, <1>1, CountingKeepsNames
  <2>3. w.pc = "pass"
    BY <1>5 DEF DeleteCondemned, InPass
  <2> HIDE DEF st
  <2>4. w'.status = st /\ w'.view = w.view /\ w'.cur = w.cur /\ w'.pc = "pass"
    BY <1>0, <2>1, <2>3 DEF FrameType, st
  <2> QED
    BY <1>0, <2>2, <2>4
<1>6. CASE DeleteOutdated
  <2>1. w' = [w EXCEPT !.done = TRUE, !.status.currentReplicas = @ - 1]
    BY <1>6 DEF DeleteOutdated, Requeue
  <2>2. w'.status = [w.status EXCEPT !.currentReplicas = @ - 1]
        /\ w'.view = w.view /\ w'.cur = w.cur /\ w'.pc = w.pc
    BY <1>0, <2>1 DEF FrameType
  <2> QED
    BY <1>0, <1>1, <2>2 DEF StatusType
<1> QED
  BY <1>2, <1>3, <1>4, <1>5, <1>6

\* Ending the pass records the completion of an update, or nothing.
LEMMA PassEnds ==
  ASSUME TypeOK, EndPass
  PROVE  /\ w \in FrameType /\ w.pc = "pass"
         /\ w'.view = w.view /\ w'.pods = w.pods /\ w'.cur = w.cur /\ w'.revs = w.revs
         /\ w'.status = completeRollingUpdate(w.view, w.status)
         /\ w'.pc = IF inconsistentStatus(w.view, w'.status) THEN "status" ELSE "truncate"
         /\ w'.status.updateRevision = w.status.updateRevision
         /\ w'.status.currentRevision
              \in {w.status.currentRevision, w.status.updateRevision}
<1> DEFINE st == completeRollingUpdate(w.view, w.status)
           p == IF inconsistentStatus(w.view, st) THEN "status" ELSE "truncate"
<1>1. w \in FrameType /\ w.pc = "pass"
  BY Running DEF EndPass
<1>2. w' = [w EXCEPT !.status = st, !.pc = p]
  BY DEF EndPass
<1>3. /\ st.updateRevision = w.status.updateRevision
      /\ st.currentRevision \in {w.status.currentRevision, w.status.updateRevision}
  <2>1. w.status \in StatusType
    BY <1>1 DEF FrameType
  <2> QED
    BY <2>1 DEF completeRollingUpdate, StatusType
<1>4. p = IF inconsistentStatus(w.view, st) THEN "status" ELSE "truncate"
  OBVIOUS
<1> HIDE DEF st, p
<1>5. /\ w'.view = w.view /\ w'.pods = w.pods /\ w'.cur = w.cur /\ w'.revs = w.revs
      /\ w'.status = st /\ w'.pc = p
  BY <1>1, <1>2 DEF FrameType
<1> QED
  BY <1>1, <1>3, <1>4, <1>5 DEF st

\* Only WriteStatus writes the status.
LEMMA StatusKept ==
  ASSUME TypeOK, [Next]_vars, ~ WriteStatus
  PROVE  set'.status = set.status
<1>1. set \in SetType
  BY DEF TypeOK
<1>2. ASSUME NEW s \in Specs, EditSet(s)
      PROVE  set'.status = set.status
  <2>1. \E g : set' = [set EXCEPT !.spec = s, !.generation = g]
    BY <1>2 DEF EditSet, SetBecomes
  <2> QED
    BY <1>1, <2>1 DEF SetType
<1>3. CASE DeleteSet
  BY <1>1, <1>3 DEF DeleteSet, SetBecomes, SetType
<1>4. CASE UNCHANGED set
  BY <1>4
<1> QED
  BY <1>2, <1>3, <1>4 DEF Next, vars, Worker, Sync, KeepRevision, RollBack,
       CreateRevision, RecreateFailed, CreateClaims, CreatePod, UpdatePod,
       DeleteCondemned, DeleteOutdated, EndPass, TruncateHistory, Finish, Informers,
       RefreshSet, RefreshPods, RefreshClaims, RefreshRevisions, Cluster, BecomeReady,
       Terminated, CollectPod, Disturb, SyncBreaks, ClaimFails, PodFails, PodUnready,
       DrainPod, RelabelPod, DropClaim, api

\* A write puts the status of the sync in place, and turns to the history.
LEMMA StatusWrite ==
  ASSUME TypeOK, WriteStatus
  PROVE  \/ w' = Idle /\ queued' /\ UNCHANGED <<set, revs>>
         \/ /\ w \in FrameType /\ w.pc = "status" /\ w'.pc = "truncate"
            /\ set' = [set EXCEPT !.status = w.status] /\ set'.status = w.status
            /\ w'.view = w.view /\ w'.pods = w.pods /\ w'.cur = w.cur /\ w'.revs = w.revs
            /\ w'.status = w.status
            /\ UNCHANGED <<revs, queued>>
<1>1. w \in FrameType /\ w.pc = "status"
  BY Running DEF WriteStatus
<1>2. CASE w' = [w EXCEPT !.pc = "truncate"] /\ SetBecomes([set EXCEPT !.status = w.status])
           /\ UNCHANGED queued
  <2>1. /\ w'.view = w.view /\ w'.pods = w.pods /\ w'.cur = w.cur /\ w'.revs = w.revs
        /\ w'.pc = "truncate" /\ w'.status = w.status
    BY <1>1, <1>2 DEF FrameType
  <2>2. set' = [set EXCEPT !.status = w.status] /\ set'.status = w.status
    BY <1>2 DEF SetBecomes, TypeOK, SetType
  <2> QED
    BY <1>1, <1>2, <2>1, <2>2 DEF WriteStatus
<1> QED
  BY <1>2 DEF WriteStatus, Requeue

\* Every step keeps what the status of the sync names.
LEMMA StatusNamesStep ==
  ASSUME TypeOK, StatusNames, [Next]_vars
  PROVE  StatusNames'
<1>0. Idle.pc = "idle"
  BY DEF Idle
<1>1. CASE w' = w
  BY <1>1 DEF StatusNames, upd
<1>2. CASE w' = Idle \/ Sync
  BY <1>0, <1>2 DEF Sync, StatusNames
<1>3. CASE w' = StartPass(w) /\ w \in FrameType
  <2>1. /\ w'.pc = "pass" /\ w'.view = w.view /\ w'.cur = currentRevision(w)
        /\ w'.status = CountStatus(w, currentRevision(w))
    BY <1>3, PassStarts
  <2>2. /\ w'.status.currentRevision = currentRevision(w)
        /\ w'.status.updateRevision = upd(w)
    BY <2>1 DEF CountStatus
  <2> QED
    BY <2>1, <2>2 DEF StatusNames, upd
<1>4. CASE /\ RecreateFailed \/ CreateClaims \/ CreatePod \/ UpdatePod
                \/ DeleteCondemned \/ DeleteOutdated
           /\ w' # w /\ w' # Idle
  BY <1>4, NamesInPass DEF StatusNames, upd
<1>5. CASE EndPass
  <2>1. upd(w') = upd(w)
    BY <1>5, PassEnds DEF upd
  <2> QED
    BY <1>5, <2>1, PassEnds DEF StatusNames
<1>6. CASE (WriteStatus \/ TruncateHistory) /\ w' # Idle
  <2>1. /\ w.pc \in {"status", "truncate"} /\ w'.pc = "truncate" /\ w'.status = w.status
        /\ w'.view = w.view /\ w'.cur = w.cur
    BY <1>6, StatusWrite, RevisionDeleted
  <2> QED
    BY <2>1 DEF StatusNames, upd
<1>7. CASE KeepRevision \/ RollBack \/ CreateRevision
  <2>1. w \in FrameType
    BY <1>7, Running DEF KeepRevision, RollBack, CreateRevision
  <2> QED
    BY <1>2, <1>3, <1>7, <2>1 DEF KeepRevision, RollBack, CreateRevision, Requeue
<1>8. CASE Finish \/ ~ Worker
  BY <1>1, <1>2, <1>8, Bystanders DEF Finish
<1> QED
  BY <1>1, <1>2, <1>4, <1>5, <1>6, <1>7, <1>8 DEF Worker

\* Only Sync takes the key from the queue.
LEMMA KeyStays ==
  ASSUME [Next]_vars, queued, ~ Sync
  PROVE  queued'
BY DEF Next, vars, Worker, KeepRevision, RollBack, CreateRevision, RecreateFailed,
       CreateClaims, CreatePod, UpdatePod, DeleteCondemned, DeleteOutdated, EndPass,
       WriteStatus, TruncateHistory, Finish, Informers, RefreshSet, RefreshPods,
       RefreshClaims, RefreshRevisions, Cluster, BecomeReady, Terminated, CollectPod,
       EditSet, Disturb, SyncBreaks, ClaimFails, DeleteSet, PodFails, PodUnready,
       DrainPod, RelabelPod, DropClaim, Requeue

\* The set will be synced again.
Due == "set" \in events \/ queued

\* Until it writes the status, a sync has the recorded one, or the recorded
\* one is on its way.
StatusSeen ==
  w.pc \in {"revisions", "pass", "create", "status"} =>
    set.status = w.view.status \/ Due

\* Two statuses name the same revisions.
SameNames(s, t) ==
  /\ s.currentRevision = t.currentRevision
  /\ s.updateRevision = t.updateRevision

\* When a sync turns to the history it has written its status, or it has
\* nothing to write: the status it read names the same revisions.
StatusWritten ==
  w.pc = "truncate" =>
    \/ set.status = w.status
    \/ /\ SameNames(w.view.status, w.status)
       /\ set.status = w.view.status \/ Due

\* The inductive invariant for the revisions of the status.
StatusInv ==
  /\ TypeOK /\ Creating /\ SetCacheFresh /\ PodCacheFresh
  /\ StatusNames /\ StatusSeen /\ StatusWritten

\* What is due stays due until the next sync.
LEMMA DueStays ==
  ASSUME TypeOK, [Next]_vars, Due, ~ Sync
  PROVE  Due'
<1>1. RefreshSet => queued'
  BY DEF RefreshSet
<1> QED
  BY <1>1, KeyStays, EventsStep DEF Due

\* A sync starts with the recorded status or an old one, and nobody else
\* writes it.
LEMMA StatusSeenStep ==
  ASSUME StatusInv, [Next]_vars
  PROVE  StatusSeen'
<1> USE DEF StatusInv
<1>0. Idle.pc = "idle"
  BY DEF Idle
<1>1. CASE Sync
  <2>1. /\ w'.view = setCache /\ set' = set /\ events' = events
    BY <1>1 DEF Sync, api
  <2> QED
    BY <2>1 DEF SetCacheFresh, StatusSeen, Due
<1>2. CASE WriteStatus
  BY <1>0, <1>2, StatusWrite DEF StatusSeen
<1>3. CASE ~ Sync /\ ~ WriteStatus
  <2>1. set'.status = set.status /\ (Due => Due')
    BY <1>3, StatusKept, DueStays
  <2>2. CASE w' = w \/ w' = Idle
    BY <1>0, <2>1, <2>2 DEF StatusSeen
  <2>3. CASE w \in FrameType /\ w.pc = "revisions" /\ w' = StartPass(w)
    BY <2>1, <2>3, PassStarts DEF StatusSeen
  <2>4. CASE GoesOn
    <3>1. w'.view = w.view
      BY <2>4 DEF GoesOn
    <3>2. ASSUME w'.pc \in {"revisions", "pass", "create", "status"}
          PROVE  w.pc \in {"revisions", "pass", "create", "status"}
      BY <2>4, <3>2 DEF GoesOn, Later
    <3> QED
      BY <2>1, <3>1, <3>2 DEF StatusSeen
  <2> QED
    BY <1>3, <2>2, <2>3, <2>4, FrameStep
<1> QED
  BY <1>1, <1>2, <1>3

\* A status that needs no write names what the status of the set names.
LEMMA ConsistentNames ==
  ASSUME NEW s, s.status \in StatusType, NEW st \in StatusType, ~ inconsistentStatus(s, st)
  PROVE  SameNames(s.status, st)
<1>1. [st EXCEPT !.observedGeneration = 0] = [s.status EXCEPT !.observedGeneration = 0]
  BY DEF inconsistentStatus
<1>2. /\ [st EXCEPT !.observedGeneration = 0].currentRevision = st.currentRevision
      /\ [st EXCEPT !.observedGeneration = 0].updateRevision = st.updateRevision
      /\ [s.status EXCEPT !.observedGeneration = 0].currentRevision
           = s.status.currentRevision
      /\ [s.status EXCEPT !.observedGeneration = 0].updateRevision
           = s.status.updateRevision
  BY DEF StatusType
<1> QED
  BY <1>1, <1>2 DEF SameNames

\* A sync turns to the history with the status recorded, because it wrote it
\* or because there was nothing to write.
LEMMA StatusWrittenStep ==
  ASSUME StatusInv, [Next]_vars
  PROVE  StatusWritten'
<1> USE DEF StatusInv
<1>0. Idle.pc = "idle"
  BY DEF Idle
<1> SUFFICES ASSUME w'.pc = "truncate"
             PROVE  \/ set'.status = w'.status
                    \/ /\ SameNames(w'.view.status, w'.status)
                       /\ set'.status = w'.view.status \/ Due'
  BY DEF StatusWritten
<1>1. CASE WriteStatus
  BY <1>0, <1>1, StatusWrite
<1>2. CASE EndPass
  <2>1. w.pc = "pass" /\ w'.view = w.view /\ ~ inconsistentStatus(w.view, w'.status)
    BY <1>2, PassEnds
  <2>2. set' = set /\ events' = events /\ queued' = queued
    BY <1>2 DEF EndPass, api
  <2>3. w'.status \in StatusType /\ w.view.status \in StatusType
    <3>1. TypeOK'
      BY TypeStep
    <3>2. w' \in FrameType /\ w \in FrameType
      BY <1>0, <3>1, <2>1, Running DEF TypeOK
    <3> QED
      BY <3>2, FrameRevisions DEF FrameType
  <2>4. SameNames(w.view.status, w'.status)
    BY <2>1, <2>3, ConsistentNames
  <2> QED
    BY <2>1, <2>2, <2>4 DEF StatusSeen, Due
<1>3. CASE ~ WriteStatus /\ ~ EndPass
  <2>1. w' # Idle /\ ~ Sync
    BY <1>0 DEF Sync
  <2>2. set'.status = set.status /\ (Due => Due')
    BY <1>3, <2>1, StatusKept, DueStays
  <2>3. w.pc = "truncate" /\ w'.view = w.view /\ w'.status = w.status
    <3>1. CASE TruncateHistory
      BY <2>1, <3>1, RevisionDeleted
    <3>2. CASE w' = w
      BY <3>2
    <3>3. CASE KeepRevision \/ RollBack \/ CreateRevision
      <4>1. w \in FrameType
        BY <3>3, Running DEF KeepRevision, RollBack, CreateRevision
      <4>2. w' = StartPass(w)
        BY <2>1, <3>3 DEF KeepRevision, RollBack, CreateRevision, Requeue
      <4> QED
        BY <4>1, <4>2, PassStarts
    <3>4. CASE /\ RecreateFailed \/ CreateClaims \/ CreatePod \/ UpdatePod
                    \/ DeleteCondemned \/ DeleteOutdated
               /\ w' # w
      BY <2>1, <3>4, NamesInPass
    <3> QED
      BY <1>3, <2>1, <3>1, <3>2, <3>3, <3>4, Bystanders DEF Worker, Finish
  <2> QED
    BY <2>2, <2>3 DEF StatusWritten
<1> QED
  BY <1>1, <1>2, <1>3

\* truncateHistory spares the revisions the recorded status names, however
\* old the copies of the set, the pods and the revisions the sync works on and
\* wherever syncs break off: one is deleted only when the status that names it
\* is neither the one the sync read nor the one it wrote, and then the set is
\* synced again.
THEOREM StatusRevisionsKept == Spec => StatusRevisionsSpared
<1>1. Init => StatusInv
  <2>1. Init => w.pc = "idle"
    BY DEF Init, Idle
  <2> QED
    BY <2>1, RevisionsInit DEF StatusInv, StatusNames, StatusSeen, StatusWritten
<1>2. StatusInv /\ [Next]_vars => StatusInv'
  BY TypeStep, CreatingStep, CacheFreshStep, StatusNamesStep, StatusSeenStep,
     StatusWrittenStep DEF StatusInv
<1>3. ASSUME StatusInv, TruncateHistory,
             NEW t \in {set.status.currentRevision, set.status.updateRevision} \ {NoRevision},
             revs[t] > 0, revs'[t] = 0
      PROVE  set.status \notin {w.view.status, w.status} /\ ("set" \in events \/ queued)
  <2>1. t \in Templates /\ revs \in [Templates -> Nat]
    BY <1>3 DEF StatusInv, TypeOK, SetType, StatusType
  <2>2. PICK x \in Templates \ {w.cur, upd(w)} : revs' = [revs EXCEPT ![x] = 0]
    <3>1. revs' # revs
      BY <1>3
    <3> QED
      BY <1>3, <3>1, RevisionDeleted DEF StatusInv
  <2>3. w.pc = "truncate" /\ t \notin {w.cur, upd(w)}
    BY <1>3, <2>1, <2>2 DEF TruncateHistory
  <2>4. t \notin {w.status.currentRevision, w.status.updateRevision}
    BY <1>3, <2>3 DEF StatusInv, StatusNames
  <2> QED
    BY <1>3, <2>3, <2>4 DEF StatusInv, StatusWritten, SameNames, Due
<1>4. StatusInv /\ [Next]_vars
        => [\A t \in {set.status.currentRevision, set.status.updateRevision} \ {NoRevision} :
              TruncateHistory /\ revs[t] > 0 /\ revs'[t] = 0
              => /\ set.status \notin {w.view.status, w.status}
                 /\ "set" \in events \/ queued]_vars
  BY <1>3
<1> QED
  BY <1>1, <1>2, <1>4, PTL DEF Spec, StatusRevisionsSpared
=============================================================================
