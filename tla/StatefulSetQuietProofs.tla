----------------------- MODULE StatefulSetQuietProofs -----------------------
(***************************************************************************)
(* What holds when the controller comes to rest. The key leaves the queue  *)
(* when a sync starts, so the last sync must have seen the state there is, *)
(* changed nothing, and found nothing to change.                           *)
(***************************************************************************)
EXTENDS StatefulSetRevisionsProofs, WellFoundedInduction

\* No event is on its way and the key is not in the queue.
Calm == events = {} /\ ~ queued

\* The replicas and the condemned pods a pass starts with.
Slotted(f) ==
  [o \in Ordinals |->
     IF o \notin Desired(f.view) THEN NoPod
     ELSE IF exists(f.pods[o]) THEN f.pods[o]
     ELSE newVersionedStatefulSetPod(f.view, f.cur, o)]

Doomed(f) ==
  IF monotonic(f.view) THEN Condemned(f)
  ELSE {o \in Condemned(f) : ~ isTerminating(f.pods[o])}

\* A pass over the pods there are that has not done anything.
FreshPass(f) ==
  /\ f.view = set /\ f.pods = pods
  /\ f.replicas = Slotted(f) /\ f.condemned = Doomed(f)
  /\ f.next = 0 /\ ~ f.done
  /\ f.status = CountStatus(f, f.cur)

\* A pass over the set and the pods there are has nothing to do, and the
\* status it works out is the recorded one.
Rested ==
  \E f \in FrameType :
    /\ FreshPass(f) /\ PassOver(f)
    /\ set.status = completeRollingUpdate(set, f.status)

\* While all is calm, the sync under way has seen the state there is and
\* has changed nothing; before it and after it nothing is left to do.
CalmInv ==
  Calm =>
    /\ w # Idle => w.view = set /\ w.pods = pods
    /\ w.pc = "revisions" => w.next = 0 /\ ~ w.done
    /\ w.pc = "pass" => FreshPass(w)
    /\ w.pc = "status" => w.status # set.status
    /\ w.pc \in {"idle", "truncate"} => Rested

-----------------------------------------------------------------------------
(* The loops stop at the first, or the last, of the ordinals they look for. *)

\* A family of sets of ordinals has a minimal member.
LEMMA MinimalOrdinals ==
  ASSUME NEW F, F \subseteq SUBSET Ordinals, F # {}
  PROVE  \E S \in F : \A T \in F : T \subseteq S => T = S
<1>1. IsFiniteSet(Ordinals)
  BY ControlAssumption, FS_Interval DEF Ordinals
<1>2. IsWellFoundedOn(StrictSubsetOrdering(Ordinals), SUBSET Ordinals)
  BY <1>1, FS_StrictSubsetOrderingWellFounded, FS_FiniteSubsetsOfFinite
<1>3. PICK S \in F : \A T \in F : ~ (<<T, S>> \in StrictSubsetOrdering(Ordinals))
  BY <1>2, WFMin
<1>4. ASSUME NEW T \in F, T \subseteq S, T # S PROVE FALSE
  <2>1. <<T, S>> \in StrictSubsetOrdering(Ordinals)
    BY <1>4 DEF StrictSubsetOrdering
  <2> QED
    BY <1>3, <2>1
<1> QED
  BY <1>4

\* Some ordinal is the least, and some the greatest, of a set of ordinals.
LEMMA LeastAndGreatest ==
  ASSUME NEW S \in SUBSET Ordinals, S # {}
  PROVE  Least(S) # {} /\ Greatest(S) # {}
<1>0. MaxOrdinal \in Nat /\ Ordinals = 0 .. MaxOrdinal
  BY ControlAssumption DEF Ordinals
<1>1. Least(S) # {}
  <2> DEFINE F == {0 .. p : p \in S}
  <2>1. F \subseteq SUBSET Ordinals /\ F # {}
    <3>1. \A p \in S : 0 .. p \subseteq Ordinals
      BY <1>0
    <3> QED
      BY <3>1
  <2>2. PICK I \in F : \A T \in F : T \subseteq I => T = I
    <3> HIDE DEF F
    <3> QED
      BY <2>1, MinimalOrdinals
  <2>3. PICK p \in S : I = 0 .. p
    OBVIOUS
  <2>4. ASSUME NEW q \in S, ~ (p <= q) PROVE FALSE
    <3>1. p \in Nat /\ q \in Nat /\ q < p
      BY <1>0, <2>4
    <3>2. 0 .. q \subseteq 0 .. p /\ p \in 0 .. p /\ p \notin 0 .. q
      BY <3>1
    <3> QED
      BY <2>2, <2>3, <3>2
  <2> QED
    BY <2>4 DEF Least
<1>2. Greatest(S) # {}
  <2> DEFINE F == {p .. MaxOrdinal : p \in S}
  <2>1. F \subseteq SUBSET Ordinals /\ F # {}
    <3>1. \A p \in S : p .. MaxOrdinal \subseteq Ordinals
      BY <1>0
    <3> QED
      BY <3>1
  <2>2. PICK I \in F : \A T \in F : T \subseteq I => T = I
    <3> HIDE DEF F
    <3> QED
      BY <2>1, MinimalOrdinals
  <2>3. PICK p \in S : I = p .. MaxOrdinal
    OBVIOUS
  <2>4. ASSUME NEW q \in S, ~ (q <= p) PROVE FALSE
    <3>1. p \in Nat /\ q \in Nat /\ p < q /\ p <= MaxOrdinal
      BY <1>0, <2>4
    <3>2. /\ q .. MaxOrdinal \subseteq p .. MaxOrdinal
          /\ p \in p .. MaxOrdinal /\ p \notin q .. MaxOrdinal
      BY <1>0, <3>1
    <3> QED
      BY <2>2, <2>3, <3>2
  <2> QED
    BY <2>4 DEF Greatest
<1> QED
  BY <1>1, <1>2

\* When the first loop stops nowhere, every replica is settled.
LEMMA AllSettled ==
  ASSUME NEW f \in FrameType, f.next = 0, AtReplica(f) = {}
  PROVE  \A o \in Ordinals : Settled(f, o)
<1> DEFINE S == {o \in Ordinals : o >= f.next /\ ~ Settled(f, o)}
<1>1. Least(S) = {} /\ S \in SUBSET Ordinals
  BY DEF AtReplica
<1>2. S = {}
  <2> HIDE DEF S
  <2> QED
    BY <1>1, LeastAndGreatest
<1>3. \A o \in Ordinals : o >= 0
  BY ControlAssumption DEF Ordinals
<1> QED
  BY <1>2, <1>3

-----------------------------------------------------------------------------
(* Steps that leave all calm. *)

\* Where all is calm after a step, a sync has started, or all was calm before
\* and neither the set nor a pod has changed.
LEMMA CalmBefore ==
  ASSUME TypeOK, [Next]_vars, Calm'
  PROVE  /\ set' = set /\ pods' = pods
         /\ Sync \/ Calm
<1>1. set' = set /\ pods' = pods
  BY EventsStep DEF Calm
<1>2. ASSUME ~ Sync PROVE Calm
  <2>1. ~ RefreshSet /\ ~ RefreshPods
    BY DEF RefreshSet, RefreshPods, Calm
  <2>2. "set" \notin events /\ "pods" \notin events
    BY <2>1, EventsStep DEF Calm
  <2>3. ~ queued
    BY <1>2, KeyStays DEF Calm
  <2> QED
    BY <2>2, <2>3 DEF TypeOK, Calm
<1> QED
  BY <1>1, <1>2

\* A replica that exists is the pod there is.
LEMMA FreshReplica ==
  ASSUME TypeOK, NEW f \in FrameType, FreshPass(f), NEW o \in Ordinals,
         isCreated(f.replicas[o])
  PROVE  /\ o \in Desired(set) /\ f.replicas[o] = pods[o] /\ exists(pods[o])
         /\ pods[o] \in [phase : {"New", "Pending", "Ready", "Failed"},
                         terminating : BOOLEAN, rev : Templates, labelled : BOOLEAN]
<1>1. /\ f.replicas[o] = IF o \notin Desired(set) THEN NoPod
                         ELSE IF exists(pods[o]) THEN pods[o]
                         ELSE newVersionedStatefulSetPod(set, f.cur, o)
  BY DEF FreshPass, Slotted
<1>2. ~ isCreated(NoPod) /\ ~ isCreated(newVersionedStatefulSetPod(set, f.cur, o))
  BY DEF isCreated, NoPod, newVersionedStatefulSetPod
<1>3. o \in Desired(set) /\ f.replicas[o] = pods[o] /\ exists(pods[o])
  BY <1>1, <1>2
<1> QED
  BY <1>3 DEF TypeOK, ApiPodType, PodType, exists, NoPod

\* A pod that is deleted changes, unless it is terminating already.
LEMMA DeleteChanges ==
  ASSUME TypeOK, NEW o \in Ordinals, exists(pods[o]), DeletePod(o),
         isFailed(pods[o]) \/ ~ isTerminating(pods[o])
  PROVE  pods' # pods
<1>1. pods[o] \in [phase : {"New", "Pending", "Ready", "Failed"}, terminating : BOOLEAN,
                   rev : Templates, labelled : BOOLEAN]
  BY DEF TypeOK, ApiPodType, PodType, exists, NoPod
<1>2. ApiDelete(pods[o]) # pods[o]
  <2>1. CASE isFailed(pods[o])
    BY <1>1, <2>1 DEF ApiDelete, NoPod, isFailed
  <2>2. CASE ~ isFailed(pods[o]) /\ ~ isTerminating(pods[o])
    <3>1. [pods[o] EXCEPT !.terminating = TRUE].terminating = TRUE
      BY <1>1
    <3> QED
      BY <2>2, <3>1 DEF ApiDelete, isTerminating
  <2> QED
    BY <2>1, <2>2
<1>3. pods'[o] = ApiDelete(pods[o])
  BY DEF DeletePod, PodBecomes, TypeOK
<1> QED
  BY <1>2, <1>3

\* Deleting a failed pod is noticed.
LEMMA RecreateIsNoticed ==
  ASSUME TypeOK, CalmInv, Calm, RecreateFailed
  PROVE  queued' \/ pods' # pods
<1>1. w \in FrameType /\ FreshPass(w)
  BY Running DEF RecreateFailed, InPass, CalmInv
<1>2. PICK o \in AtReplica(w) :
        /\ isFailed(w.replicas[o])
        /\ (exists(pods[o]) /\ DeletePod(o)) \/ queued'
  BY DEF RecreateFailed, Requeue
<1>3. o \in Ordinals
  BY <1>1, StopsAtOrdinals
<1>4. isFailed(pods[o])
  <2>1. isCreated(w.replicas[o])
    BY <1>2 DEF isFailed, isCreated
  <2> QED
    BY <1>1, <1>2, <1>3, <2>1, FreshReplica
<1> QED
  BY <1>2, <1>3, <1>4, DeleteChanges

\* Creating a pod is noticed.
LEMMA CreateIsNoticed ==
  ASSUME TypeOK, Creating, CreatePod
  PROVE  queued' \/ pods' # pods
<1> DEFINE new == w.replicas[w.next]
<1>1. w \in FrameType /\ w.next \in Ordinals /\ new.phase = "New" /\ new \in PodType
  BY Running DEF CreatePod, Creating, FrameType
<1>2. \/ queued'
      \/ ~ exists(pods[w.next]) /\ PodBecomes(w.next, [new EXCEPT !.phase = "Pending"])
  BY DEF CreatePod, Requeue
<1>3. exists([new EXCEPT !.phase = "Pending"])
  BY <1>1 DEF PodType, NoPod, exists
<1> HIDE DEF new
<1> QED
  BY <1>1, <1>2, <1>3 DEF PodBecomes, TypeOK

\* Restoring a label is noticed.
LEMMA UpdateIsNoticed ==
  ASSUME TypeOK, CalmInv, Calm, UpdatePod
  PROVE  queued' \/ pods' # pods
<1>1. w \in FrameType /\ FreshPass(w) /\ ~ PassOver(w)
  BY Running DEF UpdatePod, InPass, CalmInv
<1>2. PICK o \in AtReplica(w) :
        /\ isCreated(w.replicas[o]) /\ ~ isFailed(w.replicas[o])
        /\ \/ PodBecomes(o, [pods[o] EXCEPT !.labelled = TRUE])
           \/ pods[o] # w.replicas[o]
           \/ queued'
  BY DEF UpdatePod, Requeue
<1>3. o \in Ordinals /\ ~ Settled(w, o)
  BY <1>1 DEF AtReplica, Least
<1>4. /\ w.replicas[o] = pods[o]
      /\ pods[o] \in [phase : {"New", "Pending", "Ready", "Failed"}, terminating : BOOLEAN,
                      rev : Templates, labelled : BOOLEAN]
  BY <1>1, <1>2, <1>3, FreshReplica
<1>5. ~ MustWaitFor(w, o)
  BY <1>1, <1>2 DEF PassOver
<1>6. ~ identityMatches(pods[o])
  BY <1>2, <1>3, <1>4, <1>5 DEF Settled, MustWaitFor
<1>7. [pods[o] EXCEPT !.labelled = TRUE] # pods[o]
  <2>1. [pods[o] EXCEPT !.labelled = TRUE].labelled = TRUE
    BY <1>4
  <2> QED
    BY <1>6, <2>1 DEF identityMatches
<1> QED
  BY <1>2, <1>3, <1>4, <1>7 DEF PodBecomes, TypeOK

\* Deleting a condemned pod is noticed.
LEMMA ScaleInIsNoticed ==
  ASSUME TypeOK, CalmInv, Calm, DeleteCondemned
  PROVE  queued' \/ pods' # pods
<1>1. w \in FrameType /\ FreshPass(w) /\ ~ PassOver(w)
  BY Running DEF DeleteCondemned, InPass, CalmInv
<1>2. PICK o \in AtCondemned(w) : (exists(pods[o]) /\ DeletePod(o)) \/ queued'
  BY DEF DeleteCondemned, Requeue
<1>3. o \in Ordinals /\ o \in Doomed(w)
  BY <1>1, StopsAtOrdinals DEF AtCondemned, Greatest, FreshPass
<1>4. ~ isTerminating(pods[o])
  <2>1. CASE monotonic(w.view)
    BY <1>1, <2>1 DEF PassOver, MustSpare, FreshPass
  <2>2. CASE ~ monotonic(w.view)
    BY <1>1, <1>3, <2>2 DEF Doomed, FreshPass
  <2> QED
    BY <2>1, <2>2
<1> QED
  BY <1>2, <1>3, <1>4, DeleteChanges

\* Deleting an outdated pod is noticed.
LEMMA RolloutIsNoticed ==
  ASSUME TypeOK, CalmInv, Calm, DeleteOutdated
  PROVE  queued' \/ pods' # pods
<1>1. w \in FrameType /\ FreshPass(w) /\ ~ PassOver(w)
  BY Running DEF DeleteOutdated, InPass, CalmInv
<1>2. PICK o \in AtUpdate(w) : (exists(pods[o]) /\ DeletePod(o)) \/ queued'
  BY DEF DeleteOutdated, Requeue
<1>3. o \in Ordinals /\ Ordinals \subseteq Nat
  BY <1>1, StopsAtOrdinals
<1>4. AtReplica(w) = {} /\ AtCondemned(w) = {} /\ w.replicas[o] # NoPod
  BY <1>2 DEF AtUpdate, AtCondemned, Greatest
<1>5. Outdated(w, o)
  <2>1. PICK p \in AtUpdate(w) : Outdated(w, p)
    BY <1>1, <1>4 DEF PassOver
  <2>2. p = o
    <3>1. p \in Ordinals
      BY <1>1, StopsAtOrdinals
    <3>2. p <= o /\ o <= p
      BY <1>2, <2>1 DEF AtUpdate, Greatest
    <3> QED
      BY <1>3, <3>1, <3>2
  <2> QED
    BY <2>1, <2>2
<1>6. ~ isTerminating(pods[o])
  <2>1. Settled(w, o)
    BY <1>1, <1>3, <1>4, AllSettled DEF FreshPass
  <2>2. isCreated(w.replicas[o])
    BY <1>4, <2>1 DEF Settled
  <2>3. w.replicas[o] = pods[o]
    BY <1>1, <1>3, <2>2, FreshReplica
  <2> QED
    BY <1>5, <2>3 DEF Outdated
<1> QED
  BY <1>2, <1>3, <1>6, DeleteChanges

\* Writing a status that differs from the recorded one is noticed.
LEMMA WriteIsNoticed ==
  ASSUME TypeOK, CalmInv, Calm, WriteStatus
  PROVE  queued' \/ set' # set
<1>1. w.pc = "status" /\ w.status # set.status
  BY DEF WriteStatus, CalmInv
<1> QED
  BY <1>1, StatusWrite

\* So what a sync does while all is calm is to look.
LEMMA CalmStep ==
  ASSUME TypeOK, Creating, CalmInv, [Next]_vars, Calm', ~ Sync
  PROVE  \/ w' = w /\ UNCHANGED revs
         \/ w \in FrameType /\ w.pc = "revisions" /\ w' = StartPass(w)
         \/ CreateClaims /\ w'.pc = "create" /\ GoesOn
         \/ EndPass
         \/ TruncateHistory /\ w'.pc = "truncate" /\ GoesOn
         \/ Finish
<1>0. /\ Calm /\ set' = set /\ pods' = pods /\ ~ queued'
      /\ w.pc # "idle" => w \in FrameType
  BY CalmBefore, Running DEF Calm
<1>1. /\ ~ RecreateFailed /\ ~ CreatePod /\ ~ UpdatePod /\ ~ DeleteCondemned
      /\ ~ DeleteOutdated /\ ~ WriteStatus
  BY <1>0, RecreateIsNoticed, CreateIsNoticed, UpdateIsNoticed, ScaleInIsNoticed,
     RolloutIsNoticed, WriteIsNoticed
<1>2. CASE KeepRevision \/ RollBack \/ CreateRevision
  BY <1>0, <1>2 DEF KeepRevision, RollBack, CreateRevision, Requeue
<1>3. CASE CreateClaims
  <2>1. w \in FrameType /\ w.pc = "pass"
    BY <1>0, <1>3 DEF CreateClaims, InPass
  <2>2. \E o : w' = [w EXCEPT !.pc = "create", !.next = o]
    BY <1>0, <1>3 DEF CreateClaims, Requeue
  <2> QED
    BY <1>3, <2>1, <2>2 DEF GoesOn, Later, FrameType
<1>4. CASE TruncateHistory
  <2>1. w \in FrameType /\ w.pc = "truncate"
    BY <1>0, <1>4 DEF TruncateHistory
  <2>2. \E t : w' = [w EXCEPT !.revs[t] = 0]
    BY <1>0, <1>4 DEF TruncateHistory, Requeue
  <2> QED
    BY <1>4, <2>1, <2>2 DEF GoesOn, Later, FrameType
<1>5. CASE ~ Worker
  BY <1>0, <1>5, Bystanders, RevisionsStep DEF Worker
<1> QED
  BY <1>1, <1>2, <1>3, <1>4, <1>5 DEF Worker

-----------------------------------------------------------------------------
(* The invariant. *)

\* The counters depend on the set, the pods and the current revision only.
LEMMA CountDepends ==
  ASSUME NEW f, NEW g, NEW cur, f.view = g.view, f.pods = g.pods
  PROVE  CountStatus(f, cur) = CountStatus(g, cur)
<1> DEFINE Of(v, P) ==
      LET listed == {o \in Ordinals : exists(P[o])}
          live(r) == {o \in listed : ~ isTerminating(P[o]) /\ P[o].rev = r}
      IN  [observedGeneration |-> v.generation,
           replicas |-> Cardinality(listed),
           readyReplicas |-> Cardinality({o \in listed : isRunningAndReady(P[o])}),
           currentReplicas |-> Cardinality(live(cur)),
           updatedReplicas |-> Cardinality(live(v.spec.template)),
           currentRevision |-> cur,
           updateRevision |-> v.spec.template]
<1>1. CountStatus(f, cur) = Of(f.view, f.pods)
  BY DEF CountStatus, upd
<1>2. CountStatus(g, cur) = Of(g.view, g.pods)
  BY DEF CountStatus, upd
<1> HIDE DEF Of
<1> QED
  BY <1>1, <1>2

\* A pass that starts while all is calm is fresh.
LEMMA FreshStart ==
  ASSUME NEW f \in FrameType, f.view = set, f.pods = pods, f.next = 0, ~ f.done
  PROVE  FreshPass(StartPass(f))
<1> DEFINE g == StartPass(f)
<1>1. /\ g.view = f.view /\ g.pods = f.pods /\ g.next = f.next /\ g.done = f.done
      /\ g.cur = currentRevision(f)
      /\ g.status = CountStatus(f, currentRevision(f))
  BY PassStarts
<1>2. g.condemned = Doomed(g)
  <2>1. Condemned(g) = Condemned(f)
    BY <1>1 DEF Condemned
  <2>2. g.condemned = IF monotonic(f.view) THEN Condemned(f)
                      ELSE {o \in Condemned(f) : ~ isTerminating(f.pods[o])}
    BY PassStarts
  <2> HIDE DEF g
  <2> QED
    BY <1>1, <2>1, <2>2 DEF Doomed
<1>3. g.replicas = Slotted(g)
  <2>1. g.replicas =
          [o \in Ordinals |->
             IF o \notin Desired(f.view) THEN NoPod
             ELSE IF exists(f.pods[o]) THEN f.pods[o]
             ELSE newVersionedStatefulSetPod(f.view, currentRevision(f), o)]
    BY PassStarts
  <2> HIDE DEF g
  <2> QED
    BY <1>1, <2>1 DEF Slotted
<1>4. CountStatus(f, currentRevision(f)) = CountStatus(g, g.cur)
  <2> HIDE DEF g
  <2> QED
    BY <1>1, CountDepends
<1> HIDE DEF g
<1>5. FreshPass(g)
  BY <1>1, <1>2, <1>3, <1>4 DEF FreshPass
<1> QED
  BY <1>5 DEF g

\* A status that needs no update, and is not ahead of the set, is recorded.
LEMMA StatusRecorded ==
  ASSUME NEW s \in SetType, NEW st \in StatusType, ~ inconsistentStatus(s, st),
         s.status.observedGeneration <= st.observedGeneration
  PROVE  s.status = st
<1>1. s.status \in StatusType
  BY SpecFields
<1> DEFINE t == s.status
<1>2. [st EXCEPT !.observedGeneration = 0] = [t EXCEPT !.observedGeneration = 0]
  BY DEF inconsistentStatus
<1>3. st.observedGeneration = t.observedGeneration
  <2>1. ~ (st.observedGeneration > t.observedGeneration)
    BY DEF inconsistentStatus
  <2> QED
    BY <1>1, <2>1 DEF StatusType
<1> HIDE DEF t
<1>4. st = [[st EXCEPT !.observedGeneration = 0]
              EXCEPT !.observedGeneration = st.observedGeneration]
  BY DEF StatusType
<1>5. t = [[t EXCEPT !.observedGeneration = 0]
             EXCEPT !.observedGeneration = t.observedGeneration]
  BY <1>1 DEF StatusType, t
<1>6. st = t
  BY <1>2, <1>3, <1>4, <1>5
<1> QED
  BY <1>6 DEF t

\* A pass that ends while all is calm either has a status to write, or has
\* found the recorded one.
LEMMA CalmEnd ==
  ASSUME TypeOK, ObservedGenerationHonest, CalmInv, Calm, EndPass
  PROVE  \/ w'.pc = "status" /\ w'.status # set.status
         \/ w'.pc = "truncate" /\ w'.status = set.status /\ Rested
<1> DEFINE st == completeRollingUpdate(w.view, w.status)
<1>1. /\ w \in FrameType /\ w.pc = "pass" /\ w'.status = st
      /\ w'.pc = IF inconsistentStatus(w.view, st) THEN "status" ELSE "truncate"
  BY PassEnds
<1>2. FreshPass(w) /\ PassOver(w) /\ w.view = set
  BY <1>1 DEF CalmInv, EndPass, FreshPass
<1>3. w.status \in StatusType /\ set \in SetType /\ set.status \in StatusType
  BY <1>1, SpecFields DEF FrameType, TypeOK
<1>4. st \in StatusType /\ st.observedGeneration = w.status.observedGeneration
  BY <1>3 DEF completeRollingUpdate, StatusType
<1>5. w.status.observedGeneration = set.generation
  BY <1>2 DEF FreshPass, CountStatus
<1>6. st = completeRollingUpdate(set, w.status)
  BY <1>2
<1> HIDE DEF st
<1>7. CASE inconsistentStatus(set, st)
  <2>1. st # set.status
    BY <1>3, <1>7 DEF inconsistentStatus, StatusType
  <2> QED
    BY <1>1, <1>2, <1>7, <2>1
<1>8. CASE ~ inconsistentStatus(set, st)
  <2>1. set.status = st
    BY <1>3, <1>4, <1>5, <1>8, StatusRecorded DEF ObservedGenerationHonest
  <2>2. Rested
    BY <1>1, <1>2, <1>6, <2>1 DEF Rested
  <2> QED
    BY <1>1, <1>2, <1>8, <2>1, <2>2
<1> QED
  BY <1>7, <1>8

\* Every step keeps the invariant.
LEMMA CalmInvStep ==
  ASSUME TypeOK, Creating, ObservedGenerationHonest, SetCacheFresh, PodCacheFresh,
         CalmInv, [Next]_vars
  PROVE  CalmInv'
<1> SUFFICES ASSUME Calm'
             PROVE  /\ w' # Idle => w'.view = set' /\ w'.pods = pods'
                    /\ w'.pc = "revisions" => w'.next = 0 /\ ~ w'.done
                    /\ w'.pc = "pass" => FreshPass(w)'
                    /\ w'.pc = "status" => w'.status # set'.status
                    /\ w'.pc \in {"idle", "truncate"} => Rested'
  BY DEF CalmInv
<1>0. set' = set /\ pods' = pods /\ (Sync \/ Calm) /\ Idle.pc = "idle"
  BY CalmBefore DEF Idle
<1>1. CASE Sync
  <2>1. setCache = set /\ podCache = pods
    BY <1>1 DEF Sync, SetCacheFresh, PodCacheFresh, Calm, api
  <2> QED
    BY <1>0, <1>1, <2>1 DEF Sync
<1>2. Rested => Rested'
  BY <1>0 DEF Rested, FreshPass
<1>3. CASE w' = w /\ Calm
  <2>1. FreshPass(w) => FreshPass(w)'
    BY <1>0, <1>3 DEF FreshPass, Slotted, Doomed, CountStatus, Condemned, upd
  <2> QED
    BY <1>0, <1>2, <1>3, <2>1 DEF CalmInv
<1>4. CASE w \in FrameType /\ w.pc = "revisions" /\ w' = StartPass(w) /\ Calm
  <2>1. w.view = set /\ w.pods = pods /\ w.next = 0 /\ ~ w.done
    BY <1>0, <1>4 DEF CalmInv
  <2>2. FreshPass(StartPass(w))
    BY <1>4, <2>1, FreshStart
  <2>3. w'.pc = "pass" /\ w'.view = w.view /\ w'.pods = w.pods
    BY <1>4, PassStarts
  <2> DEFINE g == StartPass(w)
  <2>4. w' = g /\ FreshPass(g)
    BY <1>4, <2>2
  <2> HIDE DEF g
  <2>5. FreshPass(w)'
    BY <1>0, <2>4 DEF FreshPass, Slotted, Doomed, CountStatus, Condemned, upd
  <2> QED
    BY <1>0, <2>1, <2>3, <2>5
<1>5. CASE CreateClaims /\ w'.pc = "create" /\ GoesOn /\ Calm
  BY <1>0, <1>5 DEF GoesOn, CalmInv, Later
<1>6. CASE EndPass /\ Calm
  <2>1. w'.view = w.view /\ w'.pods = w.pods /\ w.pc = "pass"
    BY <1>6, PassEnds
  <2> QED
    BY <1>0, <1>2, <1>6, <2>1, CalmEnd DEF CalmInv
<1>7. CASE TruncateHistory /\ w'.pc = "truncate" /\ GoesOn /\ Calm
  BY <1>0, <1>2, <1>7 DEF TruncateHistory, GoesOn, CalmInv
<1>8. CASE Finish /\ Calm
  BY <1>0, <1>2, <1>8 DEF Finish, CalmInv
<1> QED
  BY <1>0, <1>1, <1>3, <1>4, <1>5, <1>6, <1>7, <1>8, CalmStep

\* The inductive invariant.
QuietInv ==
  /\ TypeOK /\ Creating /\ Generations
  /\ SetCacheFresh /\ PodCacheFresh
  /\ CalmInv

\* It holds whatever caches lag and whatever goes wrong.
LEMMA QuietInvHolds == Spec => []QuietInv
<1>1. Init => QuietInv
  <2>1. Init => ~ Calm
    BY DEF Init, Calm
  <2> QED
    BY <2>1, RevisionsInit, GenerationsInit DEF QuietInv, CalmInv
<1>2. QuietInv /\ [Next]_vars => QuietInv'
  BY TypeStep, CreatingStep, GenerationsStep, CacheFreshStep, CalmInvStep
     DEF QuietInv, Generations
<1> QED
  BY <1>1, <1>2, PTL DEF Spec

\* When nothing is left to do, the last pass found nothing to do.
LEMMA QuietRested ==
  ASSUME QuietInv, Quiet
  PROVE  Rested
BY DEF QuietInv, CalmInv, Calm, Quiet, Idle

-----------------------------------------------------------------------------
(* The status at rest. *)

\* When no pod is terminating, the status of a pass counts the pods there are.
LEMMA RestedStatus ==
  ASSUME TypeOK, Rested, \A o \in Ordinals : ~ isTerminating(pods[o])
  PROVE  StatusExact
<1>1. PICK f \in FrameType :
        /\ f.view = set /\ f.pods = pods
        /\ f.status = CountStatus(f, f.cur)
        /\ set.status = completeRollingUpdate(set, f.status)
  BY DEF Rested, FreshPass
<1> DEFINE live == {o \in Ordinals : exists(pods[o])}
           at(r) == Cardinality({o \in live : pods[o].rev = r})
           up == Cardinality({o \in live : Up(pods[o])})
           t == set.spec.template
           count == [observedGeneration |-> set.generation,
                     replicas |-> Cardinality(live),
                     readyReplicas |-> up,
                     currentReplicas |-> at(f.cur),
                     updatedReplicas |-> at(t),
                     currentRevision |-> f.cur,
                     updateRevision |-> t]
<1>2. f.status = count
  <2>1. {o \in live : isRunningAndReady(pods[o])} = {o \in live : Up(pods[o])}
    BY DEF isRunningAndReady, isTerminating, Up
  <2>2. \A r : {o \in live : ~ isTerminating(pods[o]) /\ pods[o].rev = r}
                 = {o \in live : pods[o].rev = r}
    OBVIOUS
  <2>3. CountStatus(f, f.cur) =
          [observedGeneration |-> set.generation,
           replicas |-> Cardinality(live),
           readyReplicas |-> Cardinality({o \in live : isRunningAndReady(pods[o])}),
           currentReplicas |->
             Cardinality({o \in live : ~ isTerminating(pods[o]) /\ pods[o].rev = f.cur}),
           updatedReplicas |->
             Cardinality({o \in live : ~ isTerminating(pods[o]) /\ pods[o].rev = t}),
           currentRevision |-> f.cur,
           updateRevision |-> t]
    BY <1>1 DEF CountStatus, upd
  <2>4. Cardinality({o \in live : isRunningAndReady(pods[o])}) = up
    BY <2>1
  <2>5. /\ Cardinality({o \in live : ~ isTerminating(pods[o]) /\ pods[o].rev = f.cur})
             = at(f.cur)
        /\ Cardinality({o \in live : ~ isTerminating(pods[o]) /\ pods[o].rev = t}) = at(t)
    BY <2>2
  <2> QED
    BY <1>1, <2>3, <2>4, <2>5
<1>3. StatusExact <=>
        /\ set.status.observedGeneration = set.generation
        /\ set.status.replicas = Cardinality(live)
        /\ set.status.readyReplicas = up
        /\ set.status.currentReplicas = at(set.status.currentRevision)
        /\ set.status.updatedReplicas = at(set.status.updateRevision)
        /\ set.status.updateRevision = t
  BY DEF StatusExact
<1> DEFINE c == at(f.cur)
           u == at(t)
           n == Cardinality(live)
           g == set.generation
<1>4. /\ f.status.observedGeneration = g /\ f.status.replicas = n
      /\ f.status.readyReplicas = up /\ f.status.currentReplicas = c
      /\ f.status.updatedReplicas = u /\ f.status.currentRevision = f.cur
      /\ f.status.updateRevision = t
  BY <1>2
<1>5. f.status \in StatusType
  BY DEF FrameType
<1>6. \/ set.status = f.status
      \/ set.status = [f.status EXCEPT !.currentReplicas = f.status.updatedReplicas,
                                       !.currentRevision = f.status.updateRevision]
  BY <1>1 DEF completeRollingUpdate
<1>7. CASE set.status = f.status
  BY <1>3, <1>4, <1>7
<1>8. CASE set.status = [f.status EXCEPT !.currentReplicas = f.status.updatedReplicas,
                                         !.currentRevision = f.status.updateRevision]
  <2> HIDE DEF g, n, up, c, u
  <2>1. /\ set.status.observedGeneration = g /\ set.status.replicas = n
        /\ set.status.readyReplicas = up /\ set.status.currentReplicas = u
        /\ set.status.updatedReplicas = u /\ set.status.currentRevision = t
        /\ set.status.updateRevision = t
    BY <1>4, <1>5, <1>8 DEF StatusType
  <2> QED
    BY <1>3, <2>1 DEF g, n, u
<1> QED
  BY <1>6, <1>7, <1>8

\* When the controller has nothing left to do, the recorded status counts the
\* pods that exist, although it was worked out from caches and written in a
\* retry loop, and whatever broke off in between.
THEOREM StatusSettles == Spec => []QuietStatus
<1>1. QuietInv => QuietStatus
  <2> SUFFICES ASSUME QuietInv, Quiet PROVE StatusExact
    BY DEF QuietStatus
  <2> QED
    BY QuietRested, RestedStatus DEF QuietInv, Quiet
<1> QED
  BY <1>1, QuietInvHolds, PTL

-----------------------------------------------------------------------------
(* The pods at rest. *)

\* A finite set with two elements counts more than one.
LEMMA TwoElements ==
  ASSUME NEW T, IsFiniteSet(T), NEW a \in T, NEW b \in T, a # b
  PROVE  Cardinality(T) > 1
<1>1. IsFiniteSet({a}) /\ Cardinality({a}) = 1
  BY FS_Singleton
<1>2. IsFiniteSet({a} \union {b}) /\ Cardinality({a} \union {b}) = 2
  <2> DEFINE A == {a}
  <2>1. IsFiniteSet(A) /\ Cardinality(A) = 1 /\ b \notin A
    BY <1>1
  <2> HIDE DEF A
  <2>2. Cardinality(A \union {b}) = Cardinality(A) + 1 /\ IsFiniteSet(A \union {b})
    BY <2>1, FS_AddElement
  <2> QED
    BY <2>1, <2>2 DEF A
<1>3. Cardinality({a} \union {b}) <= Cardinality(T)
  BY FS_Subset
<1>4. Cardinality(T) \in Nat
  BY FS_CardinalityType
<1> QED
  BY <1>2, <1>3, <1>4

\* With its claims, a pod at rest serves or has failed.
LEMMA ReadyOrFailed ==
  ASSUME TypeOK, Quiet, ~ ClaimLost, NEW o \in Ordinals, exists(pods[o])
  PROVE  /\ isFailed(pods[o]) \/ Up(pods[o])
         /\ ~ isTerminating(pods[o])
         /\ isHealthy(pods[o]) <=> Up(pods[o])
         /\ isRunningAndReady(pods[o]) <=> Up(pods[o])
<1>1. pods[o].phase \in {"Pending", "Ready", "Failed"}
  BY DEF TypeOK, ApiPodType, PodType, exists, NoPod
<1>2. pods[o].phase # "Pending" /\ ~ isTerminating(pods[o])
  BY DEF Quiet, ClaimLost
<1> QED
  BY <1>1, <1>2 DEF isFailed, Up, isHealthy, isRunningAndReady, isTerminating

\* A slot of the set is never empty.
LEMMA SlotFilled ==
  ASSUME NEW f \in FrameType, FreshPass(f), NEW o \in Desired(set)
  PROVE  o \in Ordinals /\ f.replicas[o] # NoPod
<1>1. o \in Ordinals
  BY DEF Desired
<1>2. f.replicas[o] = IF exists(pods[o]) THEN pods[o]
                      ELSE newVersionedStatefulSetPod(set, f.cur, o)
  BY <1>1 DEF FreshPass, Slotted
<1>3. ~ exists(NoPod) /\ newVersionedStatefulSetPod(set, f.cur, o) # NoPod
  BY DEF exists, NoPod, newVersionedStatefulSetPod
<1> QED
  BY <1>1, <1>2, <1>3

\* A replica the first loop goes past serves, with its label.
LEMMA SettledServes ==
  ASSUME TypeOK, Quiet, ~ ClaimLost, NEW f \in FrameType, FreshPass(f),
         NEW o \in Desired(set), Settled(f, o)
  PROVE  /\ f.replicas[o] = pods[o] /\ exists(pods[o])
         /\ Up(pods[o]) /\ identityMatches(pods[o]) /\ isHealthy(pods[o])
<1>1. o \in Ordinals /\ f.replicas[o] # NoPod
  BY SlotFilled
<1>2. isCreated(f.replicas[o]) /\ ~ isFailed(f.replicas[o]) /\ identityMatches(f.replicas[o])
  BY <1>1 DEF Settled
<1>3. f.replicas[o] = pods[o] /\ exists(pods[o])
  BY <1>1, <1>2, FreshReplica
<1> QED
  BY <1>1, <1>2, <1>3, ReadyOrFailed

\* At rest, the pass does not wait for a replica.
LEMMA NoReplicaWaits ==
  ASSUME TypeOK, Quiet, ~ ClaimLost, NEW f \in FrameType, FreshPass(f),
         NEW o \in AtReplica(f)
  PROVE  ~ MustWaitFor(f, o)
<1> SUFFICES ASSUME MustWaitFor(f, o) PROVE FALSE
  OBVIOUS
<1>1. o \in Ordinals /\ isCreated(f.replicas[o]) /\ ~ isFailed(f.replicas[o])
      /\ ~ isHealthy(f.replicas[o])
  BY StopsAtOrdinals DEF MustWaitFor
<1>2. f.replicas[o] = pods[o] /\ exists(pods[o])
  BY <1>1, FreshReplica
<1> QED
  BY <1>1, <1>2, ReadyOrFailed

\* At rest, the pass does not wait for a condemned pod, unless two have
\* failed.
LEMMA NoCondemnedWaits ==
  ASSUME TypeOK, Quiet, ~ ClaimLost, ~ ScaleInHalted, NEW f \in FrameType, FreshPass(f),
         NEW o \in AtCondemned(f)
  PROVE  ~ MustSpare(f, o)
<1> SUFFICES ASSUME MustSpare(f, o) PROVE FALSE
  OBVIOUS
<1>1. f.view = set /\ f.pods = pods /\ monotonic(set) /\ f.next = 0
  BY DEF FreshPass, MustSpare
<1>2. o \in Condemned(f) /\ AtReplica(f) = {}
  BY <1>1 DEF AtCondemned, Greatest, FreshPass, Doomed
<1>3. o \in Ordinals \ Desired(set) /\ exists(pods[o])
  BY <1>1, <1>2 DEF Condemned
<1>4. isFailed(pods[o]) /\ o \notin firstUnhealthy(f) /\ ~ isHealthy(pods[o])
  <2>1. \/ isTerminating(pods[o])
        \/ ~ isRunningAndReady(pods[o]) /\ o \notin firstUnhealthy(f)
    BY <1>1 DEF MustSpare
  <2> QED
    BY <1>3, <2>1, ReadyOrFailed
<1> DEFINE U == {x \in Desired(set) \union Condemned(f) : ~ isHealthy(pods[x])}
<1>5. firstUnhealthy(f) = Least(U) /\ o \in U /\ U \in SUBSET Ordinals
  BY <1>1, <1>2, <1>4 DEF firstUnhealthy, Condemned, Desired
<1>6. PICK p \in Least(U) : TRUE
  <2> HIDE DEF U
  <2> QED
    BY <1>5, LeastAndGreatest
<1>7. p \in U /\ p # o
  BY <1>4, <1>5, <1>6 DEF Least
<1>8. p \notin Desired(set)
  <2> SUFFICES ASSUME p \in Desired(set) PROVE FALSE
    OBVIOUS
  <2>1. Settled(f, p)
    BY <1>1, <1>2, AllSettled DEF Desired
  <2> QED
    BY <1>7, <2>1, SettledServes
<1>9. p \in Ordinals \ Desired(set) /\ isFailed(pods[p])
  <2>1. p \in Condemned(f)
    BY <1>7, <1>8
  <2>2. p \in Ordinals /\ exists(pods[p])
    BY <1>1, <2>1 DEF Condemned
  <2> QED
    BY <1>7, <1>8, <2>2, ReadyOrFailed
<1> DEFINE T == {x \in Ordinals \ Desired(set) : isFailed(pods[x])}
<1>10. IsFiniteSet(T)
  <2>1. IsFiniteSet(Ordinals) /\ T \subseteq Ordinals
    BY ControlAssumption, FS_Interval DEF Ordinals
  <2> QED
    BY <2>1, FS_Subset
<1>11. o \in T /\ p \in T
  BY <1>3, <1>4, <1>9
<1>12. Cardinality(T) > 1
  <2> HIDE DEF T
  <2> QED
    BY <1>7, <1>10, <1>11, TwoElements
<1> QED
  BY <1>1, <1>12 DEF ScaleInHalted

\* At rest, the pods are what the set asks for.
LEMMA RestedPods ==
  ASSUME TypeOK, Quiet, Rested, ~ set.deleting, ~ ClaimLost, ~ ScaleInHalted
  PROVE  PodsConverged
<1>1. PICK f \in FrameType : FreshPass(f) /\ PassOver(f)
  BY DEF Rested
<1>2. f.view = set /\ f.pods = pods /\ ~ f.done /\ f.next = 0 /\ f.condemned = Doomed(f)
  BY <1>1 DEF FreshPass
<1>3. /\ AtReplica(f) = {} /\ AtCondemned(f) = {}
      /\ \A o \in AtUpdate(f) : ~ Outdated(f, o)
  BY <1>1, <1>2, NoReplicaWaits, NoCondemnedWaits DEF PassOver
<1>4. ASSUME NEW o \in Desired(set)
      PROVE  /\ f.replicas[o] = pods[o] /\ exists(pods[o]) /\ o \in Ordinals
             /\ Up(pods[o]) /\ identityMatches(pods[o]) /\ isHealthy(pods[o])
  <2>1. Settled(f, o) /\ o \in Ordinals
    BY <1>2, <1>3, AllSettled DEF Desired
  <2> QED
    BY <1>1, <2>1, SettledServes
<1>5. ASSUME NEW o \in Ordinals \ Desired(set)
      PROVE  ~ exists(pods[o])
  <2>1. f.condemned = {}
    <3>1. Greatest(f.condemned) = {} /\ f.condemned \in SUBSET Ordinals
      BY <1>3 DEF AtCondemned, FrameType
    <3> QED
      BY <3>1, LeastAndGreatest
  <2>2. ~ isTerminating(pods[o])
    BY DEF Quiet
  <2> QED
    BY <1>2, <2>1, <2>2 DEF Doomed, Condemned
<1>6. ASSUME NEW o \in Desired(set), set.spec.strategy # "OnDelete",
             ~ (o < set.spec.partition)
      PROVE  pods[o].rev = set.spec.template
  <2> DEFINE V == {x \in Ordinals : /\ x >= f.view.spec.partition
                                    /\ f.replicas[x] # NoPod
                                    /\ Outdated(f, x) \/ ~ isHealthy(f.replicas[x])}
  <2>1. f.condemned = {}
    <3>1. Greatest(f.condemned) = {} /\ f.condemned \in SUBSET Ordinals
      BY <1>3 DEF AtCondemned, FrameType
    <3> QED
      BY <3>1, LeastAndGreatest
  <2>2. AtUpdate(f) = Greatest(V) /\ V \in SUBSET Ordinals
    BY <1>2, <1>3, <1>6, <2>1 DEF AtUpdate
  <2>3. ASSUME NEW x \in V PROVE Outdated(f, x)
    <3>1. x \in Desired(set)
      BY <1>1, <1>2 DEF FreshPass, Slotted
    <3> QED
      BY <1>4, <2>3, <3>1
  <2>4. V = {}
    <3> SUFFICES ASSUME V # {} PROVE FALSE
      OBVIOUS
    <3>1. PICK x \in Greatest(V) : TRUE
      <4> HIDE DEF V
      <4> QED
        BY <2>2, LeastAndGreatest
    <3>2. x \in V
      BY <3>1 DEF Greatest
    <3> QED
      BY <1>3, <2>2, <2>3, <3>1, <3>2
  <2>5. o \in Ordinals /\ f.replicas[o] # NoPod /\ o >= set.spec.partition
    <3>1. set.spec.partition \in Nat \union {-1} /\ o \in Nat
      <4>1. set.spec \in SpecType
        BY ControlAssumption, SpecFields DEF TypeOK
      <4>2. o \in Ordinals
        BY DEF Desired
      <4>3. o \in Nat
        BY <4>2, ControlAssumption DEF Ordinals
      <4> QED
        BY <4>1, <4>3 DEF SpecType, Nil
    <3>2. o >= set.spec.partition
      BY <1>6, <3>1
    <3> QED
      BY <1>1, <3>2, SlotFilled
  <2>6. ~ Outdated(f, o)
    BY <1>2, <2>4, <2>5
  <2>7. ~ isTerminating(pods[o])
    BY <2>5 DEF Quiet
  <2> QED
    BY <1>2, <1>4, <2>6, <2>7 DEF Outdated, upd
<1> QED
  BY <1>4, <1>5, <1>6 DEF PodsConverged

\* The controller does not stop short: when it has nothing left to do, the
\* pods are what the set asks for, unless scale in has halted on two failed
\* pods or a claim is gone.
THEOREM PodsSettle == Spec => []QuietPods
<1>1. QuietInv => QuietPods
  BY QuietRested, RestedPods DEF QuietPods, QuietInv
<1> QED
  BY <1>1, QuietInvHolds, PTL
=============================================================================
