-------------------- MODULE StatefulSetControllerProofs --------------------
(***************************************************************************)
(* Theorems about StatefulSetController, for any number of user actions,   *)
(* lost watches and restarts.                                              *)
(***************************************************************************)
EXTENDS StatefulSetController, SequenceTheorems, TLAPS

-----------------------------------------------------------------------------
(* Types. Nobody knows of a set or a pod whose UID has not been given out:  *)
(* m and n are the last UIDs of pods and of sets.                           *)

Sets(n) ==
  {s \in [uid : 0 .. n, deleting : BOOLEAN,
          finalizer : {"none", "orphan", "foreground"}, replicas : {0, 1}] :
     s.uid = 0 => s = NoSet}

Pods(m, n) ==
  {p \in [uid : 0 .. m, owner : 0 .. n, labelled : BOOLEAN, terminating : BOOLEAN] :
     p.uid = 0 => p = NoPod}

Events(m, n) == [pod : Pods(m, n), gone : BOOLEAN]

Notes(m, n) ==
  [kind : {"add", "update", "delete", "tombstone"}, old : Pods(m, n), cur : Pods(m, n)]

\* A pod that is released or adopted has been in the cache.
Syncs(m, n) ==
  {f \in [pc : {"release", "check", "adopt", "update", "status"},
          view : Sets(n) \ {NoSet}, pod : Pods(m, n),
          claimed : BOOLEAN, wasLive : BOOLEAN] :
     f.pc \in {"release", "check", "adopt"} => f.pod # NoPod}

\* The type invariant of StatefulSetController. In particular every sync in
\* progress works for a set that has existed.
TypeOK ==
  /\ setUid \in Nat /\ podUid \in Nat
  /\ set \in Sets(setUid) /\ pod \in Pods(podUid, setUid)
  /\ setEvents \in Seq(Sets(setUid))
  /\ podEvents \in Seq(Events(podUid, setUid))
  /\ setCache \in Sets(setUid) /\ podCache \in Pods(podUid, setUid)
  /\ podNotes \in Seq(Notes(podUid, setUid))
  /\ synced \in SUBSET {"sets", "pods"}
  /\ queued \in BOOLEAN
  /\ w \in Syncs(podUid, setUid) \union {Idle}
  /\ unseen \in BOOLEAN
  /\ ops \in 0 .. MaxOps

\* Nothing and nobody are known from the start.
LEMMA NothingKnown ==
  ASSUME NEW m \in Nat, NEW n \in Nat
  PROVE  NoSet \in Sets(n) /\ NoPod \in Pods(m, n)
BY DEF NoSet, NoPod, Sets, Pods

\* A set and a pod that are created have the next UID.
LEMMA NewObjects ==
  ASSUME NEW n \in Nat \ {0}, NEW k \in Nat, NEW o \in 0 .. k
  PROVE  /\ NewSet(n).uid = n /\ NewSet(n) \in Sets(n) \ {NoSet}
         /\ NewPod(n, o) \in Pods(n, k) \ {NoPod}
<1> DEFINE Fields == [uid : 0 .. n, deleting : BOOLEAN,
                      finalizer : {"none", "orphan", "foreground"}, replicas : {0, 1}]
<1>1. NoSet \in Fields /\ NoSet.uid = 0
  BY DEF NoSet
<1>2. [NoSet EXCEPT !.uid = n] \in Fields
  BY <1>1
<1>3. NewSet(n).uid = n
  BY <1>1 DEF NewSet
<1>4. NewSet(n) \in Sets(n) \ {NoSet}
  BY <1>1, <1>2, <1>3 DEF Sets, NewSet
<1>5. NewPod(n, o) \in Pods(n, k) \ {NoPod}
  BY DEF NewPod, NoPod, Pods
<1> QED
  BY <1>3, <1>4, <1>5

\* What is known stays known when UIDs are given out.
LEMMA KnownStays ==
  ASSUME NEW m \in Nat, NEW n \in Nat, NEW k \in Nat, NEW l \in Nat, m <= k, n <= l
  PROVE  /\ Sets(n) \subseteq Sets(l) /\ Pods(m, n) \subseteq Pods(k, l)
         /\ Events(m, n) \subseteq Events(k, l) /\ Notes(m, n) \subseteq Notes(k, l)
         /\ Syncs(m, n) \subseteq Syncs(k, l)
<1>1. Sets(n) \subseteq Sets(l)
  BY DEF Sets
<1>2. Pods(m, n) \subseteq Pods(k, l)
  BY DEF Pods
<1>3. Events(m, n) \subseteq Events(k, l)
  BY <1>2 DEF Events
<1>4. Notes(m, n) \subseteq Notes(k, l)
  BY <1>2 DEF Notes
<1>5. Syncs(m, n) \subseteq Syncs(k, l)
  BY <1>1, <1>2 DEF Syncs
<1> QED
  BY <1>1, <1>2, <1>3, <1>4, <1>5

\* Writes of the set and of the pod keep what the API server has and tells in
\* its type.
LEMMA SetWrite ==
  ASSUME TypeOK, setUid' \in Nat, setUid <= setUid', NEW s \in Sets(setUid'), SetBecomes(s)
  PROVE  set' \in Sets(setUid') /\ setEvents' \in Seq(Sets(setUid'))
<1>1. setEvents \in Seq(Sets(setUid'))
  BY KnownStays, SeqMonotonic DEF TypeOK
<1>2. Append(setEvents, s) \in Seq(Sets(setUid'))
  BY <1>1, AppendProperties
<1> QED
  BY <1>1, <1>2 DEF SetBecomes

\* A write of the pod keeps the types of the pod and of its stream.
LEMMA PodWrite ==
  ASSUME TypeOK, podUid' \in Nat, podUid <= podUid',
         NEW p \in Pods(podUid', setUid), PodBecomes(p)
  PROVE  pod' \in Pods(podUid', setUid) /\ podEvents' \in Seq(Events(podUid', setUid))
<1>1. /\ podEvents \in Seq(Events(podUid', setUid))
      /\ pod \in Pods(podUid', setUid)
  BY KnownStays, SeqMonotonic DEF TypeOK
<1>2. \A e \in Events(podUid', setUid) :
        Append(podEvents, e) \in Seq(Events(podUid', setUid))
  BY <1>1, AppendProperties
<1>3. /\ [pod |-> pod, gone |-> TRUE] \in Events(podUid', setUid)
      /\ [pod |-> p, gone |-> FALSE] \in Events(podUid', setUid)
  BY <1>1 DEF Events
<1> QED
  BY <1>1, <1>2, <1>3 DEF PodBecomes

\* An update of a known pod leaves it known.
LEMMA PodUpdates ==
  ASSUME NEW m \in Nat, NEW n \in Nat, NEW p \in Pods(m, n) \ {NoPod}, NEW o \in 0 .. n
  PROVE  /\ [p EXCEPT !.owner = o] \in Pods(m, n) \ {NoPod}
         /\ [p EXCEPT !.terminating = TRUE] \in Pods(m, n) \ {NoPod}
         /\ [p EXCEPT !.labelled = ~ @] \in Pods(m, n) \ {NoPod}
         /\ p.uid # 0
BY DEF Pods, NoPod

-----------------------------------------------------------------------------
(* Type correctness, action by action. *)

\* The initial state has its type.
LEMMA TypeInit == Init => TypeOK
<1> SUFFICES ASSUME Init PROVE TypeOK
  OBVIOUS
<1>1. setUid = 1 /\ set \in Sets(1)
  <2>1. setUid = 1 /\ set = NewSet(1)
    BY DEF Init
  <2>2. NewSet(1) \in Sets(1)
    BY NewObjects
  <2> QED
    BY <2>1, <2>2
<1>2. podUid \in Nat /\ pod \in Pods(podUid, setUid)
  <2>1. CASE pod = NoPod
    BY <2>1, <1>1, NothingKnown DEF Init, NoPod
  <2>2. CASE pod = NewPod(1, 0)
    <3>1. podUid = 1
      BY <2>2 DEF Init, NewPod
    <3>2. NewPod(1, 0) \in Pods(1, 1)
      BY NewObjects
    <3> QED
      BY <1>1, <2>2, <3>1, <3>2
  <2> QED
    BY <2>1, <2>2 DEF Init
<1>3. setCache \in Sets(setUid) /\ podCache \in Pods(podUid, setUid)
  BY <1>1, <1>2, NothingKnown DEF Init
<1>4. ops \in 0 .. MaxOps
  BY ControllerAssumption DEF Init
<1> QED
  <2>1. \A S : <<>> \in Seq(S)
    BY EmptySeq
  <2>2. setEvents \in Seq(Sets(setUid)) /\ podEvents \in Seq(Events(podUid, setUid))
    BY <2>1 DEF Init
  <2>3. podNotes \in Seq(Notes(podUid, setUid))
    BY <2>1 DEF Init
  <2>4. w \in Syncs(podUid, setUid) \union {Idle} /\ synced \in SUBSET {"sets", "pods"}
    BY DEF Init
  <2>5. queued \in BOOLEAN /\ unseen \in BOOLEAN
    BY DEF Init
  <2> QED
    BY <1>1, <1>2, <1>3, <1>4, <2>2, <2>3, <2>4, <2>5 DEF TypeOK

\* The informers and the handlers keep the types.
LEMMA TypeInformers ==
  ASSUME TypeOK, HandlePod \/ PodEvent \/ SetEvent \/ ListPods \/ ListSets
  PROVE  TypeOK'
<1> DEFINE P == Pods(podUid, setUid)
           N == Notes(podUid, setUid)
<1>1. /\ NoPod \in P /\ pod \in P /\ podCache \in P
      /\ \A k \in {"add", "update", "delete", "tombstone"}, p, q \in P :
           [kind |-> k, old |-> p, cur |-> q] \in N
      /\ \A x \in N : Append(podNotes, x) \in Seq(N)
  BY NothingKnown, AppendProperties DEF TypeOK, Notes
<1>2. CASE HandlePod
  <2>1. podNotes' \in Seq(N)
    BY <1>2, HeadTailProperties DEF HandlePod, TypeOK
  <2>2. queued' \in BOOLEAN
    BY <1>2 DEF HandlePod
  <2> QED
    BY <1>2, <2>1, <2>2 DEF HandlePod, TypeOK, api
<1>3. CASE PodEvent
  <2> DEFINE e == Head(podEvents)
  <2>1. e \in Events(podUid, setUid) /\ podEvents' \in Seq(Events(podUid, setUid))
    BY <1>3, HeadTailProperties DEF PodEvent, TypeOK
  <2>2. e.pod \in P /\ e.gone \in BOOLEAN
    BY <2>1 DEF Events
  <2>3. podCache' \in P /\ podNotes' \in Seq(N)
    <3> HIDE DEF P, N, e
    <3>1. podCache' = IF e.gone THEN NoPod ELSE e.pod
      BY <1>3 DEF PodEvent, e
    <3>2. podNotes' = Append(podNotes,
              [kind |-> IF e.gone THEN "delete"
                        ELSE IF podCache = NoPod THEN "add" ELSE "update",
               old |-> IF e.gone THEN e.pod ELSE podCache,
               cur |-> IF e.gone THEN NoPod ELSE e.pod])
      BY <1>3 DEF PodEvent, e
    <3> QED
      BY <1>1, <2>2, <3>1, <3>2
  <2> QED
    BY <1>3, <2>1, <2>3 DEF PodEvent, TypeOK
<1>4. CASE SetEvent
  <2>1. setCache' \in Sets(setUid) /\ setEvents' \in Seq(Sets(setUid))
    BY <1>4, HeadTailProperties DEF SetEvent, TypeOK
  <2> QED
    BY <1>4, <2>1 DEF SetEvent, TypeOK
<1>5. CASE ListPods
  <2>1. podNotes' \in Seq(N)
    <3> HIDE DEF P, N
    <3>1. podNotes' =
            IF pod = NoPod
            THEN IF podCache = NoPod THEN podNotes
                 ELSE Append(podNotes, [kind |-> "tombstone", old |-> podCache, cur |-> NoPod])
            ELSE Append(podNotes, [kind |-> IF podCache = NoPod THEN "add" ELSE "update",
                                   old |-> podCache, cur |-> pod])
      BY <1>5 DEF ListPods
    <3>2. podNotes \in Seq(N)
      BY DEF TypeOK, N
    <3> QED
      BY <1>1, <3>1, <3>2
  <2>2. ops' \in 0 .. MaxOps
    BY <1>5, ControllerAssumption DEF ListPods, Relists, TypeOK
  <2>3. synced' \in SUBSET {"sets", "pods"}
    BY <1>5 DEF ListPods, TypeOK
  <2>4. unseen' \in BOOLEAN
    BY <1>5 DEF ListPods
  <2> QED
    BY <1>5, <2>1, <2>2, <2>3, <2>4 DEF ListPods, TypeOK
<1>6. CASE ListSets
  <2>1. ops' \in 0 .. MaxOps
    BY <1>6, ControllerAssumption DEF ListSets, Relists, TypeOK
  <2>2. synced' \in SUBSET {"sets", "pods"}
    BY <1>6 DEF ListSets, TypeOK
  <2>3. queued' \in BOOLEAN
    BY <1>6 DEF ListSets, TypeOK
  <2> QED
    BY <1>6, <2>1, <2>2, <2>3 DEF ListSets, TypeOK
<1> QED
  BY <1>2, <1>3, <1>4, <1>5, <1>6

\* The state of a sync that is not idle.
LEMMA SyncFields ==
  ASSUME TypeOK, w # Idle
  PROVE  /\ w \in Syncs(podUid, setUid)
         /\ w.view \in Sets(setUid) \ {NoSet} /\ w.view.uid \in 1 .. setUid
         /\ w.pod \in Pods(podUid, setUid)
         /\ w.claimed \in BOOLEAN /\ w.wasLive \in BOOLEAN
         /\ w.pc \in {"release", "check", "adopt"} => w.pod # NoPod
BY DEF TypeOK, Syncs, Sets, NoSet

\* Steps of a sync in its type.
LEMMA SyncSteps ==
  ASSUME NEW m \in Nat, NEW n \in Nat, NEW f \in Syncs(m, n), NEW pc \in {"update", "status"}
  PROVE  /\ [f EXCEPT !.pc = pc] \in Syncs(m, n)
         /\ f.pod # NoPod => [f EXCEPT !.pc = "adopt"] \in Syncs(m, n)
         /\ [f EXCEPT !.claimed = TRUE] \in Syncs(m, n)
         /\ [f EXCEPT !.pc = pc, !.claimed = TRUE] \in Syncs(m, n)
         /\ Counted(f) \in Syncs(m, n) \union {Idle}
<1>1. \A q \in {"update", "status"} : [f EXCEPT !.pc = q] \in Syncs(m, n)
  BY DEF Syncs
<1>2. f.pod # NoPod => [f EXCEPT !.pc = "adopt"] \in Syncs(m, n)
  BY DEF Syncs
<1>3. Counted(f) \in {Idle, [f EXCEPT !.pc = "status"]}
  BY DEF Counted
<1>4. [f EXCEPT !.claimed = TRUE] \in Syncs(m, n)
  BY DEF Syncs
<1>5. [f EXCEPT !.pc = pc, !.claimed = TRUE] \in Syncs(m, n)
  BY DEF Syncs
<1> QED
  BY <1>1, <1>2, <1>3, <1>4, <1>5

\* What ClaimPods has to call is decided by the pod as it is in the cache.
LEMMA ClaimStarts ==
  ASSUME NEW m \in Nat, NEW n \in Nat,
         NEW f \in [pc : {"claim"}, view : Sets(n) \ {NoSet}, pod : Pods(m, n),
                    claimed : BOOLEAN, wasLive : BOOLEAN]
  PROVE  /\ ClaimPods(f) \in Syncs(m, n)
         /\ ClaimPods(f).view = f.view /\ ClaimPods(f).wasLive = f.wasLive
         /\ ClaimPods(f).pod = f.pod
         /\ ClaimPods(f).claimed = (Ours(f) /\ f.pod.labelled)
         /\ ClaimPods(f).pc \in {"release", "check", "update"}
         /\ ClaimPods(f).pc = "release" <=> ToRelease(f)
         /\ ClaimPods(f).pc = "check" <=> ~ ToRelease(f) /\ ToAdopt(f)
         /\ ClaimPods(f).pc = "update" <=> ~ ToRelease(f) /\ ~ ToAdopt(f)
<1> DEFINE pc == CASE ToRelease(f) -> "release"
                   [] ToAdopt(f) -> "check"
                   [] OTHER -> "update"
           claimed == Ours(f) /\ f.pod.labelled
<1>1. ClaimPods(f) = [f EXCEPT !.pc = pc, !.claimed = claimed]
  BY DEF ClaimPods
<1>2. ~ (ToRelease(f) /\ ToAdopt(f))
  <2>1. f.view.uid # 0
    BY DEF Sets
  <2> QED
    BY <2>1 DEF ToRelease, ToAdopt, Ours
<1>3. /\ pc \in {"release", "check", "update"}
      /\ pc = "release" <=> ToRelease(f)
      /\ pc = "check" <=> ~ ToRelease(f) /\ ToAdopt(f)
      /\ pc = "update" <=> ~ ToRelease(f) /\ ~ ToAdopt(f)
  BY <1>2
<1>4. claimed \in BOOLEAN
  BY DEF Ours
<1> HIDE DEF pc, claimed
<1>5. [f EXCEPT !.pc = pc, !.claimed = claimed] \in Syncs(m, n)
  <2>1. pc \in {"release", "check"} => f.pod # NoPod
    BY <1>3 DEF ToRelease, ToAdopt, Ours
  <2> QED
    BY <1>3, <1>4, <2>1 DEF Syncs
<1>6. ClaimPods(f).pc = pc /\ ClaimPods(f).claimed = claimed
  BY <1>1
<1>7. ClaimPods(f).view = f.view /\ ClaimPods(f).wasLive = f.wasLive /\ ClaimPods(f).pod = f.pod
  BY <1>1
<1> QED
  BY <1>1, <1>3, <1>5, <1>6, <1>7 DEF claimed

\* The sync keeps the types.
LEMMA TypeWorker ==
  ASSUME TypeOK, Worker
  PROVE  TypeOK'
<1> DEFINE S == Syncs(podUid, setUid)
<1>0. TypeOK /\ setUid \in Nat /\ podUid \in Nat /\ set \in Sets(setUid)
      /\ pod \in Pods(podUid, setUid)
  BY DEF TypeOK
<1>1. CASE Sync
  <2>1. w' \in S \union {Idle}
    <3>1. CASE setCache = NoSet
      BY <1>1, <3>1 DEF Sync
    <3>2. CASE setCache # NoSet
      <4> DEFINE f == [pc |-> "claim", view |-> setCache, pod |-> podCache,
                       claimed |-> FALSE, wasLive |-> Live(setCache.uid)]
      <4>1. f \in [pc : {"claim"}, view : Sets(setUid) \ {NoSet}, pod : Pods(podUid, setUid),
                   claimed : BOOLEAN, wasLive : BOOLEAN]
        BY <3>2 DEF TypeOK, Live
      <4>2. w' = ClaimPods(f)
        BY <1>1, <3>2 DEF Sync
      <4> QED
        BY <1>0, <4>1, <4>2, ClaimStarts
    <3> QED
      BY <3>1, <3>2
  <2> QED
    BY <1>1, <2>1 DEF Sync, TypeOK, api, informers
<1>2. CASE ReleasePod
  <2>1. w # Idle
    BY <1>2 DEF ReleasePod, Idle
  <2>2. w' \in S
    BY <1>0, <1>2, <2>1, SyncFields, SyncSteps DEF ReleasePod
  <2> DEFINE p == IF pod.uid = w.pod.uid /\ pod.owner = w.view.uid
                  THEN [pod EXCEPT !.owner = 0] ELSE pod
  <2>3. p \in Pods(podUid, setUid)
    <3>1. CASE pod = NoPod
      <4>1. pod.owner = 0 /\ w.view.uid # 0
        BY <2>1, <3>1, SyncFields DEF NoPod
      <4> QED
        BY <1>0, <4>1
    <3>2. CASE pod # NoPod
      BY <1>0, <3>2 DEF Pods, NoPod
    <3> QED
      BY <3>1, <3>2
  <2>4. pod' \in Pods(podUid, setUid) /\ podEvents' \in Seq(Events(podUid, setUid))
    <3>1. PodBecomes(p) /\ podUid' = podUid
      BY <1>2 DEF ReleasePod
    <3> QED
      BY <1>0, <2>3, <3>1, PodWrite
  <2> QED
    BY <1>2, <2>2, <2>4 DEF ReleasePod, TypeOK, informers
<1>3. CASE CanAdopt
  <2>1. w # Idle
    BY <1>3 DEF CanAdopt, Idle
  <2>2. w' \in S \union {Idle} /\ queued' \in BOOLEAN
    <3>1. w \in S /\ w.pod # NoPod
      BY <1>0, <1>3, <2>1, SyncFields DEF CanAdopt
    <3>2. [w EXCEPT !.pc = "adopt"] \in S
      BY <1>0, <3>1, SyncSteps
    <3> QED
      BY <1>0, <1>3, <3>2 DEF CanAdopt, Requeue, TypeOK
  <2> QED
    BY <1>3, <2>2 DEF CanAdopt, TypeOK, api, informers
<1>4. CASE AdoptPod
  <2>1. w # Idle /\ w.pc = "adopt"
    BY <1>4 DEF AdoptPod, Idle
  <2>2. w' \in S \union {Idle} /\ queued' \in BOOLEAN
    <3>1. w \in S
      BY <1>0, <2>1, SyncFields
    <3>2. [w EXCEPT !.pc = "update"] \in S /\ [w EXCEPT !.pc = "update", !.claimed = TRUE] \in S
      BY <1>0, <3>1, SyncSteps
    <3> QED
      BY <1>0, <1>4, <3>2 DEF AdoptPod, Requeue, TypeOK
  <2>3. pod' \in Pods(podUid, setUid) /\ podEvents' \in Seq(Events(podUid, setUid))
    <3>1. CASE UNCHANGED <<pod, podEvents>>
      BY <1>0, <3>1 DEF TypeOK
    <3>2. CASE /\ pod.uid = w.pod.uid /\ pod.owner \in {0, w.view.uid}
               /\ PodBecomes([pod EXCEPT !.owner = w.view.uid])
      <4>1. w.pod # NoPod /\ w.pod \in Pods(podUid, setUid) /\ w.view.uid \in 0 .. setUid
        BY <2>1, SyncFields, <1>0
      <4>2. pod # NoPod
        <5>1. w.pod.uid # 0
          BY <4>1 DEF Pods
        <5>2. NoPod.uid = 0
          BY DEF NoPod
        <5> QED
          BY <3>2, <5>1, <5>2
      <4>3. [pod EXCEPT !.owner = w.view.uid] \in Pods(podUid, setUid)
        BY <1>0, <4>1, <4>2 DEF Pods, NoPod
      <4> QED
        BY <1>0, <1>4, <3>2, <4>3, PodWrite DEF AdoptPod
    <3> QED
      BY <1>4, <3>1, <3>2 DEF AdoptPod
  <2> QED
    BY <1>4, <2>2, <2>3 DEF AdoptPod, TypeOK, informers
<1>5. CASE UpdateStatefulSet
  <2>1. w # Idle
    BY <1>5 DEF UpdateStatefulSet, Idle
  <2>2. w \in S /\ w.view.uid \in 0 .. setUid
    BY <1>0, <2>1, SyncFields
  <2>3. CASE UNCHANGED <<pod, podEvents, podUid>>
    <3>1. w' \in S \union {Idle} /\ queued' \in BOOLEAN
      <4>1. Counted(w) \in S \union {Idle}
        BY <1>0, <2>2, SyncSteps
      <4>2. (w' = Counted(w) /\ UNCHANGED queued) \/ Requeue
        BY <1>0, <1>5, <2>3 DEF UpdateStatefulSet
      <4> QED
        BY <1>0, <4>1, <4>2 DEF Requeue, TypeOK
    <3> QED
      BY <1>5, <2>3, <3>1 DEF UpdateStatefulSet, TypeOK, informers
  <2>4. CASE /\ podUid' = podUid + 1
             /\ PodBecomes(NewPod(podUid + 1, w.view.uid))
             /\ w' = Counted([w EXCEPT !.claimed = TRUE])
             /\ UNCHANGED queued
    <3>1. w' \in Syncs(podUid, setUid) \union {Idle}
      BY <1>0, <2>2, <2>4, SyncSteps
    <3>2. NewPod(podUid + 1, w.view.uid) \in Pods(podUid', setUid)
      <4>1. podUid + 1 \in Nat \ {0}
        BY <1>0
      <4> QED
        BY <1>0, <2>2, <2>4, <4>1, NewObjects
    <3>3. podUid' \in Nat /\ podUid <= podUid'
      BY <1>0, <2>4
    <3>4. pod' \in Pods(podUid', setUid) /\ podEvents' \in Seq(Events(podUid', setUid))
      BY <1>0, <2>4, <3>2, <3>3, PodWrite
    <3>5. /\ Pods(podUid, setUid) \subseteq Pods(podUid', setUid)
          /\ Notes(podUid, setUid) \subseteq Notes(podUid', setUid)
          /\ Syncs(podUid, setUid) \subseteq Syncs(podUid', setUid)
      BY <1>0, <3>3, KnownStays
    <3>6. podNotes \in Seq(Notes(podUid', setUid))
      BY <3>5, SeqMonotonic DEF TypeOK
    <3> QED
      BY <1>5, <2>4, <3>1, <3>3, <3>4, <3>5, <3>6
        DEF UpdateStatefulSet, TypeOK, informers
  <2> QED
    BY <1>5, <2>3, <2>4 DEF UpdateStatefulSet
<1>6. CASE WriteStatus
  <2>1. w' = Idle /\ queued' \in BOOLEAN
    BY <1>6 DEF WriteStatus, Requeue, TypeOK
  <2>2. set' \in Sets(setUid) /\ setEvents' \in Seq(Sets(setUid))
    <3>1. CASE UNCHANGED <<set, setEvents>>
      BY <1>0, <3>1 DEF TypeOK
    <3>2. CASE set # NoSet /\ SetBecomes([set EXCEPT !.replicas = IF w.claimed THEN 1 ELSE 0])
      <4>1. [set EXCEPT !.replicas = IF w.claimed THEN 1 ELSE 0] \in Sets(setUid)
        BY <1>0, <3>2 DEF Sets, NoSet
      <4> QED
        BY <1>0, <1>6, <3>2, <4>1, SetWrite DEF WriteStatus
    <3> QED
      BY <1>6, <3>1, <3>2 DEF WriteStatus
  <2> QED
    BY <1>6, <2>1, <2>2 DEF WriteStatus, TypeOK, informers
<1> QED
  BY <1>1, <1>2, <1>3, <1>4, <1>5, <1>6 DEF Worker

\* The cluster, the users and the end of the process keep the types.
LEMMA TypeOthers ==
  ASSUME TypeOK, Cluster \/ Users \/ Restart
  PROVE  TypeOK'
<1>0. /\ setUid \in Nat /\ podUid \in Nat /\ set \in Sets(setUid)
      /\ pod \in Pods(podUid, setUid) /\ MaxOps \in Nat
  BY ControllerAssumption DEF TypeOK
\* Steps that write the pod, or nothing of the API server.
<1>1. ASSUME UNCHANGED <<set, setUid, podUid, setEvents, informers, queued, w, unseen>>,
             ops' \in 0 .. MaxOps,
             NEW p \in Pods(podUid, setUid), PodBecomes(p)
      PROVE  TypeOK'
  <2>1. pod' \in Pods(podUid, setUid) /\ podEvents' \in Seq(Events(podUid, setUid))
    BY <1>0, <1>1, PodWrite
  <2> QED
    BY <1>1, <2>1 DEF TypeOK, informers
\* Steps that write the set.
<1>2. ASSUME UNCHANGED <<pod, podUid, podEvents, informers, queued, w, unseen>>,
             ops' \in 0 .. MaxOps, setUid' \in Nat, setUid <= setUid',
             NEW s \in Sets(setUid'), SetBecomes(s)
      PROVE  TypeOK'
  <2>1. set' \in Sets(setUid') /\ setEvents' \in Seq(Sets(setUid'))
    BY <1>0, <1>2, SetWrite
  <2>2. /\ Sets(setUid) \subseteq Sets(setUid')
        /\ Pods(podUid, setUid) \subseteq Pods(podUid, setUid')
        /\ Events(podUid, setUid) \subseteq Events(podUid, setUid')
        /\ Notes(podUid, setUid) \subseteq Notes(podUid, setUid')
        /\ Syncs(podUid, setUid) \subseteq Syncs(podUid, setUid')
    BY <1>0, <1>2, KnownStays
  <2>3. /\ podNotes \in Seq(Notes(podUid, setUid'))
        /\ podEvents \in Seq(Events(podUid, setUid'))
    BY <2>2, SeqMonotonic DEF TypeOK
  <2> QED
    BY <1>2, <2>1, <2>2, <2>3 DEF TypeOK, informers
<1>3. NoPod \in Pods(podUid, setUid) /\ NoSet \in Sets(setUid)
  BY <1>0, NothingKnown
<1>4. pod # NoPod => /\ [pod EXCEPT !.owner = 0] \in Pods(podUid, setUid)
                     /\ [pod EXCEPT !.terminating = TRUE] \in Pods(podUid, setUid)
                     /\ [pod EXCEPT !.labelled = ~ @] \in Pods(podUid, setUid)
  BY <1>0, PodUpdates
<1>5. ops \in 0 .. MaxOps /\ (ops < MaxOps => ops + 1 \in 0 .. MaxOps)
  BY <1>0 DEF TypeOK
<1>6. CASE Kubelet
  BY <1>1, <1>3, <1>5, <1>6 DEF Kubelet
<1>7. CASE CollectPod
  <2>1. pod # NoPod
    BY <1>7 DEF CollectPod, NoPod
  <2> QED
    BY <1>1, <1>4, <1>5, <1>7, <2>1 DEF CollectPod
<1>8. CASE FinalizeSet
  BY <1>0, <1>2, <1>3, <1>5, <1>8 DEF FinalizeSet
<1>9. CASE CreateSet
  <2>1. NewSet(setUid + 1) \in Sets(setUid + 1)
    <3>1. setUid + 1 \in Nat \ {0}
      BY <1>0
    <3> QED
      BY <3>1, <1>0, NewObjects
  <2> QED
    BY <1>0, <1>2, <1>5, <1>9, <2>1 DEF CreateSet, User
<1>10. CASE DeleteSet
  <2>1. PICK s \in {NoSet} \union {[set EXCEPT !.deleting = TRUE, !.finalizer = f]
                                  : f \in {"orphan", "foreground"}} : SetBecomes(s)
    BY <1>10 DEF DeleteSet
  <2>2. set # NoSet
    BY <1>10 DEF DeleteSet
  <2>3. s \in Sets(setUid)
    <3>1. NoSet \in Sets(setUid)
      BY <1>0 DEF Sets, NoSet
    <3>2. \A f \in {"orphan", "foreground"} :
            [set EXCEPT !.deleting = TRUE, !.finalizer = f] \in Sets(setUid)
      BY <1>0, <2>2 DEF Sets
    <3> QED
      BY <2>1, <3>1, <3>2
  <2> QED
    BY <1>0, <1>2, <1>5, <1>10, <2>1, <2>3 DEF DeleteSet, User
<1>11. CASE DeletePod
  BY <1>1, <1>4, <1>5, <1>11 DEF DeletePod, User
<1>12. CASE RelabelPod
  BY <1>1, <1>4, <1>5, <1>12 DEF RelabelPod, User
<1>13. CASE Restart
  <2>1. \A S : <<>> \in Seq(S)
    BY EmptySeq
  <2>2. /\ setEvents' \in Seq(Sets(setUid)) /\ podEvents' \in Seq(Events(podUid, setUid))
        /\ podNotes' \in Seq(Notes(podUid, setUid))
    BY <1>13, <2>1 DEF Restart, Started
  <2>3. synced' \in SUBSET {"sets", "pods"} /\ w' \in Syncs(podUid, setUid) \union {Idle}
    BY <1>13 DEF Restart, Started
  <2>4. queued' \in BOOLEAN /\ unseen' \in BOOLEAN
    BY <1>13 DEF Restart, Started
  <2>5. setCache' \in Sets(setUid) /\ podCache' \in Pods(podUid, setUid)
    BY <1>3, <1>13 DEF Restart, Started
  <2> QED
    BY <1>5, <1>13, <2>2, <2>3, <2>4, <2>5 DEF Restart, TypeOK
<1> QED
  BY <1>6, <1>7, <1>8, <1>9, <1>10, <1>11, <1>12, <1>13 DEF Cluster, Users

\* Every step keeps the types.
LEMMA TypeNext ==
  ASSUME TypeOK, [Next]_vars
  PROVE  TypeOK'
<1>1. CASE UNCHANGED vars
  BY <1>1 DEF vars, TypeOK
<1> QED
  BY <1>1, TypeWorker, TypeInformers, TypeOthers DEF Next

\* TypeOK is an invariant of StatefulSetController.
THEOREM TypeCorrect == Spec => []TypeOK
<1>1. TypeOK /\ [Next]_vars => TypeOK'
  BY TypeNext
<1> QED
  BY TypeInit, <1>1, PTL DEF Spec

-----------------------------------------------------------------------------
(* Adoption. *)

\* UIDs are not reused and a deletion is not taken back, so the set a sync
\* works for was live when the sync began if it is live now.
LiveSinceSync == w # Idle /\ Live(w.view.uid) => w.wasLive

\* canAdoptFunc has seen that set live, some time after the sync began.
AdoptsForLive == w # Idle /\ w.pc = "adopt" => w.wasLive

\* A sync that goes on works for the same set.
LEMMA SyncGoesOn ==
  ASSUME TypeOK, w # Idle,
         NEW f \in {[w EXCEPT !.pc = "update"], [w EXCEPT !.pc = "update", !.claimed = TRUE],
                   [w EXCEPT !.pc = "status"], [w EXCEPT !.claimed = TRUE, !.pc = "status"]}
  PROVE  f.view = w.view /\ f.wasLive = w.wasLive /\ f.pc # "adopt"
<1>1. w \in Syncs(podUid, setUid)
  BY SyncFields
<1>2. CASE f = [w EXCEPT !.pc = "update"]
  BY <1>1, <1>2 DEF Syncs
<1>3. CASE f = [w EXCEPT !.pc = "update", !.claimed = TRUE]
  BY <1>1, <1>3 DEF Syncs
<1>4. CASE f = [w EXCEPT !.pc = "status"]
  BY <1>1, <1>4 DEF Syncs
<1>5. CASE f = [w EXCEPT !.claimed = TRUE, !.pc = "status"]
  BY <1>1, <1>5 DEF Syncs
<1> QED
  BY <1>2, <1>3, <1>4, <1>5

AdoptionInv == TypeOK /\ LiveSinceSync /\ AdoptsForLive

\* Every step keeps AdoptionInv: only CanAdopt, with its fresh read of the set,
\* leads to an adoption.
LEMMA AdoptionNext ==
  ASSUME AdoptionInv, [Next]_vars
  PROVE  AdoptionInv'
<1>1. TypeOK /\ TypeOK' /\ LiveSinceSync /\ AdoptsForLive
  BY TypeNext DEF AdoptionInv
\* A sync that goes on works for the same set.
<1>2. ASSUME UNCHANGED <<set, setEvents>>, w # Idle,
             w'.view = w.view, w'.wasLive = w.wasLive,
             w'.pc = "adopt" => Live(w.view.uid)
      PROVE  AdoptionInv'
  BY <1>1, <1>2 DEF AdoptionInv, LiveSinceSync, AdoptsForLive, Live
<1>3. CASE w' = Idle
  BY <1>1, <1>3 DEF AdoptionInv, LiveSinceSync, AdoptsForLive
<1>4. ASSUME UNCHANGED w,
             w # Idle /\ Live(w.view.uid)' => Live(w.view.uid)
      PROVE  AdoptionInv'
  BY <1>1, <1>4 DEF AdoptionInv, LiveSinceSync, AdoptsForLive
<1>5. CASE UNCHANGED <<set, w>>
  BY <1>4, <1>5 DEF Live
<1>6. CASE Worker
  <2>1. CASE Sync /\ setCache # NoSet
    <3> DEFINE f == [pc |-> "claim", view |-> setCache, pod |-> podCache,
                     claimed |-> FALSE, wasLive |-> Live(setCache.uid)]
    <3>1. f \in [pc : {"claim"}, view : Sets(setUid) \ {NoSet}, pod : Pods(podUid, setUid),
                 claimed : BOOLEAN, wasLive : BOOLEAN]
      BY <1>1, <2>1 DEF TypeOK, Live
    <3>2. w' = ClaimPods(f)
      BY <2>1 DEF Sync
    <3>3. /\ w'.view = setCache /\ w'.wasLive = Live(setCache.uid)
          /\ w'.pc # "adopt"
      <4>1. f.view = setCache /\ f.wasLive = Live(setCache.uid)
        OBVIOUS
      <4> HIDE DEF f
      <4>2. setUid \in Nat /\ podUid \in Nat
        BY <1>1 DEF TypeOK
      <4>3. ClaimPods(f).view = f.view
        BY <3>1, <4>2, ClaimStarts
      <4>4. ClaimPods(f).wasLive = f.wasLive
        BY <3>1, <4>2, ClaimStarts
      <4>5. ClaimPods(f).pc # "adopt"
        BY <3>1, <4>2, ClaimStarts
      <4> QED
        BY <3>2, <4>1, <4>3, <4>4, <4>5
    <3> QED
      BY <1>1, <2>1, <3>3 DEF Sync, AdoptionInv, LiveSinceSync, AdoptsForLive, Live, api
  <2>2. CASE Sync /\ setCache = NoSet
    BY <1>3, <2>2 DEF Sync
  <2>3. CASE ReleasePod
    BY <1>1, <1>2, <2>3, SyncFields DEF ReleasePod, Idle, Syncs
  <2>4. CASE CanAdopt
    BY <1>1, <1>2, <1>3, <2>4, SyncFields DEF CanAdopt, Requeue, Idle, Syncs, api
  <2>5. CASE AdoptPod
    <3>1. w # Idle /\ UNCHANGED <<set, setEvents>>
      BY <2>5 DEF AdoptPod, Idle
    <3>2. w' \in {Idle, [w EXCEPT !.pc = "update"], [w EXCEPT !.pc = "update", !.claimed = TRUE]}
      BY <2>5 DEF AdoptPod, Requeue
    <3> QED
      BY <1>1, <1>2, <1>3, <3>1, <3>2, SyncGoesOn
  <2>6. CASE UpdateStatefulSet
    <3>1. w # Idle /\ UNCHANGED <<set, setEvents>>
      BY <2>6 DEF UpdateStatefulSet, Idle
    <3>2. w' \in {Idle, Counted(w), Counted([w EXCEPT !.claimed = TRUE])}
      BY <2>6 DEF UpdateStatefulSet, Requeue
    <3>3. /\ Counted(w) \in {Idle, [w EXCEPT !.pc = "status"]}
          /\ Counted([w EXCEPT !.claimed = TRUE])
               \in {Idle, [w EXCEPT !.claimed = TRUE, !.pc = "status"]}
      BY DEF Counted
    <3> QED
      BY <1>1, <1>2, <1>3, <3>1, <3>2, <3>3, SyncGoesOn
  <2>7. CASE WriteStatus
    BY <1>3, <2>7 DEF WriteStatus, Requeue
  <2> QED
    BY <1>6, <2>1, <2>2, <2>3, <2>4, <2>5, <2>6, <2>7 DEF Worker
<1>7. CASE HandlePod \/ PodEvent \/ SetEvent \/ ListPods \/ ListSets \/ Kubelet \/ CollectPod
           \/ DeletePod \/ RelabelPod \/ UNCHANGED vars
  BY <1>5, <1>7 DEF HandlePod, PodEvent, SetEvent, ListPods, ListSets, Kubelet, CollectPod,
                    DeletePod, RelabelPod, User, vars, api
<1>8. CASE Restart
  BY <1>3, <1>8 DEF Restart, Started
\* The set is deleted, gone, or another one.
<1>9. CASE FinalizeSet \/ DeleteSet \/ CreateSet
  <2>1. UNCHANGED w
    BY <1>9 DEF FinalizeSet, DeleteSet, CreateSet, User
  <2>2. ASSUME w # Idle
        PROVE  ~ Live(w.view.uid)'
    <3>1. w.view.uid \in 1 .. setUid /\ setUid \in Nat
      BY <1>1, <2>2, SyncFields DEF TypeOK
    <3>2. CASE set' = NoSet
      BY <2>1, <3>1, <3>2 DEF Live, NoSet
    <3>3. CASE CreateSet
      <4>1. set' = NewSet(setUid + 1) /\ setUid + 1 \in Nat \ {0}
        BY <3>1, <3>3 DEF CreateSet, SetBecomes
      <4>2. set'.uid = setUid + 1
        BY <4>1, NewObjects
      <4> QED
        BY <2>1, <3>1, <4>2 DEF Live
    <3>4. CASE \E f \in {"orphan", "foreground"} :
                 set' = [set EXCEPT !.deleting = TRUE, !.finalizer = f]
      <4>1. set'.deleting
        BY <1>1, <3>4 DEF TypeOK, Sets
      <4> QED
        BY <4>1 DEF Live
    <3> QED
      BY <1>9, <3>2, <3>3, <3>4 DEF FinalizeSet, DeleteSet, SetBecomes
  <2> QED
    BY <1>4, <2>1, <2>2
<1> QED
  BY <1>6, <1>7, <1>8, <1>9 DEF Next, Cluster, Users

\* Whatever users, lost watches and restarts do, and however old the caches
\* are, a pod is adopted only by a set that was live when the sync began.
THEOREM AdoptionIsFresh == Spec => AdoptionFresh
<1>1. Init => AdoptionInv
  BY TypeInit DEF Init, AdoptionInv, LiveSinceSync, AdoptsForLive
<1>2. AdoptionInv /\ [Next]_vars => AdoptionInv'
  BY AdoptionNext
<1>3. AdoptionInv /\ [Next]_vars => [AdoptPod /\ pod'.owner # pod.owner => w.wasLive]_vars
  BY DEF AdoptionInv, AdoptsForLive, AdoptPod, Idle
<1> QED
  BY <1>1, <1>2, <1>3, PTL DEF Spec, AdoptionFresh

-----------------------------------------------------------------------------
(* No wake-up is lost. *)

\* The pod an event leads to, and the one it starts from.
After(e) == IF e.gone THEN NoPod ELSE e.pod
Before(i) == IF i = 1 THEN podCache ELSE After(podEvents[i - 1])

\* The stream leads from the cached pod to the pod, in steps that change it; a
\* deletion is told with the state that came before it.
PodStream ==
  IF "pods" \notin synced THEN podEvents = <<>>
  ELSE /\ \A i \in DOMAIN podEvents :
            IF podEvents[i].gone THEN podEvents[i].pod = Before(i) /\ Before(i) # NoPod
            ELSE podEvents[i].pod # Before(i)
       /\ pod = IF podEvents = <<>> THEN podCache ELSE After(podEvents[Len(podEvents)])

\* The stream of sets ends with the set.
SetStream ==
  IF "sets" \notin synced THEN setEvents = <<>>
  ELSE set = IF setEvents = <<>> THEN setCache ELSE setEvents[Len(setEvents)]

\* A deletion is not taken back, whoever knows of it, and the finalizers are
\* those of a deletion.
KnownDeletion(s) == s.uid = set.uid /\ s.deleting => set.deleting
Deletions ==
  /\ set.finalizer # "none" => set.deleting
  /\ KnownDeletion(setCache)
  /\ \A i \in DOMAIN setEvents : KnownDeletion(setEvents[i])
  /\ w # Idle => KnownDeletion(w.view)

\* What a sync has claimed at each of its steps.
SyncState ==
  w # Idle =>
    /\ synced = {"sets", "pods"}
    /\ w.pc \in {"release", "check", "adopt"} => ~ w.claimed
    /\ w.pc \in {"check", "adopt"} => w.pod.owner = 0
    /\ w.pc = "status" /\ ~ w.claimed => w.view.deleting

\* A notification that will wake up the set of that UID.
Wakes(n, uid) ==
  \/ n.kind = "add" /\ n.cur.owner = uid
  \/ n.kind = "update" /\ n.old # n.cur /\ uid \in {n.old.owner, n.cur.owner}
  \/ n.kind \in {"delete", "tombstone"} /\ n.old.owner = uid

\* The set will be, or is to be, synced once more.
Told == queued \/ setEvents # <<>>
Waking == Told \/ \E i \in DOMAIN podNotes : Wakes(podNotes[i], set.uid)

Stays == set # NoSet /\ ~ set.deleting

\* A sync for another set of the name is not the last one.
StaleSync == w # Idle /\ Stays /\ w.view.uid # set.uid => Told

\* Nor is a sync that began before the cache showed the set as the pod's owner.
LateOwner ==
  w # Idle /\ Stays /\ w.view.uid = set.uid /\ w.pod.owner # set.uid
    /\ podCache.owner = set.uid => Waking

\* The cached pod is the set's, or the set's pod, or its end, is on its way.
Settled ==
  \/ podCache.uid # 0 /\ podCache.owner = set.uid /\ podCache.labelled
  \/ /\ pod.owner = set.uid
     /\ podCache.uid # pod.uid \/ podCache.owner # set.uid
  \/ /\ pod = NoPod /\ podEvents # <<>>
     /\ podEvents[Len(podEvents)].pod.owner = set.uid

\* A sync is under way that has yet to come to own the pod.
Claims == w # Idle /\ w.view.uid = set.uid /\ ~ w.claimed

\* Unless a lost watch has hidden what happened, one of these is so.
Awake ==
  Stays /\ "sets" \in synced /\ ~ unseen =>
    Waking \/ Claims \/ ("pods" \in synced /\ Settled)

\* The inductive invariant.
WakeInv ==
  /\ TypeOK /\ PodStream /\ SetStream /\ Deletions /\ SyncState
  /\ StaleSync /\ LateOwner /\ Awake

\* What is appended to a sequence, and what is left without its head.
LEMMA SeqSteps ==
  ASSUME NEW S, NEW s \in Seq(S), NEW e \in S
  PROVE  /\ Append(s, e) # <<>> /\ Len(Append(s, e)) = Len(s) + 1
         /\ DOMAIN Append(s, e) = 1 .. Len(s) + 1
         /\ Append(s, e)[Len(s) + 1] = e
         /\ \A i \in DOMAIN s : i \in DOMAIN Append(s, e) /\ Append(s, e)[i] = s[i]
         /\ s # <<>> => /\ Len(s) \in Nat \ {0} /\ Head(s) = s[1] /\ Head(s) \in S
                        /\ Len(s) \in DOMAIN s /\ 1 \in DOMAIN s
                        /\ DOMAIN s = 1 .. Len(s)
                        /\ Tail(s) \in Seq(S) /\ Len(Tail(s)) = Len(s) - 1
                        /\ Tail(s) = <<>> <=> Len(s) = 1
                        /\ \A i \in DOMAIN Tail(s) : i + 1 \in DOMAIN s /\ Tail(s)[i] = s[i + 1]
                        /\ Tail(s) # <<>> => Tail(s)[Len(Tail(s))] = s[Len(s)]
<1>1. /\ Append(s, e) # <<>> /\ Len(Append(s, e)) = Len(s) + 1
      /\ DOMAIN Append(s, e) = 1 .. Len(s) + 1
      /\ Append(s, e)[Len(s) + 1] = e
      /\ \A i \in DOMAIN s : i \in DOMAIN Append(s, e) /\ Append(s, e)[i] = s[i]
  BY AppendProperties, LenProperties
<1>2. ASSUME s # <<>>
      PROVE  /\ Len(s) \in Nat \ {0} /\ Head(s) = s[1] /\ Head(s) \in S
             /\ Len(s) \in DOMAIN s /\ 1 \in DOMAIN s
             /\ DOMAIN s = 1 .. Len(s)
             /\ Tail(s) \in Seq(S) /\ Len(Tail(s)) = Len(s) - 1
             /\ Tail(s) = <<>> <=> Len(s) = 1
             /\ \A i \in DOMAIN Tail(s) : i + 1 \in DOMAIN s /\ Tail(s)[i] = s[i + 1]
             /\ Tail(s) # <<>> => Tail(s)[Len(Tail(s))] = s[Len(s)]
  <2>1. Len(s) \in Nat \ {0} /\ DOMAIN s = 1 .. Len(s)
    BY <1>2, EmptySeq, LenProperties
  <2>2. /\ Head(s) = s[1] /\ Head(s) \in S
        /\ Tail(s) \in Seq(S) /\ Len(Tail(s)) = Len(s) - 1
        /\ \A i \in 1 .. Len(Tail(s)) : Tail(s)[i] = s[i + 1]
    BY <1>2, HeadTailProperties
  <2>3. DOMAIN Tail(s) = 1 .. Len(Tail(s))
    BY <2>2, LenProperties
  <2>4. Tail(s) = <<>> <=> Len(s) = 1
    <3>1. Tail(s) = <<>> <=> Len(Tail(s)) = 0
      BY <2>2, EmptySeq
    <3> QED
      BY <2>1, <2>2, <3>1
  <2> QED
    BY <2>1, <2>2, <2>3, <2>4
<1> QED
  BY <1>1, <1>2

\* A write of the pod continues the stream, and a deletion ends it with the
\* pod's last state.
LEMMA PodStreamWrite ==
  ASSUME TypeOK, PodStream, podUid' \in Nat, podUid <= podUid',
         NEW p \in Pods(podUid', setUid), PodBecomes(p), UNCHANGED <<synced, podCache>>
  PROVE  /\ PodStream'
         /\ "pods" \in synced /\ p = NoPod /\ pod # NoPod
              => podEvents' # <<>> /\ podEvents'[Len(podEvents')].pod = pod
         /\ p # pod /\ "pods" \in synced => podEvents' # <<>>
<1>1. CASE p = pod \/ "pods" \notin synced
  BY <1>1 DEF PodBecomes, PodStream, Before, After
<1>2. CASE p # pod /\ "pods" \in synced
  <2> DEFINE E == Events(podUid', setUid)
             e == IF p = NoPod THEN [pod |-> pod, gone |-> TRUE]
                  ELSE [pod |-> p, gone |-> FALSE]
  <2>1. podEvents \in Seq(E) /\ pod \in Pods(podUid', setUid)
    BY KnownStays, SeqMonotonic DEF TypeOK
  <2>0. PICK n \in Nat : n = Len(podEvents)
    BY <2>1, LenProperties
  <2>2. e \in E /\ After(e) = p /\ e.gone = (p = NoPod)
    BY <2>1 DEF Events, After
  <2>3. e.pod = IF p = NoPod THEN pod ELSE p
    OBVIOUS
  <2>4. podEvents' = Append(podEvents, e) /\ pod' = p
    BY <1>2, <2>1 DEF PodBecomes
  <2> HIDE DEF e, E
  <2>5. /\ podEvents' # <<>> /\ Len(podEvents') = n + 1
        /\ DOMAIN podEvents' = 1 .. n + 1
        /\ podEvents'[n + 1] = e
        /\ \A i \in DOMAIN podEvents : podEvents'[i] = podEvents[i]
        /\ DOMAIN podEvents = 1 .. n
    BY <2>0, <2>1, <2>2, <2>4, SeqSteps, LenProperties
  <2>6. podEvents = <<>> <=> n = 0
    BY <2>0, <2>1, EmptySeq
  <2>7. Before(n + 1)' = pod
    BY <1>2, <2>0, <2>4, <2>5, <2>6 DEF PodStream, Before, After
  <2>8. \A i \in 1 .. n : Before(i)' = Before(i)
    <3> TAKE i \in 1 .. n
    <3>1. i = 1 \/ i - 1 \in DOMAIN podEvents
      BY <2>0, <2>4, <2>5
    <3> QED
      BY <2>5, <3>1 DEF Before, After
  <2>9. \A i \in DOMAIN podEvents' :
          IF podEvents'[i].gone THEN podEvents'[i].pod = Before(i)' /\ Before(i)' # NoPod
          ELSE podEvents'[i].pod # Before(i)'
    <3> TAKE i \in DOMAIN podEvents'
    <3>1. CASE i \in 1 .. n
      <4>1. podEvents'[i] = podEvents[i] /\ Before(i)' = Before(i)
        BY <2>5, <2>8, <3>1
      <4> QED
        BY <1>2, <2>5, <3>1, <4>1 DEF PodStream
    <3>2. CASE i = n + 1
      BY <1>2, <2>2, <2>3, <2>5, <2>7, <3>2
    <3> QED
      BY <2>0, <2>5, <3>1, <3>2
  <2>10. PodStream'
    <3>1. pod' = After(podEvents'[Len(podEvents')])
      BY <2>0, <2>2, <2>4, <2>5
    <3> QED
      BY <1>2, <2>5, <2>9, <3>1 DEF PodStream, Before, After
  <2> QED
    BY <1>2, <2>0, <2>3, <2>5, <2>10
<1> QED
  BY <1>1, <1>2

\* A write of the set continues the stream.
LEMMA SetStreamWrite ==
  ASSUME TypeOK, SetStream, setUid' \in Nat, setUid <= setUid',
         NEW s \in Sets(setUid'), SetBecomes(s), UNCHANGED <<synced, setCache>>
  PROVE  /\ SetStream'
         /\ s # set /\ "sets" \in synced => setEvents' # <<>>
         /\ setEvents # <<>> => setEvents' # <<>>
         /\ \A i \in DOMAIN setEvents' :
              setEvents'[i] = s \/ \E j \in DOMAIN setEvents : setEvents'[i] = setEvents[j]
<1>1. CASE s = set \/ "sets" \notin synced
  BY <1>1 DEF SetBecomes, SetStream
<1>2. CASE s # set /\ "sets" \in synced
  <2>1. setEvents \in Seq(Sets(setUid'))
    BY KnownStays, SeqMonotonic DEF TypeOK
  <2>2. setEvents' = Append(setEvents, s) /\ set' = s
    BY <1>2 DEF SetBecomes
  <2>3. PICK n \in Nat : n = Len(setEvents)
    BY <2>1, LenProperties
  <2>4. /\ setEvents' # <<>> /\ Len(setEvents') = n + 1
        /\ DOMAIN setEvents' = 1 .. n + 1 /\ DOMAIN setEvents = 1 .. n
        /\ setEvents'[n + 1] = s
        /\ \A i \in DOMAIN setEvents : setEvents'[i] = setEvents[i]
    BY <2>1, <2>2, <2>3, SeqSteps, LenProperties
  <2>5. SetStream'
    BY <1>2, <2>2, <2>4 DEF SetStream
  <2>6. \A i \in DOMAIN setEvents' :
          setEvents'[i] = s \/ \E j \in DOMAIN setEvents : setEvents'[i] = setEvents[j]
    <3> TAKE i \in DOMAIN setEvents'
    <3>1. i \in 1 .. n \/ i = n + 1
      BY <2>4
    <3> QED
      BY <2>4, <3>1
  <2> QED
    BY <2>4, <2>5, <2>6
<1> QED
  BY <1>1, <1>2

\* How a step can touch the pod and what is known of it.
LEMMA PodKinds ==
  ASSUME [Next]_vars
  PROVE  \/ UNCHANGED <<pod, podEvents, podCache>>
              /\ ("pods" \in synced' <=> "pods" \in synced)
         \/ UNCHANGED <<podCache, synced, setUid>> /\ \E p : PodBecomes(p)
         \/ PodEvent \/ ListPods \/ Restart
<1>1. CASE Worker
  <2>1. CASE Sync
    BY <2>1 DEF Sync, api, informers
  <2>2. CASE ReleasePod
    BY <2>2 DEF ReleasePod, informers
  <2>3. CASE CanAdopt
    BY <2>3 DEF CanAdopt, api, informers
  <2>4. CASE AdoptPod
    BY <2>4 DEF AdoptPod, informers
  <2>5. CASE UpdateStatefulSet
    BY <2>5 DEF UpdateStatefulSet, informers
  <2>6. CASE WriteStatus
    BY <2>6 DEF WriteStatus, informers
  <2> QED
    BY <1>1, <2>1, <2>2, <2>3, <2>4, <2>5, <2>6 DEF Worker
<1>2. CASE Cluster \/ Users
  <2>1. CASE Kubelet \/ CollectPod
    BY <2>1 DEF Kubelet, CollectPod, informers
  <2>2. CASE DeletePod \/ RelabelPod
    BY <2>2 DEF DeletePod, RelabelPod, User, informers
  <2>3. CASE FinalizeSet
    BY <2>3 DEF FinalizeSet, informers
  <2>4. CASE CreateSet \/ DeleteSet
    BY <2>4 DEF CreateSet, DeleteSet, User, informers
  <2> QED
    BY <1>2, <2>1, <2>2, <2>3, <2>4 DEF Cluster, Users
<1>3. CASE HandlePod \/ SetEvent \/ ListSets \/ UNCHANGED vars
  <2>1. CASE HandlePod
    BY <2>1 DEF HandlePod, api
  <2>2. CASE SetEvent
    BY <2>2 DEF SetEvent
  <2>3. CASE ListSets
    BY <2>3 DEF ListSets
  <2>4. CASE UNCHANGED vars
    BY <2>4 DEF vars
  <2> QED
    BY <1>3, <2>1, <2>2, <2>3, <2>4
<1> QED
  BY <1>1, <1>2, <1>3 DEF Next

\* How a step can touch the set and what is known of it.
LEMMA SetKinds ==
  ASSUME [Next]_vars
  PROVE  \/ UNCHANGED <<set, setEvents, setCache>>
              /\ ("sets" \in synced' <=> "sets" \in synced)
         \/ UNCHANGED <<setCache, synced>> /\ \E s : SetBecomes(s)
         \/ SetEvent \/ ListSets \/ Restart
<1>1. CASE Worker
  <2>1. CASE Sync
    BY <2>1 DEF Sync, api, informers
  <2>2. CASE ReleasePod
    BY <2>2 DEF ReleasePod, informers
  <2>3. CASE CanAdopt
    BY <2>3 DEF CanAdopt, api, informers
  <2>4. CASE AdoptPod
    BY <2>4 DEF AdoptPod, informers
  <2>5. CASE UpdateStatefulSet
    BY <2>5 DEF UpdateStatefulSet, informers
  <2>6. CASE WriteStatus
    BY <2>6 DEF WriteStatus, informers
  <2> QED
    BY <1>1, <2>1, <2>2, <2>3, <2>4, <2>5, <2>6 DEF Worker
<1>2. CASE Cluster \/ Users
  <2>1. CASE Kubelet \/ CollectPod
    BY <2>1 DEF Kubelet, CollectPod, informers
  <2>2. CASE DeletePod \/ RelabelPod
    BY <2>2 DEF DeletePod, RelabelPod, User, informers
  <2>3. CASE FinalizeSet
    BY <2>3 DEF FinalizeSet, informers
  <2>4. CASE CreateSet \/ DeleteSet
    BY <2>4 DEF CreateSet, DeleteSet, User, informers
  <2> QED
    BY <1>2, <2>1, <2>2, <2>3, <2>4 DEF Cluster, Users
<1>3. CASE HandlePod \/ PodEvent \/ ListPods \/ UNCHANGED vars
  <2>1. CASE HandlePod
    BY <2>1 DEF HandlePod, api
  <2>2. CASE PodEvent
    BY <2>2 DEF PodEvent
  <2>3. CASE ListPods
    BY <2>3 DEF ListPods
  <2>4. CASE UNCHANGED vars
    BY <2>4 DEF vars
  <2> QED
    BY <1>3, <2>1, <2>2, <2>3, <2>4
<1> QED
  BY <1>1, <1>2, <1>3 DEF Next

\* UIDs only grow.
LEMMA UidsGrow ==
  ASSUME TypeOK, [Next]_vars
  PROVE  podUid <= podUid' /\ setUid <= setUid'
<1>0. podUid \in Nat /\ setUid \in Nat
  BY DEF TypeOK
<1>1. CASE Worker
  <2>1. CASE Sync
    BY <1>0, <2>1 DEF Sync, api
  <2>2. CASE ReleasePod
    BY <1>0, <2>2 DEF ReleasePod
  <2>3. CASE CanAdopt
    BY <1>0, <2>3 DEF CanAdopt, api
  <2>4. CASE AdoptPod
    BY <1>0, <2>4 DEF AdoptPod
  <2>5. CASE UpdateStatefulSet
    BY <1>0, <2>5 DEF UpdateStatefulSet
  <2>6. CASE WriteStatus
    BY <1>0, <2>6 DEF WriteStatus
  <2> QED
    BY <1>1, <2>1, <2>2, <2>3, <2>4, <2>5, <2>6 DEF Worker
<1>2. CASE Cluster \/ Users
  <2>1. CASE Kubelet \/ CollectPod
    BY <1>0, <2>1 DEF Kubelet, CollectPod
  <2>2. CASE DeletePod \/ RelabelPod
    BY <1>0, <2>2 DEF DeletePod, RelabelPod
  <2>3. CASE FinalizeSet
    BY <1>0, <2>3 DEF FinalizeSet
  <2>4. CASE CreateSet \/ DeleteSet
    BY <1>0, <2>4 DEF CreateSet, DeleteSet
  <2> QED
    BY <1>2, <2>1, <2>2, <2>3, <2>4 DEF Cluster, Users
<1>3. CASE HandlePod \/ SetEvent \/ ListSets \/ PodEvent \/ ListPods \/ Restart
           \/ UNCHANGED vars
  <2>1. CASE HandlePod
    BY <1>0, <2>1 DEF HandlePod, api
  <2>2. CASE SetEvent \/ ListSets
    BY <1>0, <2>2 DEF SetEvent, ListSets
  <2>3. CASE PodEvent \/ ListPods
    <3>1. UNCHANGED <<setUid, podUid>>
      BY <2>3 DEF PodEvent, ListPods
    <3> QED
      BY <1>0, <3>1
  <2>4. CASE Restart
    BY <1>0, <2>4 DEF Restart
  <2>5. CASE UNCHANGED vars
    BY <1>0, <2>5 DEF vars
  <2> QED
    BY <1>3, <2>1, <2>2, <2>3, <2>4, <2>5
<1> QED
  BY <1>1, <1>2, <1>3 DEF Next

\* Every step keeps the stream of pods.
LEMMA PodStreamNext ==
  ASSUME TypeOK, TypeOK', PodStream, [Next]_vars
  PROVE  PodStream'
<1>1. CASE /\ UNCHANGED <<pod, podEvents, podCache>>
           /\ "pods" \in synced' <=> "pods" \in synced
  BY <1>1 DEF PodStream, Before, After
<1>2. ASSUME UNCHANGED <<podCache, synced, setUid>>, NEW p, PodBecomes(p)
      PROVE  PodStream'
  <2>1. p = pod' /\ pod' \in Pods(podUid', setUid) /\ podUid' \in Nat /\ podUid <= podUid'
    BY <1>2, UidsGrow DEF TypeOK, PodBecomes
  <2> QED
    BY <1>2, <2>1, PodStreamWrite
<1>3. CASE PodEvent
  <2>1. /\ podEvents # <<>> /\ podEvents' = Tail(podEvents)
        /\ podCache' = After(Head(podEvents)) /\ UNCHANGED <<pod, synced>>
    BY <1>3 DEF PodEvent, After
  <2>2. podEvents \in Seq(Events(podUid, setUid)) /\ "pods" \in synced
    BY <2>1 DEF TypeOK, PodStream
  <2>3. Head(podEvents) \in Events(podUid, setUid)
    BY <2>1, <2>2, HeadTailProperties
  <2>4. PICK n \in Nat \ {0} : n = Len(podEvents)
    BY <2>1, <2>2, <2>3, SeqSteps
  <2>5. /\ Head(podEvents) = podEvents[1] /\ DOMAIN podEvents = 1 .. n
        /\ podEvents' \in Seq(Events(podUid, setUid)) /\ Len(podEvents') = n - 1
        /\ podEvents' = <<>> <=> n = 1
        /\ \A i \in DOMAIN podEvents' :
             i + 1 \in DOMAIN podEvents /\ podEvents'[i] = podEvents[i + 1]
        /\ podEvents' # <<>> => podEvents'[Len(podEvents')] = podEvents[Len(podEvents)]
    BY <2>1, <2>2, <2>3, <2>4, SeqSteps
  <2>6. DOMAIN podEvents' = 1 .. n - 1
    BY <2>5, LenProperties
  <2>7. \A i \in 1 .. n - 1 : Before(i)' = Before(i + 1)
    <3> TAKE i \in 1 .. n - 1
    <3>1. CASE i = 1
      BY <2>1, <2>5, <3>1 DEF Before, After
    <3>2. CASE i # 1
      <4>1. i - 1 \in DOMAIN podEvents' /\ (i - 1) + 1 = i /\ (i + 1) - 1 = i /\ i + 1 # 1
        BY <2>4, <2>6, <3>2
      <4>2. podEvents'[i - 1] = podEvents[i]
        BY <2>5, <4>1
      <4> QED
        BY <3>2, <4>1, <4>2 DEF Before, After
    <3> QED
      BY <3>1, <3>2
  <2>8. \A i \in DOMAIN podEvents' :
          IF podEvents'[i].gone THEN podEvents'[i].pod = Before(i)' /\ Before(i)' # NoPod
          ELSE podEvents'[i].pod # Before(i)'
    <3> TAKE i \in DOMAIN podEvents'
    <3>1. podEvents'[i] = podEvents[i + 1] /\ i + 1 \in DOMAIN podEvents
      BY <2>5
    <3>2. Before(i)' = Before(i + 1)
      BY <2>6, <2>7
    <3> QED
      BY <2>2, <3>1, <3>2 DEF PodStream
  <2>9. pod' = IF podEvents' = <<>> THEN podCache' ELSE After(podEvents'[Len(podEvents')])
    BY <2>1, <2>2, <2>4, <2>5 DEF PodStream
  <2> QED
    BY <2>1, <2>2, <2>8, <2>9 DEF PodStream, Before, After
<1>4. CASE ListPods
  <2>1. podEvents' = <<>> /\ podCache' = pod /\ pod' = pod /\ "pods" \in synced'
    BY <1>4 DEF ListPods
  <2>2. DOMAIN podEvents' = {}
    BY <2>1
  <2> QED
    BY <2>1, <2>2 DEF PodStream, Before, After
<1>5. CASE Restart
  BY <1>5 DEF Restart, Started, PodStream
<1> QED
  BY <1>1, <1>2, <1>3, <1>4, <1>5, PodKinds

\* Every step keeps the stream of sets.
LEMMA SetStreamNext ==
  ASSUME TypeOK, TypeOK', SetStream, [Next]_vars
  PROVE  SetStream'
<1>1. CASE /\ UNCHANGED <<set, setEvents, setCache>>
           /\ "sets" \in synced' <=> "sets" \in synced
  BY <1>1 DEF SetStream
<1>2. ASSUME UNCHANGED <<setCache, synced>>, NEW s, SetBecomes(s)
      PROVE  SetStream'
  <2>1. s = set' /\ set' \in Sets(setUid') /\ setUid' \in Nat /\ setUid <= setUid'
    BY <1>2, UidsGrow DEF TypeOK, SetBecomes
  <2> QED
    BY <1>2, <2>1, SetStreamWrite
<1>3. CASE SetEvent
  <2>1. /\ setEvents # <<>> /\ setEvents' = Tail(setEvents)
        /\ setCache' = Head(setEvents) /\ UNCHANGED <<set, synced>>
    BY <1>3 DEF SetEvent
  <2>2. setEvents \in Seq(Sets(setUid)) /\ "sets" \in synced
    BY <2>1 DEF TypeOK, SetStream
  <2>3. Head(setEvents) \in Sets(setUid)
    BY <2>1, <2>2, HeadTailProperties
  <2>4. /\ Head(setEvents) = setEvents[1]
        /\ Tail(setEvents) = <<>> <=> Len(setEvents) = 1
        /\ Tail(setEvents) # <<>>
             => Tail(setEvents)[Len(Tail(setEvents))] = setEvents[Len(setEvents)]
    BY <2>1, <2>2, <2>3, SeqSteps
  <2> QED
    BY <2>1, <2>2, <2>4 DEF SetStream
<1>4. CASE ListSets
  BY <1>4 DEF ListSets, SetStream
<1>5. CASE Restart
  BY <1>5 DEF Restart, Started, SetStream
<1> QED
  BY <1>1, <1>2, <1>3, <1>4, <1>5, SetKinds

\* The fields of a sync that goes on.
LEMMA SyncMoves ==
  ASSUME NEW m \in Nat, NEW n \in Nat, NEW f \in Syncs(m, n), NEW q
  PROVE  /\ [f EXCEPT !.pc = q].pc = q /\ [f EXCEPT !.pc = q].view = f.view
         /\ [f EXCEPT !.pc = q].pod = f.pod /\ [f EXCEPT !.pc = q].claimed = f.claimed
BY DEF Syncs

\* What a sync that begins has read from the caches, and what it has to do.
LEMMA SyncBegins ==
  ASSUME TypeOK, Sync, setCache # NoSet
  PROVE  /\ w' # Idle /\ w'.view = setCache /\ w'.pod = podCache
         /\ w'.claimed = (podCache # NoPod /\ podCache.owner = setCache.uid /\ podCache.labelled)
         /\ w'.pc \in {"release", "check", "update"}
         /\ w'.pc = "release" => ~ w'.claimed
         /\ w'.pc = "check" => ~ w'.claimed /\ podCache.owner = 0
<1> DEFINE f == [pc |-> "claim", view |-> setCache, pod |-> podCache,
                 claimed |-> FALSE, wasLive |-> Live(setCache.uid)]
<1>1. f \in [pc : {"claim"}, view : Sets(setUid) \ {NoSet}, pod : Pods(podUid, setUid),
             claimed : BOOLEAN, wasLive : BOOLEAN]
  BY DEF TypeOK, Live
<1>2. w' = ClaimPods(f) /\ setUid \in Nat /\ podUid \in Nat
  BY DEF Sync, TypeOK
<1>3. f.view = setCache /\ f.pod = podCache
  OBVIOUS
<1> HIDE DEF f
<1>4. /\ ClaimPods(f).view = f.view /\ ClaimPods(f).pod = f.pod
      /\ ClaimPods(f).claimed = (Ours(f) /\ f.pod.labelled)
      /\ ClaimPods(f).pc \in {"release", "check", "update"}
      /\ ClaimPods(f).pc = "release" <=> ToRelease(f)
      /\ ClaimPods(f).pc = "check" <=> ~ ToRelease(f) /\ ToAdopt(f)
  BY <1>1, <1>2, ClaimStarts
<1>5. setCache.uid # 0
  BY DEF TypeOK, Sets
<1>6. podCache.labelled \in BOOLEAN
  BY DEF TypeOK, Pods
<1>7. w'.pc # "idle"
  BY <1>2, <1>4
<1>8. w' # Idle
  BY <1>7 DEF Idle
<1>9. Ours(f) <=> podCache # NoPod /\ podCache.owner = setCache.uid
  BY <1>3 DEF Ours
<1>10. w'.claimed = (podCache # NoPod /\ podCache.owner = setCache.uid /\ podCache.labelled)
  BY <1>2, <1>3, <1>4, <1>6, <1>9 DEF Ours
<1>11. ToRelease(f) => ~ podCache.labelled
  BY <1>3 DEF ToRelease
<1>12. ToAdopt(f) => podCache.owner = 0
  BY <1>3 DEF ToAdopt
<1> QED
  BY <1>2, <1>3, <1>4, <1>5, <1>6, <1>8, <1>10, <1>11, <1>12

\* A sync that goes on keeps what it has read, and reaches its last step with
\* the pod, or for a set that is being deleted.
LEMMA SyncProceeds ==
  ASSUME TypeOK, SyncState, Worker, ~ Sync
  PROVE  /\ w # Idle /\ UNCHANGED <<setCache, podCache, podNotes, synced, unseen>>
         /\ w' # Idle => w'.view = w.view /\ w'.pod = w.pod
         /\ SyncState'
<1>1. w # Idle /\ w \in Syncs(podUid, setUid) /\ podUid \in Nat /\ setUid \in Nat
  <2>1. w # Idle
    BY DEF Worker, ReleasePod, CanAdopt, AdoptPod, UpdateStatefulSet, WriteStatus, Idle
  <2> QED
    BY <2>1, SyncFields DEF TypeOK
<1>2. UNCHANGED <<setCache, podCache, podNotes, synced, unseen>>
  BY DEF Worker, ReleasePod, CanAdopt, AdoptPod, UpdateStatefulSet, WriteStatus, informers
<1>3. CASE w' = Idle
  BY <1>1, <1>2, <1>3 DEF SyncState
<1> DEFINE g(q) == [w EXCEPT !.pc = q]
<1>4. \A q : g(q).pc = q /\ g(q).view = w.view /\ g(q).pod = w.pod /\ g(q).claimed = w.claimed
  BY <1>1, SyncMoves
<1>5. ASSUME \/ w' = [w EXCEPT !.pc = "update", !.claimed = TRUE]
             \/ w' = [w EXCEPT !.claimed = TRUE, !.pc = "status"]
      PROVE  /\ w'.pc \in {"update", "status"} /\ w'.view = w.view /\ w'.pod = w.pod
             /\ w'.claimed = TRUE
  <2>1. CASE w' = [w EXCEPT !.pc = "update", !.claimed = TRUE]
    BY <1>1, <2>1 DEF Syncs
  <2>2. CASE w' = [w EXCEPT !.claimed = TRUE, !.pc = "status"]
    BY <1>1, <2>2 DEF Syncs
  <2> QED
    BY <1>5, <2>1, <2>2
<1> HIDE DEF g
<1>6. CASE ReleasePod
  <2>1. w' = g("update")
    BY <1>6 DEF ReleasePod, g
  <2> QED
    BY <1>1, <1>2, <1>4, <2>1 DEF SyncState
<1>7. CASE CanAdopt /\ w' # Idle
  <2>1. w' = g("adopt") /\ w.pc = "check"
    BY <1>7 DEF CanAdopt, Requeue, g
  <2> QED
    BY <1>1, <1>2, <1>4, <2>1 DEF SyncState
<1>8. CASE AdoptPod /\ w' # Idle
  <2>1. w' = g("update") \/ w' = [w EXCEPT !.pc = "update", !.claimed = TRUE]
    BY <1>8 DEF AdoptPod, Requeue, g
  <2>2. CASE w' = g("update")
    BY <1>1, <1>2, <1>4, <2>2 DEF SyncState
  <2>3. CASE w' = [w EXCEPT !.pc = "update", !.claimed = TRUE]
    BY <1>1, <1>2, <1>5, <2>3 DEF SyncState
  <2> QED
    BY <2>1, <2>2, <2>3
<1>9. CASE UpdateStatefulSet /\ w' # Idle
  <2>1. \/ w' = g("status") /\ (w.view.deleting \/ w.claimed)
        \/ w' = [w EXCEPT !.claimed = TRUE, !.pc = "status"]
    BY <1>9 DEF UpdateStatefulSet, Requeue, Counted, g
  <2>2. CASE w' = g("status") /\ (w.view.deleting \/ w.claimed)
    BY <1>1, <1>2, <1>4, <2>2 DEF SyncState
  <2>3. CASE w' = [w EXCEPT !.claimed = TRUE, !.pc = "status"]
    BY <1>1, <1>2, <1>5, <2>3 DEF SyncState
  <2> QED
    BY <2>1, <2>2, <2>3
<1>10. CASE WriteStatus
  BY <1>3, <1>10 DEF WriteStatus, Requeue
<1> QED
  BY <1>3, <1>6, <1>7, <1>8, <1>9, <1>10 DEF Worker

\* Steps of the others leave a sync alone, or end it.
LEMMA SyncLeftAlone ==
  ASSUME [Next]_vars, ~ Worker
  PROVE  \/ Restart /\ w' = Idle
         \/ /\ UNCHANGED w
            /\ synced' \in {synced, synced \union {"pods"}, synced \union {"sets"}}
<1>1. CASE Cluster
  BY <1>1 DEF Cluster, Kubelet, CollectPod, FinalizeSet, informers
<1>2. CASE Users
  BY <1>2 DEF Users, User, CreateSet, DeleteSet, DeletePod, RelabelPod, informers
<1>3. CASE HandlePod \/ PodEvent \/ SetEvent
  BY <1>3 DEF HandlePod, PodEvent, SetEvent
<1>4. CASE ListPods \/ ListSets
  BY <1>4 DEF ListPods, ListSets
<1>5. CASE Restart
  BY <1>5 DEF Restart, Started
<1>6. CASE UNCHANGED vars
  BY <1>6 DEF vars
<1> QED
  BY <1>1, <1>2, <1>3, <1>4, <1>5, <1>6 DEF Next

\* Every step keeps what is known of the sync.
LEMMA SyncStateNext ==
  ASSUME TypeOK, SyncState, [Next]_vars
  PROVE  SyncState'
<1>1. CASE Sync
  <2>1. CASE setCache = NoSet
    BY <1>1, <2>1 DEF Sync, SyncState
  <2>2. CASE setCache # NoSet
    <3>1. synced' = {"sets", "pods"}
      BY <1>1 DEF Sync, informers
    <3> QED
      BY <1>1, <2>2, <3>1, SyncBegins DEF SyncState
  <2> QED
    BY <2>1, <2>2
<1>2. CASE Worker /\ ~ Sync
  BY <1>2, SyncProceeds
<1>3. CASE ~ Worker
  BY <1>3, SyncLeftAlone DEF SyncState
<1> QED
  BY <1>1, <1>2, <1>3 DEF Worker

\* A set that was known to be deleted still is.
LEMMA DeletionStays ==
  ASSUME TypeOK, [Next]_vars, set.finalizer # "none" => set.deleting,
         NEW k \in Sets(setUid), KnownDeletion(k)
  PROVE  /\ set'.finalizer # "none" => set'.deleting
         /\ k.uid = set'.uid /\ k.deleting => set'.deleting
<1>0. /\ set \in Sets(setUid) /\ setUid \in Nat
      /\ k.uid \in 0 .. setUid /\ (k.uid = 0 => ~ k.deleting)
  BY DEF TypeOK, Sets, NoSet
<1>1. CASE set' = set
  BY <1>1 DEF KnownDeletion
<1>2. CASE set' = NoSet
  BY <1>0, <1>2 DEF NoSet
<1>3. CASE CreateSet
  <2>1. set' = NewSet(setUid + 1) /\ setUid + 1 \in Nat \ {0}
    BY <1>0, <1>3 DEF CreateSet, SetBecomes
  <2>2. set'.uid = setUid + 1 /\ set'.finalizer = "none"
    BY <2>1, NewObjects DEF NewSet, NoSet
  <2> QED
    BY <1>0, <2>2
<1>4. CASE DeleteSet /\ set' # NoSet
  <2>1. \E f \in {"orphan", "foreground"} :
          set' = [set EXCEPT !.deleting = TRUE, !.finalizer = f]
    BY <1>4 DEF DeleteSet, SetBecomes
  <2>2. set'.deleting
    BY <1>0, <2>1 DEF Sets
  <2> QED
    BY <2>2
<1>5. CASE WriteStatus /\ set' # set
  <2>1. set' = [set EXCEPT !.replicas = IF w.claimed THEN 1 ELSE 0]
    BY <1>5 DEF WriteStatus, SetBecomes
  <2>2. set'.uid = set.uid /\ set'.deleting = set.deleting /\ set'.finalizer = set.finalizer
    BY <1>0, <2>1 DEF Sets
  <2> QED
    BY <2>2 DEF KnownDeletion
<1>6. CASE FinalizeSet
  BY <1>2, <1>6 DEF FinalizeSet, SetBecomes
<1>7. CASE Sync \/ ReleasePod \/ CanAdopt \/ AdoptPod \/ UpdateStatefulSet
  BY <1>1, <1>7 DEF Sync, ReleasePod, CanAdopt, AdoptPod, UpdateStatefulSet, api
<1>8. CASE Kubelet \/ CollectPod \/ DeletePod \/ RelabelPod
  BY <1>1, <1>8 DEF Kubelet, CollectPod, DeletePod, RelabelPod
<1>9. CASE HandlePod \/ PodEvent \/ SetEvent \/ ListPods \/ ListSets
  BY <1>1, <1>9 DEF HandlePod, PodEvent, SetEvent, ListPods, ListSets, api
<1>10. CASE Restart \/ UNCHANGED vars
  BY <1>1, <1>10 DEF Restart, vars
<1> QED
  BY <1>1, <1>2, <1>3, <1>4, <1>5, <1>6, <1>7, <1>8, <1>9, <1>10
    DEF Next, Worker, Cluster, Users

\* Every step keeps what is known of deletions.
LEMMA DeletionsNext ==
  ASSUME TypeOK, TypeOK', SetStream, SyncState, Deletions, [Next]_vars
  PROVE  Deletions'
<1>0. /\ \A k \in Sets(setUid) : KnownDeletion(k) => KnownDeletion(k)'
      /\ set'.finalizer # "none" => set'.deleting
  <2>1. set.finalizer # "none" => set.deleting
    BY DEF Deletions
  <2>2. \A k \in Sets(setUid) : KnownDeletion(k) => (k.uid = set'.uid /\ k.deleting => set'.deleting)
    BY <2>1, DeletionStays
  <2>3. setCache \in Sets(setUid) /\ KnownDeletion(setCache)
    BY DEF TypeOK, Deletions
  <2>4. set'.finalizer # "none" => set'.deleting
    BY <2>1, <2>3, DeletionStays
  <2> QED
    BY <2>2, <2>4 DEF KnownDeletion
<1>1. /\ setCache \in Sets(setUid) /\ set \in Sets(setUid) /\ KnownDeletion(setCache)
      /\ KnownDeletion(set) /\ setEvents \in Seq(Sets(setUid))
      /\ \A i \in DOMAIN setEvents : setEvents[i] \in Sets(setUid) /\ KnownDeletion(setEvents[i])
  BY ElementOfSeq DEF TypeOK, Deletions, KnownDeletion
<1>2. KnownDeletion(setCache)' /\ (\A i \in DOMAIN setEvents : KnownDeletion(setEvents[i]))'
  <2>1. CASE UNCHANGED <<set, setEvents, setCache>>
    BY <2>1, <1>1 DEF KnownDeletion
  <2>2. ASSUME UNCHANGED <<setCache, synced>>, NEW s, SetBecomes(s)
        PROVE  KnownDeletion(setCache)' /\ (\A i \in DOMAIN setEvents : KnownDeletion(setEvents[i]))'
    <3>1. s = set' /\ set' \in Sets(setUid') /\ setUid' \in Nat /\ setUid <= setUid'
      BY <2>2, UidsGrow DEF TypeOK, SetBecomes
    <3>2. \A i \in DOMAIN setEvents' :
            setEvents'[i] = s \/ \E j \in DOMAIN setEvents : setEvents'[i] = setEvents[j]
      BY <2>2, <3>1, SetStreamWrite
    <3>3. \A k \in Sets(setUid) : KnownDeletion(k) => (k.uid = set'.uid /\ k.deleting => set'.deleting)
      BY <1>0 DEF KnownDeletion
    <3>4. \A i \in DOMAIN setEvents' :
            setEvents'[i].uid = set'.uid /\ setEvents'[i].deleting => set'.deleting
      BY <1>1, <3>1, <3>2, <3>3
    <3> QED
      BY <1>1, <2>2, <3>3, <3>4 DEF KnownDeletion
  <2>3. CASE SetEvent
    <3>1. /\ setEvents # <<>> /\ setEvents' = Tail(setEvents)
          /\ setCache' = Head(setEvents) /\ set' = set
      BY <2>3 DEF SetEvent
    <3>2. /\ Head(setEvents) = setEvents[1] /\ 1 \in DOMAIN setEvents
          /\ \A i \in DOMAIN Tail(setEvents) :
               i + 1 \in DOMAIN setEvents /\ Tail(setEvents)[i] = setEvents[i + 1]
      BY <1>1, <3>1, SeqSteps
    <3> QED
      BY <1>1, <3>1, <3>2 DEF KnownDeletion
  <2>4. CASE ListSets
    <3>1. setEvents' = <<>> /\ setCache' = set /\ set' = set
      BY <2>4 DEF ListSets
    <3> QED
      BY <1>1, <3>1 DEF KnownDeletion
  <2>5. CASE Restart
    <3>1. setEvents' = <<>> /\ setCache' = NoSet
      BY <2>5 DEF Restart, Started
    <3> QED
      BY <3>1 DEF KnownDeletion, NoSet
  <2> QED
    BY <2>1, <2>2, <2>3, <2>4, <2>5, SetKinds
<1>3. w' # Idle => KnownDeletion(w.view)'
  <2>1. CASE Sync /\ w' # Idle
    <3>1. w'.view = setCache /\ set' = set
      BY <2>1, SyncBegins DEF Sync, api
    <3> QED
      BY <1>1, <3>1 DEF KnownDeletion
  <2>2. ASSUME ~ Sync, w' # Idle
        PROVE  KnownDeletion(w.view)'
    <3>1. w # Idle /\ w'.view = w.view
      BY <2>2, SyncProceeds, SyncLeftAlone
    <3>2. w.view \in Sets(setUid) /\ KnownDeletion(w.view)
      BY <3>1, SyncFields DEF Deletions
    <3>3. w.view.uid = set'.uid /\ w.view.deleting => set'.deleting
      BY <1>0, <3>2 DEF KnownDeletion
    <3> QED
      BY <3>1, <3>3 DEF KnownDeletion
  <2> QED
    BY <2>1, <2>2
<1> QED
  BY <1>0, <1>2, <1>3 DEF Deletions

\* A key stays in the queue until a sync takes it out or the process ends.
LEMMA QueuedStays ==
  ASSUME TypeOK, [Next]_vars, ~ Sync, ~ Restart, queued
  PROVE  queued'
<1>1. CASE Worker
  BY <1>1 DEF Worker, ReleasePod, CanAdopt, AdoptPod, UpdateStatefulSet, WriteStatus, Requeue
<1>2. CASE Cluster
  BY <1>2 DEF Cluster, Kubelet, CollectPod, FinalizeSet
<1>3. CASE Users
  BY <1>3 DEF Users, User, CreateSet, DeleteSet, DeletePod, RelabelPod
<1>4. CASE HandlePod
  BY <1>4 DEF HandlePod
<1>5. CASE PodEvent \/ SetEvent \/ ListPods \/ ListSets
  BY <1>5 DEF PodEvent, SetEvent, ListPods, ListSets
<1>6. CASE UNCHANGED vars
  BY <1>6 DEF vars
<1> QED
  BY <1>1, <1>2, <1>3, <1>4, <1>5, <1>6 DEF Next

\* A change of the set is told.
LEMMA SetChangeTold ==
  ASSUME TypeOK, TypeOK', SetStream, [Next]_vars, "sets" \in synced, set' # set
  PROVE  Told'
<1>1. PICK s : UNCHANGED <<setCache, synced>> /\ SetBecomes(s)
  <2>1. ~ (SetEvent \/ ListSets \/ Restart)
    BY DEF SetEvent, ListSets, Restart
  <2> QED
    BY <2>1, SetKinds
<1>2. s = set' /\ set' \in Sets(setUid') /\ setUid' \in Nat /\ setUid <= setUid'
  BY <1>1, UidsGrow DEF TypeOK, SetBecomes
<1>3. setEvents' # <<>>
  BY <1>1, <1>2, SetStreamWrite
<1> QED
  BY <1>3 DEF Told

\* What the set has been told stays, or has the key queued.
LEMMA ToldStays ==
  ASSUME TypeOK, TypeOK', SetStream, [Next]_vars, Told, set' # NoSet, ~ Sync, ~ Restart
  PROVE  Told'
<1>1. CASE queued
  BY <1>1, QueuedStays DEF Told
<1>2. CASE setEvents # <<>>
  <2>1. CASE UNCHANGED <<set, setEvents, setCache>>
    BY <1>2, <2>1 DEF Told
  <2>2. ASSUME UNCHANGED <<setCache, synced>>, NEW s, SetBecomes(s)
        PROVE  Told'
    <3>1. s = set' /\ set' \in Sets(setUid') /\ setUid' \in Nat /\ setUid <= setUid'
      BY <2>2, UidsGrow DEF TypeOK, SetBecomes
    <3> QED
      BY <1>2, <2>2, <3>1, SetStreamWrite DEF Told
  <2>3. CASE SetEvent
    BY <2>3 DEF SetEvent, Told
  <2>4. CASE ListSets
    BY <2>4 DEF ListSets, Told
  <2> QED
    BY <2>1, <2>2, <2>3, <2>4, SetKinds
<1> QED
  BY <1>1, <1>2 DEF Told

\* Every step keeps StaleSync: the news that makes a sync stale is on its way.
LEMMA StaleSyncNext ==
  ASSUME TypeOK, TypeOK', SetStream, SyncState, SyncState', StaleSync, [Next]_vars
  PROVE  StaleSync'
<1> SUFFICES ASSUME w' # Idle, Stays', w'.view.uid # set'.uid
             PROVE  Told'
  BY DEF StaleSync
<1>1. CASE Sync
  <2>1. /\ w'.view = setCache /\ set' = set /\ setEvents' = setEvents
        /\ synced = {"sets", "pods"}
    BY <1>1, SyncBegins DEF Sync, api
  <2>2. setEvents # <<>>
    BY <2>1 DEF SetStream
  <2> QED
    BY <2>1, <2>2 DEF Told
<1>2. CASE ~ Sync
  <2>1. w # Idle /\ w'.view = w.view /\ ~ Restart
    BY <1>2, SyncProceeds, SyncLeftAlone DEF Restart, Started
  <2>2. "sets" \in synced
    BY <2>1 DEF SyncState
  <2>3. CASE set' # set
    BY <2>2, <2>3, SetChangeTold
  <2>4. CASE set' = set
    <3>1. Told /\ set' # NoSet
      BY <2>1, <2>4 DEF StaleSync, Stays
    <3> QED
      BY <1>2, <2>1, <3>1, ToldStays
  <2> QED
    BY <2>3, <2>4
<1> QED
  BY <1>1, <1>2

\* The handlers turn a notification that concerns the set into its key in the
\* queue, when the set is in the cache.
LEMMA HandlerWakes ==
  ASSUME TypeOK, HandlePod, Wakes(Head(podNotes), set.uid), setCache.uid = set.uid, set.uid # 0
  PROVE  queued'
<1> DEFINE n == Head(podNotes)
           wakes == CASE n.kind = "add" -> addPod(n.cur)
                      [] n.kind = "update" -> updatePod(n.old, n.cur)
                      [] n.kind \in {"delete", "tombstone"} -> deletePod(n.old)
<1>1. queued' = (queued \/ wakes)
  BY DEF HandlePod
<1>2. CASE n.kind = "add" /\ n.cur.owner = set.uid
  <2>1. addPod(n.cur) = TRUE
    BY <1>2 DEF addPod, resolveControllerRef
  <2>2. wakes = addPod(n.cur)
    BY <1>2
  <2> QED
    BY <1>1, <2>1, <2>2
<1>3. CASE n.kind = "update" /\ n.old # n.cur /\ set.uid \in {n.old.owner, n.cur.owner}
  <2>1. updatePod(n.old, n.cur) = TRUE
    <3>1. CASE n.cur.owner = set.uid
      BY <1>3, <3>1 DEF updatePod, resolveControllerRef
    <3>2. CASE n.cur.owner # set.uid
      BY <1>3, <3>2 DEF updatePod, resolveControllerRef
    <3> QED
      BY <3>1, <3>2
  <2>2. wakes = updatePod(n.old, n.cur)
    BY <1>3
  <2> QED
    BY <1>1, <2>1, <2>2
<1>4. CASE n.kind \in {"delete", "tombstone"} /\ n.old.owner = set.uid
  <2>1. deletePod(n.old) = TRUE
    BY <1>4 DEF deletePod, resolveControllerRef
  <2>2. wakes = deletePod(n.old)
    BY <1>4
  <2> QED
    BY <1>1, <2>1, <2>2
<1> QED
  BY <1>2, <1>3, <1>4 DEF Wakes

\* Notifications are handled in order, and none is lost.
LEMMA NotesStay ==
  ASSUME TypeOK, TypeOK', [Next]_vars, ~ HandlePod, ~ Restart
  PROVE  \A i \in DOMAIN podNotes : i \in DOMAIN podNotes' /\ podNotes'[i] = podNotes[i]
<1> DEFINE N == Notes(podUid, setUid)
<1>0. podNotes \in Seq(N)
  BY DEF TypeOK
<1>1. ASSUME NEW x, podNotes' = Append(podNotes, x)
      PROVE  \A i \in DOMAIN podNotes : i \in DOMAIN podNotes' /\ podNotes'[i] = podNotes[i]
  <2>1. podNotes \in Seq(N \union {x})
    BY <1>0, SeqMonotonic
  <2>2. x \in N \union {x}
    OBVIOUS
  <2> HIDE DEF N
  <2> QED
    BY <1>1, <2>1, <2>2, SeqSteps
<1>2. CASE podNotes' = podNotes
  BY <1>2
<1>3. podNotes' = podNotes \/ \E x : podNotes' = Append(podNotes, x)
  <2>1. CASE Worker
    BY <2>1 DEF Worker, Sync, ReleasePod, CanAdopt, AdoptPod, UpdateStatefulSet, WriteStatus,
                informers
  <2>2. CASE Cluster
    BY <2>2 DEF Cluster, Kubelet, CollectPod, FinalizeSet, informers
  <2>3. CASE Users
    BY <2>3 DEF Users, User, CreateSet, DeleteSet, DeletePod, RelabelPod, informers
  <2>4. CASE PodEvent
    BY <2>4 DEF PodEvent
  <2>5. CASE ListPods
    BY <2>5 DEF ListPods
  <2>6. CASE SetEvent \/ ListSets
    BY <2>6 DEF SetEvent, ListSets
  <2>7. CASE UNCHANGED vars
    BY <2>7 DEF vars
  <2> QED
    BY <2>1, <2>2, <2>3, <2>4, <2>5, <2>6, <2>7 DEF Next
<1> QED
  BY <1>1, <1>2, <1>3

\* What will wake up the set does, or stays.
LEMMA WakingStays ==
  ASSUME TypeOK, TypeOK', SetStream, [Next]_vars, Waking, Stays, set' = set,
         "sets" \in synced, ~ Sync, ~ Restart
  PROVE  Waking'
<1>1. CASE Told
  BY <1>1, ToldStays DEF Stays, Waking
<1>2. CASE ~ Told
  <2>1. PICK i \in DOMAIN podNotes : Wakes(podNotes[i], set.uid)
    BY <1>2 DEF Waking
  <2>2. CASE ~ HandlePod
    <3>1. i \in DOMAIN podNotes' /\ podNotes'[i] = podNotes[i]
      BY <2>2, NotesStay
    <3> QED
      BY <2>1, <3>1 DEF Waking, Wakes
  <2>3. CASE HandlePod
    <3>1. podNotes # <<>> /\ podNotes' = Tail(podNotes)
      BY <2>3 DEF HandlePod
    <3>2. podNotes \in Seq(Notes(podUid, setUid))
      BY DEF TypeOK
    <3>3. Head(podNotes) \in Notes(podUid, setUid)
      BY <3>1, <3>2, HeadTailProperties
    <3>4. /\ Head(podNotes) = podNotes[1] /\ Tail(podNotes) \in Seq(Notes(podUid, setUid))
          /\ DOMAIN podNotes = 1 .. Len(podNotes) /\ Len(podNotes) \in Nat
          /\ Len(Tail(podNotes)) = Len(podNotes) - 1
          /\ \A j \in DOMAIN Tail(podNotes) : Tail(podNotes)[j] = podNotes[j + 1]
      BY <3>1, <3>2, <3>3, SeqSteps
    <3>5. CASE i = 1
      <4>1. setCache = set /\ set.uid # 0
        BY <1>2 DEF Told, SetStream, Stays, TypeOK, Sets
      <4>2. queued'
        BY <2>1, <2>3, <3>4, <3>5, <4>1, HandlerWakes
      <4> QED
        BY <4>2 DEF Waking, Told
    <3>6. CASE i # 1
      <4>1. DOMAIN Tail(podNotes) = 1 .. Len(podNotes) - 1
        BY <3>4, LenProperties
      <4>2. i - 1 \in DOMAIN podNotes'
        BY <3>1, <3>4, <3>6, <4>1
      <4>3. podNotes'[i - 1] = podNotes[i]
        BY <3>1, <3>4, <4>2
      <4> QED
        BY <2>1, <4>2, <4>3 DEF Waking
    <3> QED
      BY <3>5, <3>6
  <2> QED
    BY <2>2, <2>3
<1> QED
  BY <1>1, <1>2

\* A change of the cached pod is told to its owner before and to its owner
\* after, be it an event or the difference that a list shows.
LEMMA CacheMoveTold ==
  ASSUME TypeOK, PodStream, PodEvent \/ ListPods, podCache' # podCache,
         set.uid # 0, set' = set, set.uid \in {podCache.owner, podCache'.owner}
  PROVE  Waking'
<1>1. ASSUME NEW x, podNotes' = Append(podNotes, x), Wakes(x, set.uid)
      PROVE  Waking'
  <2>1. podNotes \in Seq(Notes(podUid, setUid) \union {x})
    BY SeqMonotonic DEF TypeOK
  <2>2. x \in Notes(podUid, setUid) \union {x}
    OBVIOUS
  <2>3. DOMAIN podNotes' = 1 .. Len(podNotes) + 1 /\ podNotes'[Len(podNotes) + 1] = x
    BY <1>1, <2>1, <2>2, SeqSteps
  <2>4. Len(podNotes) + 1 \in DOMAIN podNotes'
    BY <2>1, <2>3, LenProperties
  <2> QED
    BY <1>1, <2>3, <2>4 DEF Waking
<1>2. NoPod.owner = 0
  BY DEF NoPod
<1>3. CASE PodEvent
  <2> DEFINE e == Head(podEvents)
             x == [kind |-> IF e.gone THEN "delete"
                            ELSE IF podCache = NoPod THEN "add" ELSE "update",
                   old |-> IF e.gone THEN e.pod ELSE podCache,
                   cur |-> IF e.gone THEN NoPod ELSE e.pod]
  <2>1. /\ podEvents # <<>> /\ podNotes' = Append(podNotes, x)
        /\ podCache' = IF e.gone THEN NoPod ELSE e.pod
    BY <1>3 DEF PodEvent
  <2>2. e = podEvents[1] /\ 1 \in DOMAIN podEvents /\ "pods" \in synced
    <3>1. podEvents \in Seq(Events(podUid, setUid)) /\ "pods" \in synced
      BY <2>1 DEF TypeOK, PodStream
    <3>2. e \in Events(podUid, setUid)
      BY <2>1, <3>1, HeadTailProperties
    <3> QED
      BY <2>1, <3>1, <3>2, SeqSteps
  <2>3. IF e.gone THEN e.pod = podCache ELSE e.pod # podCache
    BY <2>2 DEF PodStream, Before
  <2>4. /\ x.kind = IF e.gone THEN "delete" ELSE IF podCache = NoPod THEN "add" ELSE "update"
        /\ x.old = IF e.gone THEN e.pod ELSE podCache
        /\ x.cur = IF e.gone THEN NoPod ELSE e.pod
    OBVIOUS
  <2> HIDE DEF x, e
  <2>5. Wakes(x, set.uid)
    BY <1>2, <2>1, <2>3, <2>4 DEF Wakes
  <2> QED
    BY <1>1, <2>1, <2>5
<1>4. CASE ListPods
  <2>1. podCache' = pod
    BY <1>4 DEF ListPods
  <2>2. CASE pod = NoPod
    <3> DEFINE x == [kind |-> "tombstone", old |-> podCache, cur |-> NoPod]
    <3>1. podNotes' = Append(podNotes, x)
      BY <1>4, <2>1, <2>2 DEF ListPods
    <3>2. Wakes(x, set.uid)
      BY <1>2, <2>1, <2>2 DEF Wakes
    <3> QED
      BY <1>1, <3>1, <3>2
  <2>3. CASE pod # NoPod
    <3> DEFINE x == [kind |-> IF podCache = NoPod THEN "add" ELSE "update",
                     old |-> podCache, cur |-> pod]
    <3>1. podNotes' = Append(podNotes, x)
      BY <1>4, <2>3 DEF ListPods
    <3>2. Wakes(x, set.uid)
      BY <1>2, <2>1, <2>3 DEF Wakes
    <3> QED
      BY <1>1, <3>1, <3>2
  <2> QED
    BY <2>2, <2>3
<1> QED
  BY <1>3, <1>4

\* Every step keeps LateOwner: the cache has moved since the sync read it, and
\* that is told.
LEMMA LateOwnerNext ==
  ASSUME TypeOK, TypeOK', PodStream, SetStream, SyncState, LateOwner, [Next]_vars
  PROVE  LateOwner'
<1> SUFFICES ASSUME w' # Idle, Stays', w'.view.uid = set'.uid, w'.pod.owner # set'.uid,
                    podCache'.owner = set'.uid
             PROVE  Waking'
  BY DEF LateOwner
<1>1. ~ Sync
  <2>1. ASSUME Sync PROVE w'.pod = podCache /\ podCache' = podCache
    BY <2>1, SyncBegins DEF Sync, informers
  <2> QED
    BY <2>1
<1>2. w # Idle /\ w'.view = w.view /\ w'.pod = w.pod /\ ~ Restart
  BY <1>1, SyncProceeds, SyncLeftAlone DEF Restart, Started
<1>3. "sets" \in synced
  BY <1>2 DEF SyncState
<1>4. CASE set' # set
  BY <1>3, <1>4, SetChangeTold DEF Waking
<1>5. CASE set' = set /\ podCache' = podCache
  <2>1. Stays
    BY <1>5 DEF Stays
  <2>2. Waking
    BY <1>2, <1>5, <2>1 DEF LateOwner
  <2> QED
    BY <1>1, <1>2, <1>3, <1>5, <2>1, <2>2, WakingStays
<1>6. CASE set' = set /\ podCache' # podCache
  <2>1. PodEvent \/ ListPods
    BY <1>2, <1>6, PodKinds
  <2>2. set.uid # 0
    BY <1>6 DEF Stays, TypeOK, Sets
  <2> QED
    BY <1>6, <2>1, <2>2, CacheMoveTold
<1> QED
  BY <1>4, <1>5, <1>6

\* While the set stays, its pod, or its end, stays on its way to the cache.
LEMMA SettledStays ==
  ASSUME TypeOK, TypeOK', PodStream, Deletions, Stays, Settled, "pods" \in synced, set' = set,
         Kubelet \/ CollectPod \/ DeletePod \/ RelabelPod
  PROVE  Settled'
<1>0. /\ pod \in Pods(podUid, setUid) /\ set.uid # 0 /\ podUid \in Nat /\ setUid \in Nat
      /\ pod' \in Pods(podUid', setUid')
  BY DEF TypeOK, Stays, Sets
<1>1. UNCHANGED <<podUid, setUid, podCache, synced>>
  BY DEF Kubelet, CollectPod, DeletePod, RelabelPod, User, informers
<1>2. PICK p : PodBecomes(p)
  BY DEF Kubelet, CollectPod, DeletePod, RelabelPod
<1>3. p = pod' /\ p \in Pods(podUid', setUid) /\ podUid' \in Nat /\ podUid <= podUid'
  BY <1>0, <1>1, <1>2 DEF PodBecomes
<1>4. CASE podCache.uid # 0 /\ podCache.owner = set.uid /\ podCache.labelled
  BY <1>1, <1>4 DEF Settled
<1>5. pod # NoPod
  BY DEF Kubelet, CollectPod, DeletePod, RelabelPod, NoPod
<1>6. CASE /\ pod.owner = set.uid
           /\ podCache.uid # pod.uid \/ podCache.owner # set.uid
  <2>1. CASE Kubelet
    <3>1. pod' = NoPod
      BY <2>1 DEF Kubelet, PodBecomes
    <3>2. podEvents' # <<>> /\ podEvents'[Len(podEvents')].pod = pod
      BY <1>1, <1>2, <1>3, <1>5, <3>1, PodStreamWrite
    <3> QED
      BY <1>6, <3>1, <3>2 DEF Settled
  <2>2. CASE CollectPod \/ DeletePod \/ RelabelPod
    <3>1. \/ pod' = [pod EXCEPT !.terminating = TRUE]
          \/ pod' = [pod EXCEPT !.labelled = ~ @]
      BY <2>2 DEF CollectPod, DeletePod, RelabelPod, PodBecomes, Stays, Deletions
    <3>2. pod'.owner = pod.owner /\ pod'.uid = pod.uid
      BY <1>0, <3>1 DEF Pods
    <3> QED
      BY <1>1, <1>6, <3>2 DEF Settled
  <2> QED
    BY <2>1, <2>2
<1> QED
  BY <1>4, <1>5, <1>6 DEF Settled

\* A change of the cached pod keeps the set awake, unless its pod is still on
\* its way.
LEMMA AwakeMoves ==
  ASSUME TypeOK, TypeOK', PodStream, PodStream', Stays, set' = set, "pods" \in synced,
         Settled, PodEvent \/ ListPods, ~ unseen'
  PROVE  Waking' \/ Settled'
<1>0. set.uid # 0 /\ NoPod.owner = 0
  BY DEF TypeOK, Stays, Sets, NoPod
<1>1. CASE podCache' # podCache /\ set.uid \in {podCache.owner, podCache'.owner}
  BY <1>0, <1>1, CacheMoveTold
<1>2. CASE podCache' = podCache /\ podCache.uid # 0 /\ podCache.owner = set.uid /\ podCache.labelled
  BY <1>2 DEF Settled
<1>3. CASE /\ pod.owner = set.uid
           /\ podCache.owner # set.uid \/ podCache.uid # pod.uid
           /\ podCache'.owner # set.uid \/ podCache' = podCache
  <2>1. pod' = pod
    BY DEF PodEvent, ListPods
  <2>2. podCache'.uid # pod.uid \/ podCache'.owner # set.uid
    BY <1>3
  <2> QED
    BY <1>3, <2>1, <2>2 DEF Settled
<1>4. CASE /\ pod = NoPod /\ podEvents # <<>> /\ podEvents[Len(podEvents)].pod.owner = set.uid
           /\ podCache.owner # set.uid
  <2>1. CASE ListPods
    BY <1>4, <2>1 DEF ListPods
  <2>2. CASE PodEvent
    <3>1. podEvents' = Tail(podEvents) /\ pod' = pod
      BY <2>2 DEF PodEvent
    <3>2. podEvents \in Seq(Events(podUid, setUid))
      BY DEF TypeOK
    <3>3. Head(podEvents) \in Events(podUid, setUid)
      BY <1>4, <3>2, HeadTailProperties
    <3>4. /\ Head(podEvents) = podEvents[1] /\ 1 \in DOMAIN podEvents
          /\ Tail(podEvents) = <<>> <=> Len(podEvents) = 1
          /\ Tail(podEvents) # <<>>
               => Tail(podEvents)[Len(Tail(podEvents))] = podEvents[Len(podEvents)]
      BY <1>4, <3>2, <3>3, SeqSteps
    <3>5. CASE Tail(podEvents) # <<>>
      BY <1>4, <3>1, <3>4, <3>5 DEF Settled
    <3>6. CASE Tail(podEvents) = <<>>
      <4>1. podEvents[1].pod.owner = set.uid /\ After(podEvents[1]) = NoPod
        BY <1>4, <3>4, <3>6 DEF PodStream
      <4>2. podEvents[1].gone
        BY <1>0, <4>1 DEF After
      <4>3. podEvents[1].pod = podCache
        BY <3>4, <4>2 DEF PodStream, Before
      <4> QED
        BY <1>4, <4>1, <4>3
    <3> QED
      BY <3>5, <3>6
  <2> QED
    BY <2>1, <2>2
<1>5. CASE pod = NoPod /\ podEvents # <<>> /\ podCache.owner = set.uid
  <2>1. podCache' # podCache
    <3>1. CASE ListPods
      BY <1>0, <1>5, <3>1 DEF ListPods
    <3>2. CASE PodEvent
      <4>1. podCache' = After(Head(podEvents))
        BY <3>2 DEF PodEvent, After
      <4>2. podEvents \in Seq(Events(podUid, setUid))
        BY DEF TypeOK
      <4>3. Head(podEvents) \in Events(podUid, setUid)
        BY <1>5, <4>2, HeadTailProperties
      <4>4. Head(podEvents) = podEvents[1] /\ 1 \in DOMAIN podEvents
        BY <1>5, <4>2, <4>3, SeqSteps
      <4>5. IF podEvents[1].gone THEN podEvents[1].pod = podCache
            ELSE podEvents[1].pod # podCache
        BY <4>4 DEF PodStream, Before
      <4> QED
        BY <1>0, <1>5, <4>1, <4>4, <4>5 DEF After
    <3> QED
      BY <3>1, <3>2
  <2> QED
    BY <1>1, <1>5, <2>1
<1> QED
  BY <1>0, <1>1, <1>2, <1>3, <1>4, <1>5 DEF Settled

\* The steps of a sync that goes on for the set keep it awake: the sync ends
\* with the key in the queue, or with the pod claimed.
LEMMA AwakeWorker ==
  ASSUME WakeInv, TypeOK', PodStream', SyncState', Stays, set' = set, w # Idle,
         Worker, ~ Sync, ~ unseen
  PROVE  Waking' \/ Claims' \/ Settled'
<1>1. /\ TypeOK /\ PodStream /\ SetStream /\ Deletions /\ SyncState /\ StaleSync /\ LateOwner
      /\ Awake
  BY DEF WakeInv
<1>2. synced = {"sets", "pods"} /\ [Next]_vars /\ ~ Restart
  <2>1. Restart => ops' = ops + 1
    BY DEF Restart
  <2>2. UNCHANGED ops /\ ops \in Nat
    BY <1>1, ControllerAssumption DEF Worker, ReleasePod, CanAdopt, AdoptPod, UpdateStatefulSet,
         WriteStatus, TypeOK
  <2> QED
    BY <1>1, <2>1, <2>2 DEF SyncState, Next
<1>3. CASE Waking
  BY <1>1, <1>2, <1>3, WakingStays
<1>4. CASE w.view.uid # set.uid
  <2>1. Waking
    BY <1>1, <1>4 DEF StaleSync, Waking
  <2> QED
    BY <1>3, <2>1
<1>5. /\ UNCHANGED <<setCache, podCache, podNotes, synced, unseen>>
      /\ w' # Idle => w'.view = w.view /\ w'.pod = w.pod
  BY <1>1, SyncProceeds
<1>6. CASE queued'
  BY <1>6 DEF Waking, Told
<1>7. w \in Syncs(podUid, setUid) /\ podUid \in Nat /\ setUid \in Nat
  BY <1>1, SyncFields DEF TypeOK
<1> SUFFICES ASSUME ~ Waking, w.view.uid = set.uid, ~ queued'
             PROVE  Claims' \/ Settled'
  BY <1>3, <1>4, <1>6
<1>8. ~ w.view.deleting
  BY <1>1 DEF Deletions, KnownDeletion, Stays
<1>9. CASE ReleasePod
  <2>1. w' = [w EXCEPT !.pc = "update"] /\ w.pc = "release"
    BY <1>9 DEF ReleasePod
  <2>2. w'.pc = "update" /\ w'.view = w.view /\ w'.claimed = w.claimed
    BY <1>7, <2>1, SyncMoves
  <2>3. ~ w.claimed /\ w' # Idle
    BY <1>1, <2>1, <2>2 DEF SyncState, Idle
  <2> QED
    BY <2>2, <2>3 DEF Claims
<1>10. CASE CanAdopt
  <2>1. w' = [w EXCEPT !.pc = "adopt"] /\ w.pc = "check"
    BY <1>10 DEF CanAdopt, Requeue
  <2>2. w'.pc = "adopt" /\ w'.view = w.view /\ w'.claimed = w.claimed
    BY <1>7, <2>1, SyncMoves
  <2>3. ~ w.claimed /\ w' # Idle
    BY <1>1, <2>1, <2>2 DEF SyncState, Idle
  <2> QED
    BY <2>2, <2>3 DEF Claims
<1>11. CASE AdoptPod
  <2>1. w.pc = "adopt" /\ ~ w.claimed /\ w.pod.owner = 0 /\ set.uid # 0
    BY <1>1, <1>11 DEF AdoptPod, SyncState, Stays, TypeOK, Sets
  <2>2. CASE PodBecomes([pod EXCEPT !.owner = w.view.uid])
    <3>1. pod'.owner = set.uid /\ pod'.uid = pod.uid
      BY <1>1, <2>2 DEF PodBecomes, TypeOK, Pods
    <3>2. podCache.owner # set.uid
      BY <1>1, <2>1 DEF LateOwner
    <3> QED
      BY <1>5, <3>1, <3>2 DEF Settled
  <2>3. CASE w' = [w EXCEPT !.pc = "update"]
    <3>1. w'.pc = "update" /\ w'.view = w.view /\ w'.claimed = w.claimed
      BY <1>7, <2>3, SyncMoves
    <3>2. w' # Idle
      BY <3>1 DEF Idle
    <3> QED
      BY <2>1, <3>1, <3>2 DEF Claims
  <2> QED
    BY <1>11, <2>2, <2>3 DEF AdoptPod, Requeue
\* The pod has been claimed, and the cache had shown it, or it has just been
\* created and the cache will.
<1>12. CASE UpdateStatefulSet
  <2>1. CASE w.claimed /\ UNCHANGED <<pod, podEvents>>
    <3>1. Settled
      BY <1>1, <1>2, <2>1 DEF Awake, Claims
    <3> QED
      BY <1>5, <2>1, <3>1 DEF Settled
  <2>2. CASE PodBecomes(NewPod(podUid + 1, w.view.uid))
    <3>1. pod'.owner = set.uid /\ pod'.uid = podUid + 1
      BY <2>2 DEF PodBecomes, NewPod
    <3>2. podCache.uid \in 0 .. podUid
      BY <1>1 DEF TypeOK, Pods
    <3>3. podCache.uid # pod'.uid
      BY <1>7, <3>1, <3>2
    <3> QED
      BY <1>5, <3>1, <3>3 DEF Settled
  <2> QED
    BY <1>8, <1>12, <2>1, <2>2 DEF UpdateStatefulSet, Requeue
<1>13. CASE WriteStatus
  <2>1. w.claimed /\ UNCHANGED <<pod, podEvents>>
    BY <1>1, <1>8, <1>13 DEF WriteStatus, SyncState
  <2>2. Settled
    BY <1>1, <1>2, <2>1 DEF Awake, Claims
  <2> QED
    BY <1>5, <2>1, <2>2 DEF Settled
<1> QED
  BY <1>9, <1>10, <1>11, <1>12, <1>13 DEF Worker

\* A lost watch is not made good, but by a restart.
LEMMA UnseenStays ==
  ASSUME TypeOK, [Next]_vars, ~ Restart, unseen
  PROVE  unseen'
<1>1. CASE Worker
  BY <1>1 DEF Worker, Sync, ReleasePod, CanAdopt, AdoptPod, UpdateStatefulSet, WriteStatus
<1>2. CASE Cluster
  BY <1>2 DEF Cluster, Kubelet, CollectPod, FinalizeSet
<1>3. CASE Users
  BY <1>3 DEF Users, User, CreateSet, DeleteSet, DeletePod, RelabelPod
<1>4. CASE HandlePod \/ PodEvent \/ SetEvent \/ ListSets
  BY <1>4 DEF HandlePod, PodEvent, SetEvent, ListSets
<1>5. CASE ListPods
  BY <1>5 DEF ListPods
<1>6. CASE UNCHANGED vars
  BY <1>6 DEF vars
<1> QED
  BY <1>1, <1>2, <1>3, <1>4, <1>5, <1>6 DEF Next

\* Every step keeps a set that stays awake, or its pod settled.
LEMMA AwakeNext ==
  ASSUME WakeInv, TypeOK', PodStream', SetStream', SyncState', [Next]_vars
  PROVE  Awake'
<1> SUFFICES ASSUME Stays', "sets" \in synced', ~ unseen'
             PROVE  Waking' \/ Claims' \/ ("pods" \in synced' /\ Settled')
  BY DEF Awake
<1>0. /\ TypeOK /\ PodStream /\ SetStream /\ Deletions /\ SyncState /\ StaleSync /\ LateOwner
      /\ Awake
  BY DEF WakeInv
<1>1. ~ Restart /\ ~ unseen
  BY <1>0, UnseenStays DEF Restart, Started
<1>2. CASE "sets" \notin synced
  <2>1. ListSets
    BY <1>1, <1>2, SetKinds DEF SetEvent
  <2> QED
    BY <2>1 DEF ListSets, Waking, Told, Stays
<1>3. CASE "sets" \in synced /\ set' # set
  BY <1>0, <1>3, SetChangeTold DEF Waking
<1>4. ASSUME "sets" \in synced, set' = set
      PROVE  Waking' \/ Claims' \/ ("pods" \in synced' /\ Settled')
  <2>1. Stays
    BY <1>4 DEF Stays
  <2>2. "pods" \in synced => "pods" \in synced'
    BY <1>1, PodKinds DEF PodEvent, ListPods
  <2>3. CASE Sync
    <3>1. UNCHANGED <<pod, setEvents, podEvents, podCache, synced>> /\ synced = {"sets", "pods"}
      BY <2>3 DEF Sync, api, informers
    <3>2. CASE setEvents # <<>>
      BY <3>1, <3>2 DEF Waking, Told
    <3>3. CASE setEvents = <<>>
      <4>1. setCache = set
        BY <1>0, <1>4, <3>3 DEF SetStream
      <4>2. /\ w' # Idle /\ w'.view = set
            /\ w'.claimed = (podCache # NoPod /\ podCache.owner = set.uid /\ podCache.labelled)
        BY <1>0, <2>1, <2>3, <4>1, SyncBegins DEF Stays
      <4>3. CASE w'.claimed
        <5>1. podCache.uid # 0
          BY <1>0, <4>2, <4>3 DEF TypeOK, Pods
        <5> QED
          BY <1>4, <3>1, <4>2, <4>3, <5>1 DEF Settled
      <4>4. CASE ~ w'.claimed
        BY <1>4, <4>2, <4>4 DEF Claims
      <4> QED
        BY <4>3, <4>4
    <3> QED
      BY <3>2, <3>3
  <2>4. CASE Waking /\ ~ Sync
    BY <1>0, <1>1, <1>4, <2>1, <2>4, WakingStays
  <2>5. CASE Worker /\ ~ Sync
    <3>1. w # Idle /\ UNCHANGED synced
      BY <1>0, <2>5, SyncProceeds
    <3>2. "pods" \in synced'
      BY <1>0, <3>1 DEF SyncState
    <3> QED
      BY <1>0, <1>1, <1>4, <2>1, <2>5, <3>1, <3>2, AwakeWorker
  <2>6. CASE Claims /\ ~ Worker
    BY <1>1, <1>4, <2>6, SyncLeftAlone DEF Claims
  <2>7. ASSUME "pods" \in synced, Settled, ~ Worker
        PROVE  Waking' \/ Settled'
    <3>1. CASE PodEvent \/ ListPods
      BY <1>0, <1>4, <2>1, <2>7, <3>1, AwakeMoves
    <3>2. CASE Kubelet \/ CollectPod \/ DeletePod \/ RelabelPod
      BY <1>0, <1>4, <2>1, <2>7, <3>2, SettledStays
    <3>3. CASE UNCHANGED <<pod, podEvents, podCache>>
      BY <1>4, <2>7, <3>3 DEF Settled
    <3>4. UNCHANGED <<pod, podEvents, podCache>>
            \/ PodEvent \/ ListPods \/ Kubelet \/ CollectPod \/ DeletePod \/ RelabelPod
      <4>1. CASE HandlePod \/ SetEvent \/ ListSets
        BY <4>1 DEF HandlePod, SetEvent, ListSets, api
      <4>2. CASE FinalizeSet \/ CreateSet \/ DeleteSet
        BY <4>2 DEF FinalizeSet, CreateSet, DeleteSet, User, informers
      <4>3. CASE UNCHANGED vars
        BY <4>3 DEF vars
      <4> QED
        BY <1>1, <2>7, <4>1, <4>2, <4>3 DEF Next, Cluster, Users
    <3> QED
      BY <3>1, <3>2, <3>3, <3>4
  <2> QED
    BY <1>0, <1>1, <1>4, <2>1, <2>2, <2>3, <2>4, <2>5, <2>6, <2>7 DEF Awake, Worker
<1> QED
  BY <1>2, <1>3, <1>4

\* WakeInv is inductive.
LEMMA WakeNext ==
  ASSUME WakeInv, [Next]_vars
  PROVE  WakeInv'
<1>1. /\ TypeOK /\ PodStream /\ SetStream /\ Deletions /\ SyncState /\ StaleSync /\ LateOwner
      /\ Awake
  BY DEF WakeInv
<1>2. TypeOK'
  BY <1>1, TypeNext
<1>3. PodStream' /\ SetStream' /\ SyncState'
  BY <1>1, <1>2, PodStreamNext, SetStreamNext, SyncStateNext
<1>4. Deletions'
  BY <1>1, <1>2, DeletionsNext
<1>5. StaleSync'
  BY <1>1, <1>2, <1>3, StaleSyncNext
<1>6. LateOwner'
  BY <1>1, <1>2, LateOwnerNext
<1>7. Awake'
  BY <1>2, <1>3, AwakeNext
<1> QED
  BY <1>2, <1>3, <1>4, <1>5, <1>6, <1>7 DEF WakeInv

\* WakeInv holds at the start, when nothing is known.
LEMMA WakeInit == Init => WakeInv
<1> SUFFICES ASSUME Init PROVE WakeInv
  OBVIOUS
<1>1. TypeOK
  BY TypeInit
<1>2. synced = {} /\ w = Idle /\ setEvents = <<>> /\ podEvents = <<>> /\ setCache = NoSet
  BY DEF Init
<1>3. set.finalizer = "none"
  BY DEF Init, NewSet, NoSet
<1>4. Deletions
  BY <1>2, <1>3 DEF Deletions, KnownDeletion, NoSet
<1> QED
  BY <1>1, <1>2, <1>4
    DEF WakeInv, PodStream, SetStream, SyncState, StaleSync, LateOwner, Awake

\* No wake-up is lost, however many sets and pods of the name there have been,
\* however late the caches and the handlers are, and whatever users, restarts
\* and lost watches do: when nothing is on its way and nothing is queued, a set
\* that stays owns its pod, unless a lost watch has hidden whose pod it was
\* that went.
THEOREM QuietMeansOwned == Spec => []QuietOwned
<1>1. WakeInv /\ [Next]_vars => WakeInv'
  BY WakeNext
<1>2. WakeInv => QuietOwned
  <2> SUFFICES ASSUME WakeInv, Quiet, set # NoSet, ~ set.deleting, ~ unseen
               PROVE  Owned
    BY DEF QuietOwned
  <2>1. /\ synced = {"sets", "pods"} /\ w = Idle /\ ~ queued
        /\ setEvents = <<>> /\ podEvents = <<>> /\ podNotes = <<>>
    BY DEF Quiet
  <2>2. ~ Waking /\ ~ Claims
    BY <2>1 DEF Waking, Told, Claims
  <2>3. Settled
    BY <2>1, <2>2 DEF WakeInv, Awake, Stays
  <2>4. pod = podCache
    BY <2>1 DEF WakeInv, PodStream
  <2> QED
    BY <2>1, <2>3, <2>4 DEF Settled, Owned
<1> QED
  BY WakeInit, <1>1, <1>2, PTL DEF Spec

=============================================================================
