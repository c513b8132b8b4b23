------------------------ MODULE StatefulSetController ------------------------
(***************************************************************************)
(* The controller around the control loop (stateful_set.go): how it learns *)
(* of pods and sets, wakes up, and comes to own the pods it manages. One   *)
(* set name and one replica, over the life of several sets of that name    *)
(* and several pods of that name. Sets with other names have other keys    *)
(* and, since isMemberOf goes by the name, other pods.                     *)
(*                                                                         *)
(* An informer has a stream of events from the API server, the cache they  *)
(* are applied to, and the notifications that the event handlers have yet  *)
(* to see. What UpdateStatefulSet does for one replica is reduced to the   *)
(* creation of the missing pod and the number of pods in the status;       *)
(* StatefulSetControl has the rest. The resync that wakes up every set     *)
(* after hours is left out: the properties hold without it.                *)
(***************************************************************************)
EXTENDS Naturals, Sequences

CONSTANTS MaxOps,    \* bound on what users do, on lost watches and on restarts
          MaxStale   \* bound on the pods made and collected for a set that is
                     \* gone, while the controller has yet to hear of it

ASSUME ControllerAssumption == MaxOps \in Nat /\ MaxStale \in Nat

VARIABLES set, pod,               \* the objects in the API server
          setUid, podUid,         \* the last UIDs given out
          setEvents, podEvents,   \* the streams
          setCache, podCache,     \* the listers
          podNotes,               \* the notifications of pods to be handled
          synced,                 \* the informers that have listed
          queued,                 \* the set's key is in the work queue
          w,                      \* the sync in progress, or Idle
          unseen,                 \* a lost watch has hidden the owner of a pod
          ops                     \* how many there have been of MaxOps

api == <<set, pod, setUid, podUid, setEvents, podEvents>>
informers == <<setCache, podCache, podNotes, synced>>
vars == <<set, pod, setUid, podUid, setEvents, podEvents, setCache, podCache,
          podNotes, synced, queued, w, unseen, ops>>

-----------------------------------------------------------------------------
(* Objects. A set that is being deleted waits for a finalizer, which names  *)
(* what becomes of its pods. Of its status there is the number of pods.     *)

NoSet == [uid |-> 0, deleting |-> FALSE, finalizer |-> "none", replicas |-> 0]
NoPod == [uid |-> 0, owner |-> 0, labelled |-> FALSE, terminating |-> FALSE]

NewSet(uid) == [NoSet EXCEPT !.uid = uid]
NewPod(uid, owner) ==
  [uid |-> uid, owner |-> owner, labelled |-> TRUE, terminating |-> FALSE]

\* The streams of informers that have not listed yet carry nothing.
SetBecomes(s) ==
  /\ set' = s
  /\ setEvents' = IF s = set \/ "sets" \notin synced THEN setEvents
                  ELSE Append(setEvents, s)

\* A deletion is told with the pod's last state.
PodBecomes(p) ==
  /\ pod' = p
  /\ podEvents' = IF p = pod \/ "pods" \notin synced THEN podEvents
                  ELSE Append(podEvents, IF p = NoPod THEN [pod |-> pod, gone |-> TRUE]
                                         ELSE [pod |-> p, gone |-> FALSE])

-----------------------------------------------------------------------------
(* Event handlers. *)

\* resolveControllerRef: by name, then the UID is verified.
resolveControllerRef(owner) == owner # 0 /\ setCache.uid = owner

\* The lister's sets that select the pod by its labels; none is an error, and
\* then there is nobody to wake up.
GetPodStatefulSets(p) == {s \in {setCache} : s # NoSet /\ p.labelled}
getStatefulSetsForPod(p) == GetPodStatefulSets(p) # {}

\* A pod that is first seen while it terminates goes to deletePod.
addPod(p) ==
  IF p.terminating \/ p.owner # 0 THEN resolveControllerRef(p.owner)
  ELSE getStatefulSetsForPod(p)

\* Mutant: only the set that owns the pod now is told of a change.
updatePodCurrentOnly(old, cur) == old # cur /\ resolveControllerRef(cur.owner)

\* A resync repeats a pod as it is. An owner that has changed is told, and so
\* is the one there is now; an orphan is offered to the sets that select it.
updatePod(old, cur) ==
  /\ old # cur
  /\ \/ old.owner # cur.owner /\ resolveControllerRef(old.owner)
     \/ cur.owner # 0 /\ resolveControllerRef(cur.owner)
     \/ /\ cur.owner = 0
        /\ old.labelled # cur.labelled \/ old.owner # cur.owner
        /\ getStatefulSetsForPod(cur)

\* "No controller should care about orphans being deleted."
deletePod(p) == resolveControllerRef(p.owner)

\* The handlers see the notifications in order; the listers they use may
\* already be ahead of them.
HandlePod ==
  /\ podNotes # <<>>
  /\ LET n == Head(podNotes)
         wakes == CASE n.kind = "add" -> addPod(n.cur)
                    [] n.kind = "update" -> updatePod(n.old, n.cur)
                    [] n.kind \in {"delete", "tombstone"} -> deletePod(n.old)
     IN  queued' = (queued \/ wakes)
  /\ podNotes' = Tail(podNotes)
  /\ UNCHANGED <<api, setCache, podCache, synced, w, unseen, ops>>

-----------------------------------------------------------------------------
(* Informers (client-go, external). *)

PodEvent ==
  /\ podEvents # <<>>
  /\ LET e == Head(podEvents)
     IN  /\ podCache' = IF e.gone THEN NoPod ELSE e.pod
         /\ podNotes' = Append(podNotes,
              [kind |-> IF e.gone THEN "delete"
                        ELSE IF podCache = NoPod THEN "add" ELSE "update",
               old |-> IF e.gone THEN e.pod ELSE podCache,
               cur |-> IF e.gone THEN NoPod ELSE e.pod])
  /\ podEvents' = Tail(podEvents)
  /\ UNCHANGED <<set, pod, setUid, podUid, setEvents, setCache, synced,
                 queued, w, unseen, ops>>

\* Every change of the set, whatever it is, enqueues the key. That the handler
\* may be late is left out: it would only wake up the set once more.
SetEvent ==
  /\ setEvents # <<>>
  /\ setCache' = Head(setEvents)
  /\ setEvents' = Tail(setEvents)
  /\ queued' = TRUE
  /\ UNCHANGED <<set, pod, setUid, podUid, podEvents, podCache, podNotes, synced,
                 w, unseen, ops>>

\* An informer lists when it starts, and again when its watch breaks and the
\* events since are no longer kept: the events of the stream are lost, and the
\* difference between the cache and the list is told instead. A pod that is
\* gone is told as the cache has it, which need not be with its last owner,
\* and a pod that came and went is not told at all.
Relists(informer) ==
  IF informer \in synced THEN ops < MaxOps /\ ops' = ops + 1 ELSE UNCHANGED ops

ListPods ==
  /\ Relists("pods")
  /\ podEvents' = <<>>
  /\ podCache' = pod
  /\ podNotes' =
       IF pod = NoPod
       THEN IF podCache = NoPod THEN podNotes
            ELSE Append(podNotes, [kind |-> "tombstone", old |-> podCache, cur |-> NoPod])
       ELSE Append(podNotes, [kind |-> IF podCache = NoPod THEN "add" ELSE "update",
                              old |-> podCache, cur |-> pod])
  /\ unseen' = \/ unseen
               \/ /\ pod = NoPod /\ podEvents # <<>>
                  /\ podEvents[Len(podEvents)].pod.owner # podCache.owner
  /\ synced' = synced \union {"pods"}
  /\ UNCHANGED <<set, pod, setUid, podUid, setEvents, setCache, queued, w>>

ListSets ==
  /\ Relists("sets")
  /\ setEvents' = <<>>
  /\ setCache' = set
  /\ queued' = (queued \/ set # NoSet \/ setCache # NoSet)
  /\ synced' = synced \union {"sets"}
  /\ UNCHANGED <<set, pod, setUid, podUid, podEvents, podCache, podNotes, w,
                 unseen>>

-----------------------------------------------------------------------------
(* The worker. *)

Idle == [pc |-> "idle"]

Live(uid) == set.uid = uid /\ ~ set.deleting

\* Mutant: a failed sync is forgotten.
RequeueForgotten ==
  /\ w' = Idle
  /\ UNCHANGED queued

\* processNextWorkItem after an error: AddRateLimited.
Requeue ==
  /\ w' = Idle
  /\ queued' = TRUE

(* ClaimPods and ClaimObject of the PodControllerRefManager, for the one    *)
(* pod of the name: what the sync f has to call for it.                     *)
Ours(f) == f.pod # NoPod /\ f.pod.owner = f.view.uid
ToRelease(f) == Ours(f) /\ ~ f.pod.labelled /\ ~ f.view.deleting
ToAdopt(f) ==
  /\ f.pod # NoPod /\ f.pod.owner = 0
  /\ ~ f.view.deleting /\ f.pod.labelled /\ ~ f.pod.terminating

ClaimPods(f) ==
  [f EXCEPT !.pc = CASE ToRelease(f) -> "release"
                     [] ToAdopt(f) -> "check"
                     [] OTHER -> "update",
            !.claimed = Ours(f) /\ f.pod.labelled]

\* Run waits for the informers before it starts the workers. A set that is
\* not in the cache needs nothing.
Sync ==
  /\ synced = {"sets", "pods"}
  /\ queued /\ w = Idle
  /\ queued' = FALSE
  /\ w' = IF setCache = NoSet THEN Idle
          ELSE ClaimPods([pc |-> "claim", view |-> setCache, pod |-> podCache,
                          claimed |-> FALSE, wasLive |-> Live(setCache.uid)])
  /\ UNCHANGED <<api, informers, unseen, ops>>

\* A pod that is gone, replaced or released already is no error.
ReleasePod ==
  /\ w.pc = "release"
  /\ PodBecomes(IF pod.uid = w.pod.uid /\ pod.owner = w.view.uid
                THEN [pod EXCEPT !.owner = 0] ELSE pod)
  /\ w' = [w EXCEPT !.pc = "update"]
  /\ UNCHANGED <<set, setUid, podUid, setEvents, informers, queued, unseen, ops>>

\* Mutant: the cached set is believed.
CanAdoptCached ==
  /\ w.pc = "check"
  /\ w' = [w EXCEPT !.pc = "adopt"]
  /\ UNCHANGED <<api, informers, queued, unseen, ops>>

\* canAdoptFunc: the set must still be there, with its UID and not being
\* deleted, in a read that no cache answers.
CanAdopt ==
  /\ w.pc = "check"
  /\ IF Live(w.view.uid)
     THEN w' = [w EXCEPT !.pc = "adopt"] /\ UNCHANGED queued
     ELSE Requeue
  /\ UNCHANGED <<api, informers, unseen, ops>>

\* The patch names the pod's UID, and a second controller is not valid.
AdoptPod ==
  /\ w.pc = "adopt"
  /\ \/ /\ pod.uid = w.pod.uid /\ pod.owner \in {0, w.view.uid}
        /\ PodBecomes([pod EXCEPT !.owner = w.view.uid])
        /\ w' = [w EXCEPT !.pc = "update", !.claimed = TRUE]
        /\ UNCHANGED queued
     \/ /\ pod = NoPod
        /\ w' = [w EXCEPT !.pc = "update"]
        /\ UNCHANGED <<pod, podEvents, queued>>
     \/ /\ pod # NoPod
        /\ pod.uid # w.pod.uid \/ pod.owner \notin {0, w.view.uid}
        /\ Requeue
        /\ UNCHANGED <<pod, podEvents>>
  /\ UNCHANGED <<set, setUid, podUid, setEvents, informers, unseen, ops>>

\* The status has changed and is to be written, or the sync is over.
Counted(f) ==
  IF f.view.replicas = (IF f.claimed THEN 1 ELSE 0) THEN Idle
  ELSE [f EXCEPT !.pc = "status"]

\* UpdateStatefulSet for the one replica: a pod that is missing is created,
\* and a name that is in use is an error.
UpdateStatefulSet ==
  /\ w.pc = "update"
  /\ \/ /\ w.view.deleting \/ w.claimed
        /\ w' = Counted(w)
        /\ UNCHANGED <<pod, podEvents, podUid, queued>>
     \/ /\ ~ w.view.deleting /\ ~ w.claimed
        /\ pod = NoPod
        /\ podUid' = podUid + 1
        /\ PodBecomes(NewPod(podUid + 1, w.view.uid))
        /\ w' = Counted([w EXCEPT !.claimed = TRUE])
        /\ UNCHANGED queued
     \/ /\ ~ w.view.deleting /\ ~ w.claimed
        /\ pod # NoPod
        /\ Requeue
        /\ UNCHANGED <<pod, podEvents, podUid>>
  /\ UNCHANGED <<set, setUid, setEvents, informers, unseen, ops>>

\* The status is written onto the set that was read or, after a conflict,
\* onto the cached set of that name.
WriteStatus ==
  /\ w.pc = "status"
  /\ \/ /\ set # NoSet /\ set \in {w.view, setCache}
        /\ SetBecomes([set EXCEPT !.replicas = IF w.claimed THEN 1 ELSE 0])
        /\ w' = Idle
        /\ UNCHANGED queued
     \/ /\ set = NoSet \/ set \notin {w.view, setCache}
        /\ Requeue
        /\ UNCHANGED <<set, setEvents>>
  /\ UNCHANGED <<pod, setUid, podUid, podEvents, informers, unseen, ops>>

-----------------------------------------------------------------------------
(* Everyone else: the kubelet, the garbage collector and users (external). *)

Kubelet ==
  /\ pod.terminating
  /\ PodBecomes(NoPod)
  /\ UNCHANGED <<set, setUid, podUid, setEvents, informers, queued, w, unseen, ops>>

\* The pods of a set that is gone, or deleted in the foreground, go; the pods
\* of a set that is deleted with the orphan policy lose their owner.
CollectPod ==
  /\ pod.owner # 0
  /\ \/ /\ pod.owner # set.uid \/ set.finalizer = "foreground"
        /\ ~ pod.terminating
        /\ podUid <= MaxStale \/ setEvents = <<>>
        /\ PodBecomes([pod EXCEPT !.terminating = TRUE])
     \/ /\ pod.owner = set.uid /\ set.finalizer = "orphan"
        /\ PodBecomes([pod EXCEPT !.owner = 0])
  /\ UNCHANGED <<set, setUid, podUid, setEvents, informers, queued, w, unseen, ops>>

FinalizeSet ==
  /\ set.deleting
  /\ pod.owner # set.uid
  /\ SetBecomes(NoSet)
  /\ UNCHANGED <<pod, setUid, podUid, podEvents, informers, queued, w, unseen, ops>>

User ==
  /\ ops < MaxOps
  /\ ops' = ops + 1
  /\ UNCHANGED <<informers, queued, w, unseen>>

CreateSet ==
  /\ User
  /\ set = NoSet
  /\ setUid' = setUid + 1
  /\ SetBecomes(NewSet(setUid + 1))
  /\ UNCHANGED <<pod, podUid, podEvents>>

DeleteSet ==
  /\ User
  /\ set # NoSet /\ ~ set.deleting
  /\ \/ SetBecomes(NoSet)
     \/ \E f \in {"orphan", "foreground"} :
          SetBecomes([set EXCEPT !.deleting = TRUE, !.finalizer = f])
  /\ UNCHANGED <<pod, setUid, podUid, podEvents>>

DeletePod ==
  /\ User
  /\ pod # NoPod /\ ~ pod.terminating
  /\ PodBecomes([pod EXCEPT !.terminating = TRUE])
  /\ UNCHANGED <<set, setUid, podUid, setEvents>>

RelabelPod ==
  /\ User
  /\ pod # NoPod
  /\ PodBecomes([pod EXCEPT !.labelled = ~ @])
  /\ UNCHANGED <<set, setUid, podUid, setEvents>>

\* Start-up: nothing is known and nothing is queued.
Started ==
  /\ setCache' = NoSet /\ podCache' = NoPod
  /\ podNotes' = <<>>
  /\ setEvents' = <<>> /\ podEvents' = <<>>
  /\ synced' = {}
  /\ queued' = FALSE
  /\ w' = Idle
  /\ unseen' = FALSE

\* The process ends, or loses its lease, which ends it too; another one
\* takes over.
Restart ==
  /\ ops < MaxOps
  /\ ops' = ops + 1
  /\ Started
  /\ UNCHANGED <<set, pod, setUid, podUid>>

-----------------------------------------------------------------------------
\* A set has just been created; its pod may be there already, left by another
\* set that was deleted with the orphan policy.
Init ==
  /\ set = NewSet(1) /\ setUid = 1
  /\ pod \in {NoPod, NewPod(1, 0)} /\ podUid = pod.uid
  /\ setCache = NoSet /\ podCache = NoPod
  /\ podNotes = <<>>
  /\ setEvents = <<>> /\ podEvents = <<>>
  /\ synced = {} /\ queued = FALSE /\ w = Idle
  /\ unseen = FALSE
  /\ ops = 0

Worker ==
  \/ Sync \/ ReleasePod \/ CanAdopt \/ AdoptPod
  \/ UpdateStatefulSet \/ WriteStatus

Cluster == Kubelet \/ CollectPod \/ FinalizeSet

Users == CreateSet \/ DeleteSet \/ DeletePod \/ RelabelPod

Next ==
  \/ Worker \/ HandlePod
  \/ PodEvent \/ SetEvent \/ ListPods \/ ListSets
  \/ Cluster \/ Users \/ Restart

Spec == Init /\ [][Next]_vars

\* Workers, handlers and informers run, and the cluster does its part. An
\* informer that has listed need not list again, nobody need restart, and
\* users need not do anything.
Fairness ==
  /\ WF_vars(Worker) /\ WF_vars(HandlePod)
  /\ WF_vars(PodEvent) /\ WF_vars(SetEvent)
  /\ WF_vars("pods" \notin synced /\ ListPods)
  /\ WF_vars("sets" \notin synced /\ ListSets)
  /\ WF_vars(Kubelet) /\ WF_vars(CollectPod) /\ WF_vars(FinalizeSet)

FairSpec == Spec /\ Fairness
-----------------------------------------------------------------------------
(* Properties. *)

Owned == pod.uid # 0 /\ pod.owner = set.uid /\ pod.labelled

\* Nothing is on its way to the controller, and it has nothing to do.
Quiet ==
  /\ synced = {"sets", "pods"} /\ w = Idle /\ ~ queued
  /\ setEvents = <<>> /\ podEvents = <<>> /\ podNotes = <<>>

\* No wake-up is lost: the controller rests only when the set owns its pod,
\* whatever handlers have dropped because the set was not in the cache, was
\* another one of the name, or did not select the pod at the time. The
\* exception is what a lost watch hides: a pod is gone, and nobody has been
\* told who owned it in the end.
QuietOwned == Quiet /\ set # NoSet /\ ~ set.deleting => Owned \/ unseen

\* A pod is adopted only by a set that was there, and was not being deleted,
\* when the sync began, however old the cached set the sync works with: a pod
\* adopted by a set that is gone would be garbage.
AdoptionFresh == [][AdoptPod /\ pod'.owner # pod.owner => w.wasLive]_vars

\* A pod whose labels the user has taken away keeps the set's pod from being
\* created; the controller retries for as long as it exists.
NameInUse == pod # NoPod /\ ~ pod.labelled

\* Whatever users, restarts and lost watches have done, a set that stays
\* comes to own its pod and keeps it.
OwnsInTheEnd == <>[](set = NoSet \/ set.deleting \/ Owned \/ NameInUse \/ unseen)
=============================================================================
