# A TLA+ model of the Advanced StatefulSet controller

The Advanced StatefulSet is a fork of the StatefulSet of Kubernetes. What it
adds are *delete slots*: an annotation that lists ordinals the set must not
use, so that a set can be scaled in at any pod. This directory models the
controller, the delete slots, the upgrade from builtin sets and the client that
stands in for the builtin one in TLA+, checks the models with TLC and proves
most of their safety properties with TLAPS.

## The system

| Part | State | Operations | Talks to |
|---|---|---|---|
| delete-slot helpers, `pkg/apis/apps/v1/helper/helper.go` | none (the annotation of the set) | get, set, add slots; ordinals in use; first and last ordinal | called by the controller and by clients |
| StatefulSet control, `pkg/controller/statefulset/stateful_set_control.go`, `stateful_set_utils.go` | none between syncs; inside a sync: the plan, the counters of the status | revisions, creation, repair, scale in, rolling update, status, history | pod control, status updater, history |
| pod control, `stateful_pod_control.go` | none | create claims and pod, restore identity, delete | API server, claim and pod caches |
| status updater, `stateful_set_status_updater.go` | none | write the status, retry on conflict | API server, set cache |
| controller, `stateful_set.go` | work queue | event handlers, workers, sync, adoption | informers, all of the above |
| revision history, `vendor/.../controller_history.go` | none | list, create, renumber, delete, adopt revisions | API server, revision cache |
| upgrade, `helper/upgrade.go` | none | marks revisions, creates the advanced set, deletes the builtin one | two API groups, the builtin controller |
| hijack client, `helper/hijack.go` | a watch goroutine, its channel | builtin StatefulSet client on top of advanced sets | API server |
| defaults, `v1/defaults.go`, `v1/zz_generated.defaults.go` | none | fill in what a spec leaves out | called by the hijack client |
| `v1alpha1` | as above | an older copy of types, defaults, helpers and hijack client | - |
| controller manager, generated clients, informers, listers | flags, leases, caches | start-up, leader election, list and watch | everything |

What is hard in this system is that the controller never reads the truth. It
reads four informer caches (sets, pods, claims, revisions), each a watch stream
that lags by any amount and independently of the others; it plans a whole sync
from one reading; and it carries the plan out by single calls between which
users, the kubelet, the garbage collector and the API server go on. A call may
fail, a reply may be lost, the controller may stop between any two calls. What
happens next depends on the queue: a key comes back after an error or an event,
and only then. Nothing watches the claims and the revisions at all.

An upgrade is hard because three controllers (the builtin one, the advanced one
and the garbage collector) react to each of its calls, and because it may stop
after any of them. The hijack client is hard because its watch is a goroutine
between a source that ends when it likes and a reader that stops when it likes.

What makes each part correct:

* delete slots: the ordinals in use are the first `spec.replicas` naturals that
  are not slots, and a scale operation moves no pod that it is not about;
* control: pods are created, removed and updated in order; an update is
  declared complete only when it is; revisions that are needed are kept;
* pod control: no pod without its claims;
* status: it can be trusted once `observedGeneration` has caught up, and it is
  exact when the controller comes to rest;
* controller: it does not stop short of its goal, and it reaches it; no wake-up
  is lost; a pod is adopted only for a set that is alive;
* upgrade: no revision in use is lost, and everything changes hands;
* hijack client: its watch is a watch, and its writes change what they are
  asked to change and nothing else.

## The modules

| Module | Models | Checked in | Proved in |
|---|---|---|---|
| `DeleteSlots` | `helper.go` as operators | all runs of sets | `DeleteSlotsProofs` |
| `DeleteSlotsLoop` | `GetMaxReplicaCountAndDeleteSlots` as the loop it is | `ScaleByOrdinal` | `DeleteSlotsProofs` |
| `ScaleByOrdinal` | a user who scales with these helpers, and the loop that the controller runs after each update | itself | `DeleteSlotsProofs` |
| `StatefulSetControl` | one set, its control loop, the API server, the caches, the cluster and the user | `MCStatefulSetControl` | `StatefulSetControlProofs`, `StatefulSetRevisionsProofs`, `StatefulSetQuietProofs`, `StatefulSetOrderProofs` |
| `StatefulSetController` | informers, event handlers, queue, adoption of pods, over several sets and pods of one name | itself | `StatefulSetControllerProofs` |
| `Upgrade` | `upgrade.go` call by call, adoption of revisions, the builtin controller | `MCUpgrade` | `UpgradeProofs` |
| `Defaults` | the defaulting functions of v1 and v1alpha1 | `HijackClient` | `HijackClientProofs` |
| `HijackClient` | `hijack.go` of v1 and v1alpha1, the typed client, an informer on top | `MCHijackClient` | `HijackClientProofs` |
| `WatchContract` | what a user of a watch relies on (abstract) | `HijackClient` implements it | `HijackClientProofs` |

`DeleteSlots` is used by `ScaleByOrdinal` and `StatefulSetControl`, `Defaults`
by `HijackClient`. `StatefulSetController` and `Upgrade` contain the control
loop of `StatefulSetControl` reduced to one replica: their subject is what
happens around it.

### DeleteSlots, DeleteSlotsLoop, ScaleByOrdinal

An annotation is a record: absent, malformed or a list with its set of numbers.
`GetDeleteSlots` takes the first two for "none". The int32 counter of the loop
wraps around at `MaxInt32`, which is a constant so that TLC reaches it.
`DeleteSlotsLoop` has a state for every round of the loop. The other modules use
`GetMaxReplicaCountAndDeleteSlots`, a fold that visits the least slot first and
so does the same rounds in the sorted order of `List()`; `OrdinalsAreFirstFree`
states what it gives. `ScaleByOrdinal` starts from every annotation, malformed
text and slots out of range included, and takes the operations that the
repository's README describes, and the undoing of one.

### StatefulSetControl

State and code:

| Variable | Stands for |
|---|---|
| `set`, `pods`, `claims`, `revs` | the objects on the API server; `revs[t]` is the `Revision` number of the ControllerRevision made from template `t`, 0 if there is none |
| `setCache`, `podCache`, `claimCache`, `revCache` | the informers' stores |
| `events` | the streams, set or pods, with changes that have not been delivered |
| `queued` | the set's key is in the work queue |
| `w` | the sync in progress: the set, pods and revisions it read, and the local variables of `updateStatefulSet` |
| `edits`, `faults` | counters for the bounds |

Actions and code: `Sync` is `processNextWorkItem` and `sync` up to the first
call; `KeepRevision`, `RollBack` and `CreateRevision` are the three branches of
`getStatefulSetRevisions`, each followed by the whole preparation of
`updateStatefulSet` (`StartPass`), which makes no call; `RecreateFailed`,
`CreateClaims`, `CreatePod`, `UpdatePod`, `DeleteCondemned` and
`DeleteOutdated` are the calls of its three loops; `EndPass` and `WriteStatus`
are `updateStatefulSetStatus`; `TruncateHistory` and `Finish` are
`truncateHistory`. Where the loops stand is computed, not stored: `AtReplica`,
`AtCondemned` and `AtUpdate` are the places where each loop stops next, and
`PassOver` is the union of all returns. `RefreshSet` and `RefreshPods` update a
cache and run the event handler; `RefreshClaims` and `RefreshRevisions` have no
handler. The kubelet and the garbage collector (`BecomeReady`, `Terminated`,
`CollectPod`), the user (`EditSet`, `DrainPod`, `RelabelPod`, `DropClaim`,
`DeleteSet`), and failures (`SyncBreaks`, `ClaimFails`, `PodFails`,
`PodUnready`) are the environment.

Why the abstraction is exact, and where it is not:

* A sync reads the sets, pods and revisions once, at its start. A refresh takes
  over the whole present state of a stream; a watch that delivers an older
  state is the same as a refresh that happened earlier, because the handlers
  only enqueue the key.
* A write with a resource version succeeds exactly when the object has not
  changed. The model compares contents. An object that changed and changed back
  would be taken for unchanged; generations, revision numbers and pod life
  cycles make that rare and harmless (the write is the same).
* `UpdateStatefulSetStatus` retries with the cached set: the write succeeds if
  the set on the server is the one the sync read, or the cached one. Otherwise
  the retries are used up and the key is put back. The same holds for
  `UpdateStatefulPod` with the cached pod. `UpdateControllerRevision` retries
  with the empty object that the client returns with the conflict, which is an
  error at once, so a conflict fails the sync.
* A failed call, a lost reply, a crash and a change of leader are all
  `SyncBreaks`: after it the key is in the queue, as it is after the first list
  of a new controller. The caches of the new one are assumed not to be older.
* Name collisions of revisions (`collisionCount`), labels other than the pod
  name, volumes (immutable once a pod exists, so `storageMatches` holds), the
  service and the contents of templates are not modelled.
* There is one set, it is in the cache from the start and does not leave it:
  deletion is foreground deletion, which keeps the set until its pods are gone.
  Sets that come and go are the subject of `StatefulSetController`.
* The periodic resync (12 hours by default) is not modelled. "Quiet" in the
  properties means: nothing happens before the next resync.

### StatefulSetController

| Variable | Stands for |
|---|---|
| `set`, `pod`, `setUid`, `podUid` | the set and the pod of the name, with the UIDs given out so far |
| `setEvents`, `podEvents` | the watch streams |
| `setCache`, `podCache`, `synced` | the listers, and the informers that have listed |
| `podNotes` | what the informer has still to tell the handlers; the lister may be ahead of it |
| `queued`, `w` | the work queue and the sync in progress |
| `unseen` | history: a lost watch has hidden the last owner of a pod that is gone |

`addPod`, `updatePod`, `deletePod`, `resolveControllerRef` and
`getStatefulSetsForPod` are operators that say whether the set is woken up.
`ListPods` and `ListSets` are the first list of an informer and the list after a
lost watch, which tells the difference only and makes tombstones. `Sync`,
`ReleasePod`, `CanAdopt`, `AdoptPod`, `UpdateStatefulSet` and `WriteStatus` are
the calls of a sync; `CanAdopt` is the uncached read. `Restart` is the end of the
process, and so also a lost lease (`klog.Fatalf`, app.go). Sets can be deleted
in the background, in the foreground or with their pods orphaned, and created
again. One name is enough: `isMemberOf` goes by the name, so sets with other
names share neither keys nor pods. `ReleasePod`, `CanAdopt` and `AdoptPod` are
`ClaimObject`, `ReleasePod` and `AdoptPod` of the vendored
`controller_ref_manager.go`, which is where this controller does them.

### Upgrade

One pod stands for all, at revision `Cur`; the template is at `Upd`, a rollout
held at its partition, so that both are in use; `Old` is a revision that may be
truncated. The constant `Oldest` says which of `Old` and `Cur` the history may
begin with, `MaxCrashes` how often `Upgrade` may be cut short. The selector is
taken to have labels to match and no expressions: `Upgrade` removes only the
former. `UpgradeLists` to `UpgradeDeletes` are the calls of `Upgrade`; an
error or a crash leads back to the start, as the comment of `Upgrade` demands
writes fail when the version has changed. The advanced controller works on
`revCache`; `syncLabels` also changes that cache, as the code does, whether or
not its update succeeds. `ListRevisions` has two parts, and a revision with the
selector's labels and the mark is in both; `AdoptOrphanRevisions` fails at the
first one that is owned already, and the order within a part is that of a Go
map, so a retry may get further. `BuiltinAdopts` is the builtin controller:
while `fixed` is false it adopts also when its set is being deleted (issue
84982). The garbage collector orphans what it found when the set was deleted.

### HijackClient, WatchContract, Defaults

`version` chooses the package, v1 or v1alpha1. Conversions keep everything but
the API version; `Defaults` keeps pointers as sets (`{}` is nil) and a template
as its parts, each complete or not, which is enough to see whether defaulting
changes it. The API server stores one set and a log of its events. The informer
lists, watches through `hijackWatch`, and watches again when the channel is
closed; the source below it, the vendored `StreamWatcher`, can be ended by the
server, with or without an ERROR event. `Admitted` applies the defaults of
`deployment/crd.v1.yaml`. `Receive`, `ReceiveReturns`, `CloseResult` and `Send` are the
goroutine of `receive`; `Send` is a meeting with the reader, since the channel
has no buffer. A reader stops by calling `Stop` and then reads on or does not.

`WatchContract` knows only the events so far, the state of a channel, how many
events the user knows and the last one it got. The refinement mapping takes the
log with every object decoded and converted as the history, and hides the
source, the event on its way and the goroutine. `ImplementsContract` thus says
that every event the reader gets is the next one, converted, in order.

## The runs

All bounds are small for a reason given here: ordering needs two or three
ordinals, staleness needs one action in flight per stream, and history needs a
template that is neither current nor new. `Lagging` names the caches that may
be stale when a sync starts; all of them may become stale during it.
`CHECK_DEADLOCK` is off where a controller or a reader at rest has nothing to
do; it is on in `scale_by_ordinal`, where a user can always scale, and in
`upgrade`, where the resync comes again and again.

| Run | Bounds | What it shows |
|---|---|---|
| `scale_by_ordinal` (570 states) | replicas 0..4, slots 0, 1, 2, 3, 5 (a gap) in all subsets, `MaxInt32` = 8 so that the counter wraps around | the loop invariant, its result, and that no scale operation moves another pod |
| `rollout` (2.05 M states) | 3 ordinals, one change (scale in at slot 1; or slot 0 and an update), all caches stale | types, honest `observedGeneration`, claims, revisions of the status spared, the right pods in the end |
| `orders` (2.12 M states) | 3 ordinals, 1 or 3 replicas with one of 2 templates, 3 changes, stale pods | creation, taking down and update in order; history at rest |
| `strategies` (2.47 M states) | 2 ordinals, 5 specs over 3 templates, both policies and both strategies with partitions 0, 2 and none, 2 changes, stale pods and revisions | roll backs and recreated revisions: the right pods and an exact status at rest, completion, update in order, partition, revisions of the pods spared |
| `faults` (1.16 M states) | 2 pods with 2 claims, creation and scale in to 0, 2 faults of 6 kinds, stale pods | the controller recovers, or ends in one of two dead ends (below); the status is exact in any case |
| `settles` (0.17 M states) | 2 pods, an update or a scale in to 0, one fault (failed call, failed pod, deletion), fresh caches, fairness | everything comes to its end; scale in is in order |
| `controller` (1.14 M states) | two of: user operations (create, delete in three ways, drain, relabel), lost watches, restarts; an orphan pod there at the start or not | no lost wake-up, fresh adoption, the set owns its pod in the end |
| `upgrade` (0.80 M states) | one crash at any point, or `Old`, with and without the fix of issue 84982, history limit 0 | the revisions in use survive, no early status, everything is handed over |
| `hijack` (0.37 M states) | both versions, two manifests, three writes, two watches ended by the server | the watch contract, the template is kept, the reader converges, `Stop` closes the channel |

Two operations are enough in `controller`: each finding about a wake-up needs one
operation to make the controller's picture wrong and one more to make it matter.
`MaxStale` bounds a loop of the real system: while the controller has not heard
that a set is gone it may create a pod for it, which is collected, and create it
again. In `hijack` three writes reach the case of a set that is created, changed
and deleted, and a watch that breaks between any two of them. A crash
and `Old` together are too many states for a run, so `MCUpgrade` starts from one
or the other (`BoundedInit`); the theorems of `UpgradeProofs` cover both.

The dead ends that `QuietPods` allows are `ScaleInHalted`, two condemned pods
that have failed (each must be the first unhealthy one to be removed), and
`ClaimLost`, a pod whose claim was deleted while the claim cache still showed
it. The model shows that there are no others with these faults.

What a pass may promise about the order of the pods, when the pods it decides on
are those of a stale cache, is weaker than what the comments say. `CreateInOrder`,
`TakeDownInOrder` and `UpdateInOrder` say what remains: the sync has seen the
other pods serve, and a pod that has stopped since then is gone or going, not
starting again. `PodRevisionsSpared` and `StatusRevisionsSpared` say in the same
way which revisions may be lost: that of a pod the sync has not seen, or has seen
go, and one that a newer status names, with another sync due. Each is checked
with the caches stale that could break it. Two properties have no such form and
are checked with the caches in question fresh when a sync starts:
`ScaleDownInOrder` (fresh pods) and `QuietHistory` (fresh revisions: nothing
watches them, so with stale ones a superfluous revision stays until something
else wakes the controller).

What the comments say is refuted on the instances of these very runs, with no
fault, when it is checked there instead (the first three in `orders`, the last in
`strategies`; `MCStatefulSetControl` states the promises that no run checks):

* `PredecessorsServe`: updateStatefulSet says that "for each Pod, when we create
  it, all of its predecessors [...] are Running and Ready"
  (`stateful_set_control.go:453`). A set of one replica is updated and scaled out;
  the pod cache of the sync that scales out still shows pod 0 serving, and pod 1
  is created while pod 0 is down.
* `ScaleDownInOrder`: it says that pods are terminated "in a monotonically
  decreasing order" (`:476`). After a scale out and in again the last pod is not
  in the cache yet, and the one before it is deleted first.
* `AtMostOneDown`: `types.go:67` says of OrderedReady that "at most one pod will
  be changed at any time". A template changed and changed back takes two replicas
  down at once.
* `PartitionRestored`: the end to end test says that a pod deleted during a
  rolling update is restored "without violating the Partition"
  (`test/e2e/apps/statefulset.go:286`). When the current revision is not in the
  revision cache, the update revision takes its place without an error, and a pod
  below the partition comes back at it.

### Where code and comments disagree

* `current_replicas_negative`: `status.currentReplicas` becomes -1 when the
  template is changed twice in a row; no staleness or failure is needed. The
  rolling update decrements the counter whatever the revision of the pod.
* `hijack_unreachable`: an ERROR event carries a `Status`, so the
  `panic("unreachable")` of `hijackWatch` is reached when the server says that
  the history a watch asks for has expired. `HandleCrash` lets the panic go on.
* `upgrade_labels`: `Upgrade` takes the selector's labels off the revisions, but
  `syncLabels` puts them back as soon as the first revision is an orphan, before
  it adopts any. On a Kubernetes without the fix of issue 84982 the builtin
  controller, its set still being deleted, adopts the revision again, and the
  garbage collector deletes it. With the fix, `RevisionsSurvive` holds.

What the models also show, each reproducible by changing constants or dropping a
named exception, without a run of its own:

* a negative number in the annotation counts as a slot and gives the set a pod
  more than `spec.replicas` (`Slots` with -1; `SaneArguments` excludes it);
* `deletePod` says that "No controller should care about orphans being deleted",
  but the tombstone of a lost watch shows the pod as the cache knew it, perhaps
  before its adoption or with a previous owner, and of a pod that comes and goes
  within a lost watch nothing is told: the set then lacks a pod until the next
  resync (`unseen`, the one exception of `QuietOwned`);
* the mark of `Upgrade` is never removed, so an upgraded revision is listed twice
  for ever: it counts twice against the history limit, revisions within the limit
  are deleted, and the second deletion fails the sync, which is repeated until
  the cache has caught up;
* if the advanced controller does not see the revisions yet when it first
  claims the pod, it takes the update revision for the current one and writes
  that over the `currentRevision` that `Upgrade` copied. The pod's revision is
  still live because of the pod;
* revisions have no event handler: when they become orphans after the pod was
  claimed, their adoption waits for the next event or the 12 h resync;
* a reader that calls `Stop` and never reads again leaves the goroutine of
  `hijackWatch` blocked if an event is on its way: the channel is not closed.

Two comments are wrong on reading and need no run: `completeRollingUpdate` says
that it clears the update revision and its counter and does not
(`stateful_set_utils.go:373-384`), and `OnDeleteStatefulSetStrategyType` says
that a scale out uses the current revision while new pods are built from the
update revision (`types.go:102-107`, `stateful_set_utils.go:263-274`).

### Fairness

In `StatefulSetControl`, `Fairness` has weak fairness of the worker as a whole
(`Run` restarts workers that end, a failed key is put back after a bounded
delay), of each watch stream (client-go reconnects and lists again), and of the
kubelet and the garbage collector for each pod. Nothing is assumed of users and
faults. Weak fairness is enough: a step of these actors, once possible, stays
possible until it or another of the same actor is taken, or what it was about is
gone. `StatefulSetController` assumes the same of the worker, the handlers (one
goroutine), the streams, the first list of each informer and the cluster; not of
restarts and of lists after a lost watch.

In `Upgrade` the caller retries (the comment of `Upgrade` makes that a duty), the
cluster and the controller go on, and the resync comes again and again (12 hours,
`genericcomponent.go`). Strong fairness is assumed of the adoption of each
revision, and is what the random order of a Go map gives: an attempt fails when
an owned revision comes before the orphan, and not every attempt does.

In `HijackClient` the goroutines that can run do run: the source's, the hijack's
and the reader's. Nobody has to write, to end a watch or to stop reading.

## The proofs

Each proof starts from an inductive invariant that TLC had checked on the
instances of the runs. The theorems hold for all constants that satisfy the
named assumptions of the modules; what else a theorem assumes is said here.

### Delete slots

`DeleteSlotsProofs`, for every number of replicas and every finite set of slots:

* `LoopCounts` and `ResultCorrect`: `Spec => []LoopInv`, `Spec =>
  []ResultIsFirstFree`. The inductive invariant is `TypeOK /\ LoopInv`: the
  counter equals the argument plus the slots kept, the slots kept lie below it,
  the dropped ones do not, and what is left to visit lies above everything
  visited. The last part, the sorted order, is what makes the others inductive:
  without it a later, smaller slot would fall below a counter that earlier,
  larger ones had been compared with. `SaneArguments` (no negative slot, no
  overflow) is part of the property.
* `OrdinalsAreFirstFree`: the operator that the control loop calls, the fold,
  gives the first free ordinals. What the fold computes is an induction over
  finite sets, here with a least counterexample (a family of subsets of a finite
  set has a minimal member, `MinimalSubset`), since the library's induction
  theorems cannot be used. That the function the fold is defined by exists at all
  is shown in the same way (`FoldUnfolds`).

Its second half takes this to the user's protocol of `ScaleByOrdinal`. `ScaleInv`
adds to `LoopInv` that the controller works with the slots of the present
annotation. From it follow `LoopThroughUpdates` (what the loop guarantees
survives any sequence of updates), `MinOrdinalIsFree`, and, since the first free
ordinals are unique (`FirstFreeUnique`), the three action properties
`ScaleInAtIsExact`, `ScaleAtEndIsExact` and `ScaleOutAtIsExact`: no scale
operation moves a pod that it is not about.

### The control loop

`StatefulSetControlProofs`, for all values that satisfy `ControlAssumption`:

* `TypeCorrect`: `Spec => []TypeOK`. `Creating` is added to make it inductive:
  when a sync is about to create a pod, the pod at its place has been built.
* `ObservedGenerationTrusted`: `Spec => []ObservedGenerationHonest`. The
  invariant `Generations` orders the generations of the recorded status, of the
  sync's copy, of the cache and of the truth, and says that copies with the
  present generation have the present template. The first is needed because a
  status is written onto a newer set, the second because a sync works on a copy.
* `ClaimsBeforePods`: if `"dropClaim" \notin Faults`, then
  `Spec => []PodsHaveClaims`. The invariant `ClaimsInv` says that the cache
  shows no claim that is gone, and that the pod about to be created has its
  claims, which a partial failure in `createPersistentVolumeClaims` cannot break.

`StatefulSetRevisionsProofs`: which revisions the sync uses, and which it deletes.
Neither theorem has a hypothesis: any cache lags, any fault happens.

* `PartitionKept`: `Spec => PartitionHeld`. The invariant `CurrentListed`: up to
  the end of the pass the sync works from the revision that the status it read
  names, if it has listed that revision. The condition is part of the property;
  `PartitionRestored`, without it, does not hold.
* `StatusRevisionsKept`: `Spec => StatusRevisionsSpared`. The invariant `StatusInv`
  says that until it writes the status the sync has read the recorded one, or
  another sync is due (`StatusSeen`); that when it turns to the history it has
  written its status, or had nothing to write (`StatusWritten`); and that its
  status names its own two revisions (`StatusNames`), which `truncateHistory`
  spares. It needs that a watch with nothing to deliver has delivered everything
  (`SetCacheFresh`, `PodCacheFresh`), because a sync takes what its cache shows.

`StatefulSetQuietProofs`: what holds when the controller comes to rest.

* `StatusSettles` and `PodsSettle`: `Spec => []QuietStatus` and
  `Spec => []QuietPods`, with no hypothesis: any caches lag, any faults happen,
  to any number of pods. The invariant `CalmInv` is about states in which no
  event is on its way and the key is not queued: a sync under way has then seen
  the set and the pods as they are and has changed neither; and before and after
  it a pass over the present state finds nothing to do and works out the recorded
  status (`Rested`). It is inductive because every call that changes a set or a
  pod makes an event and every error puts the key back; whoever drops one of the
  two breaks the proof at that action. `Rested` gives `StatusExact` by
  counting, and `PodsConverged` or one of the two dead ends by following the
  three loops to the places where they stop.

### The order of the pods

`StatefulSetOrderProofs`. A pass decides on the pods it listed and acts on the
pods there are, so each guarantee has two halves.

What the pass has seen, with no hypothesis: `CreatesInOrderSeen`,
`ScalesInOrderSeen` and `UpdatesInOrderSeen` say that the sync had listed every
predecessor as serving when it creates a pod, no higher condemned pod when it
scales in, and every later pod as serving at the update revision when it updates
one. The invariant `PassInv` describes a pass under way: a replica is nil, the
listed pod, or built because the listed one did not serve (`Slots`); condemned
pods are what was listed (`Marked`); and the first loop has gone past healthy
replicas only (`Passed`), which needs that `UpdatePod` moves on without a return
only after the wait for health.

What still holds when the pass acts. A pod that serves may have been deleted
since it was listed, by a sync before, and its deletion may reach the cache late;
but the pod after it is not created before the cache has shown that it is gone.
So what a listing says of a live pod is true of the pod there is, if there is
one. This is the invariant `ListingInv`: what the cache shows of a live pod, and
what the sync has listed of one, foretells the pod there is (`CacheTells`,
`ListTells`: the same revision, and serving if it was); and where the sync may
still create a pod the cache shows no live one (`NoneToReplace`). All caches may
lag by any amount, there may be any number of edits of size, template, policy and
strategy, calls fail and syncs break off anywhere. From it follow

* `CreateOrdered`, `TakeDownOrdered` and `UpdateOrdered`: `Spec => CreateInOrder`,
  `Spec => TakeDownInOrder`, `Spec => UpdateInOrder`;
* `PodRevisionsKept`: `Spec => PodRevisionsSpared`;
* `CompletionIsSound`: `Spec => CompletionSound`. `Tally` follows the counters of
  the status from the listing through every adjustment: as many ready replicas as
  were listed, no fewer replicas than were listed, and no more updated ones than
  listed and created (a deleted condemned pod is taken from `updatedReplicas` and
  not from `replicas`, which errs on the safe side). `Filled` says that a pass
  that has created no pod has not gone past a replica it had not listed. At the
  end of the pass, `completeRollingUpdate` compares the counters, and `Completed`
  follows: the listing had all replicas at the update revision, and so, by
  `ListTells`, has what there is.

They assume `Undisturbed`: no pod fails, nobody drains one and nobody deletes the
set. Each of these makes a pod go without the controller, which may create its
successor while a cache as it was before still shows the first, so that a listing
no longer tells of the pod there is. The first three also assume `StaysReady`, no
pod turns unready by itself: it may do so between the look and the call. Lost
labels and lost claims are allowed. `Undisturbed` and `StaysReady` are conditions
on the cluster, not on the controller's view of it.

### Around the control loop

`StatefulSetControllerProofs`: `TypeCorrect` (the type says that no object,
event or owner reference has a UID that was not given out yet), and
`AdoptionIsFresh`: `Spec => AdoptionFresh`. The invariant: a set that is live
now was live when the sync began, since UIDs do not return and deletions are not
taken back, and a sync that has passed `CanAdopt` works for such a set.

`QuietMeansOwned`: `Spec => []QuietOwned`, no wake-up is lost. Its invariant
`WakeInv` follows what each undelivered event will still tell. `PodStream`: the
events under way lead from the cached pod to the pod, each step changing it, and a
deletion is told with the state before it; `SetStream`: the events of the set end
with the set. `Deletions`: a deletion is not taken back, whoever knows of it, and
finalizers come with one. `SyncState` is what the sync in progress has claimed at
each of its steps. `StaleSync`: a sync for another set of the same name is not the
last, since the key is queued or an event of the set is coming. `LateOwner`: a sync
begun before the cache showed the set as the pod's owner is followed by a wake-up.
`Awake` is the heart: unless a lost watch hid what happened (`unseen`), a set that
stays has a wake-up coming, or a sync of it under way that has yet to claim the
pod, or the cached pod is already its own, or its pod, or the end of its pod, is on
the way to the cache. Each action can only pass this duty on, never drop it.

`UpgradeProofs`, for any history limit, any number of crashes, and with or
without `Old`: `TypeCorrect`;
`RevisionsOutliveUpgrade`, `Spec => []RevisionsSurvive`; and
`StatusWrittenAfterClaim`, `Spec => StatusAfterClaim`. The invariant has
`NothingLeftBehind` (with the fix, what a set being deleted owns is what the
garbage collector will orphan), `DeletesOnlyOld` (what `truncateHistory` has
chosen from an old cache is no revision in use), `ClaimHolds` and
`OrphansOnlyItsPod` (the pod, once claimed, is not taken back).
`ControllerSparesRevisionsInUse` says that the advanced controller deletes no
revision in use even without the fix: those that are lost then are lost to the
garbage collector.

`HijackClientProofs`: `DefaultedOnce` (defaulting is idempotent), `TypeCorrect`,
`UpdateKeepsTemplate` (`Spec => TemplateKept`, from the invariant that what was
read is still stored if the versions agree and that what was sent is in force,
completed), and `KeepsContract`: `Spec => ImplementsContract`, the refinement of
`WatchContract`, step by step. Its invariant `Position` counts the events between
the reader and the source: while the reader reads, the source is ahead by the
one event `hijackWatch` holds and the one the source holds, in this order.

### Only model-checked

* Liveness under fairness (`Converges`, `DeletedSetEmpties`, `OwnsInTheEnd`,
  `HandedOver`, `ReaderConverges`, `StopReleases`), which the prover cannot treat.
* `QuietHistory` and `ScaleDownInOrder`, which hold only while revisions or pods
  are fresh at the start of a sync, as their runs have it and the code does not
  ensure.

Every other safety invariant and action property of a passing run is stated by a
theorem.

No module uses RECURSIVE operators.

## Not modelled

* `helper.go` of v1alpha1: the same functions on `int`; the only difference is
  that `GetMaxReplicaCountAndDeleteSlots` drops slots from the caller's own set.
* Flags, logging, metrics, the protocol of leader election (client-go's), the
  wiring of the generated clients, deep copies, the fakes, and the tests.
* Hash collisions of revision names; `storageMatches`; JSON itself, of which the
  model has what is kept (everything) and what is set by hand (the version).
* Several names: two sets whose selectors select the same pods are a user error
  that the code reports, and ownership keeps them apart.
* Errors of single calls in `Upgrade`'s advanced controller other than conflicts,
  which lead to the same retry; selectors with expressions in `Upgrade`.
* `deployment/crd.v1beta1.yaml`, which has no defaults: with it the API server
  stores what the v1alpha1 client leaves out as it is.

## What is left

* The order properties when pods fail, are drained or collected: what a stale
  listing tells then is weaker, and what remains of the order is not stated.
* Composition: `StatefulSetController` and `Upgrade` contain the control loop
  reduced to one replica; that `StatefulSetControl` implements this reduction is
  not stated.
