------------------------ MODULE MCStatefulSetControl ------------------------
(* StatefulSetControl with the specs TLC explores. *)
EXTENDS StatefulSetControl

CONSTANTS tA, tB, tC, c1, c2

\* The defaults: OrderedReady, a rolling update of all pods, no history.
ASpec(r, D, t) ==
  [replicas |-> r, ann |-> IF D = {} THEN Absent ELSE Listed(D), template |-> t,
   policy |-> "OrderedReady", strategy |-> "RollingUpdate", partition |-> 0,
   historyLimit |-> 0]

Parallel(s) == [s EXCEPT !.policy = "Parallel"]
Partitioned(s, p) == [s EXCEPT !.partition = p]
OnDelete(s) == [s EXCEPT !.strategy = "OnDelete", !.partition = Nil]

TwoA == {ASpec(2, {}, tA)}
ThreeA == {ASpec(3, {}, tA)}

\* Changes of the template, and of the number of replicas too.
ThreeABC == {ASpec(3, {}, t) : t \in {tA, tB, tC}}
OneA == {ASpec(1, {}, tA)}
OneOrThreeAB == {ASpec(r, {}, t) : r \in {1, 3}, t \in {tA, tB}}

\* Scale in at a delete slot, also together with an update.
ScaleOrUpdate ==
  {ASpec(3, {}, tA), ASpec(2, {1}, tA), ASpec(2, {0}, tB)}

ToNone == {ASpec(2, {}, tA), ASpec(0, {}, tA)}
UpdateOrNone == ToNone \union {ASpec(2, {}, tB)}

\* Every policy and strategy, changes between them, and roll backs.
StrategyChanges ==
  {ASpec(2, {}, tA), Partitioned(ASpec(2, {}, tA), Nil), Parallel(ASpec(2, {}, tB)),
   Partitioned(ASpec(2, {}, tC), 2), OnDelete(ASpec(1, {0}, tC))}

-----------------------------------------------------------------------------
(* What comments and tests say, and stale caches refute. *)

\* updateStatefulSet: "for each Pod, when we create it, all of its
\* predecessors [...] are Running and Ready". They were, when they were listed.
PredecessorsServe ==
  [][\A o \in Ordinals : CreatePod /\ pods'[o] # pods[o] /\ monotonic(w.view)
        => \A p \in Desired(w.view) : p < o => Up(pods[p])]_vars

\* OrderedReadyPodManagement: "At most one pod will be changed at any time".
\* A replica that serves is taken down only while all the others serve.
AtMostOneDown ==
  [][\A o \in Desired(set) : Up(pods[o]) /\ ~ Up(pods'[o])
        => \A p \in Desired(set) \ {o} : Up(pods[p])]_vars

\* The end to end test: "If a Pod is deleted while a rolling update is in
\* progress, StatefulSet MUST restore the Pod without violating the
\* Partition". A pod below it is not created at the update revision while the
\* status names another.
PartitionRestored ==
  [][\A o \in Ordinals :
       /\ CreatePod /\ pods'[o] # pods[o]
       /\ o < w.view.spec.partition
       /\ w.view.status.currentRevision # NoRevision
       => pods'[o].rev = w.view.status.currentRevision]_vars
=============================================================================
