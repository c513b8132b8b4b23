--------------------------- MODULE ScaleByOrdinal ---------------------------
(***************************************************************************)
(* A user who scales a set with the helpers of helper.go, in the way the   *)
(* README shows: one update changes spec.replicas and the delete-slots     *)
(* annotation at the same time. After each, the controller computes the    *)
(* ordinals with the loop of DeleteSlotsLoop.                              *)
(***************************************************************************)
EXTENDS DeleteSlotsLoop

VARIABLE ann   \* the delete-slots annotation

scaleVars == <<vars, ann>>

Annotations == {Absent, Malformed} \union {Listed(D) : D \in SUBSET Slots}

\* The ordinals the controller keeps a pod for.
Ordinals == GetPodOrdinals(replicas, ann)

\* -1 and MaxInt32 are the values for an empty set.
GetMaxPodOrdinal ==
  IF Ordinals = {} THEN -1 ELSE CHOOSE o \in Ordinals : \A p \in Ordinals : p <= o

GetMinPodOrdinal ==
  IF Ordinals = {} THEN MaxInt32
  ELSE CHOOSE o \in Ordinals : \A p \in Ordinals : o <= p

-----------------------------------------------------------------------------
ScaleInit ==
  /\ Init
  /\ ann \in Annotations
  /\ deleteSlots = GetDeleteSlots(ann)

\* An update of the set; the controller starts over with it.
Update(n, a) ==
  /\ todo = {}
  /\ n \in Replicas
  /\ replicas' = n /\ ann' = a
  /\ deleteSlots' = GetDeleteSlots(a)
  /\ acc' = [replicaCount |-> n, deleteSlots |-> deleteSlots']
  /\ todo' = deleteSlots'

ScaleOut == Update(replicas + 1, ann)

ScaleIn == Update(replicas - 1, ann)

\* Remove the pod at ordinal s.
ScaleInAt(s) ==
  /\ s \in Ordinals
  /\ Update(replicas - 1, AddDeleteSlots(ann, {s}))

\* Bring back the ordinal of a delete slot.
ScaleOutAt(s) ==
  /\ s \in GetDeleteSlots(ann)
  /\ Update(replicas + 1, SetDeleteSlots(ann, GetDeleteSlots(ann) \ {s}))

ScaleNext ==
  \/ Next /\ UNCHANGED ann
  \/ ScaleOut
  \/ ScaleIn
  \/ \E s \in Slots : ScaleInAt(s) \/ ScaleOutAt(s)

ScaleSpec == ScaleInit /\ [][ScaleNext]_scaleVars

-----------------------------------------------------------------------------
\* The int32 counter wraps around neither before nor after the update.
Sane == SaneArguments /\ SaneArguments'

\* README.md, "scale in at arbitrary position": adding the ordinal of one pod
\* to the delete slots and decrementing spec.replicas removes that pod and
\* moves no other, also when the annotation held slots out of range or text
\* that does not parse.
ScaleInAtRemovesOnlyThatPod ==
  [][\A s \in Slots : Sane /\ ScaleInAt(s) => Ordinals' = Ordinals \ {s}]_scaleVars

\* One replica more or less at the end never moves another pod: it adds an
\* ordinal above, or removes the ordinal at, GetMaxPodOrdinal.
ScaleAtEndMovesNoPod ==
  [][/\ Sane /\ ScaleIn => Ordinals' = Ordinals \ {GetMaxPodOrdinal}
     /\ Sane /\ ScaleOut => /\ Ordinals = Ordinals' \ {GetMaxPodOrdinal'}
                            /\ GetMaxPodOrdinal' > GetMaxPodOrdinal]_scaleVars

\* Dropping a slot and adding a replica brings the ordinal back without
\* moving another pod, provided the ordinal lies below the last pod.
ScaleOutAtBringsBackThatPod ==
  [][\A s \in Slots : Sane /\ ScaleOutAt(s) /\ s < GetMaxPodOrdinal
        => Ordinals' = Ordinals \union {s}]_scaleVars

\* The first pod is at the least natural that is not a delete slot, so a
\* client that looks it up with GetMinPodOrdinal finds a pod that exists.
MinIsLeastFree ==
  SaneArguments /\ replicas > 0
    => /\ GetMinPodOrdinal \in Ordinals
       /\ \A n \in 0 .. GetMinPodOrdinal - 1 : n \in GetDeleteSlots(ann)
=============================================================================
