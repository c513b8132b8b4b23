---------------------------- MODULE DeleteSlots ----------------------------
(***************************************************************************)
(* The delete-slots helpers of pkg/apis/apps/v1/helper/helper.go: the      *)
(* annotation that lists the ordinals a set must not use, and the          *)
(* computation of the ordinals the set does use.                           *)
(*                                                                         *)
(* An annotation is a record: its kind says whether the key is absent,     *)
(* holds text that is not a JSON list of int32, or holds a list; slots is  *)
(* the set of the numbers in the list.                                     *)
(***************************************************************************)
EXTENDS Integers, FiniteSets, FiniteSetsExt

CONSTANT MaxInt32   \* the largest int32 (2147483647 in the code)

ASSUME MaxInt32Assumption == MaxInt32 \in Nat

-----------------------------------------------------------------------------
(* The annotation. *)

Absent == [kind |-> "absent", slots |-> {}]
Malformed == [kind |-> "malformed", slots |-> {}]
Listed(D) == [kind |-> "list", slots |-> D]

\* A missing key, a nil map and a value that does not parse all mean "none".
GetDeleteSlots(ann) == IF ann.kind = "list" THEN ann.slots ELSE {}

\* Mutant: an empty set leaves the annotation alone.
SetDeleteSlotsKeepsLast(ann, D) == IF D = {} THEN ann ELSE Listed(D)

\* An empty set removes the key; otherwise the marshalled list replaces it.
SetDeleteSlots(ann, D) == IF D = {} THEN Absent ELSE Listed(D)

AddDeleteSlots(ann, D) == SetDeleteSlots(ann, GetDeleteSlots(ann) \union D)

-----------------------------------------------------------------------------
(* The ordinals in use. *)

\* replicaCount++ on an int32.
Inc32(n) == IF n = MaxInt32 THEN -MaxInt32 - 1 ELSE n + 1

\* Mutant of VisitSlot: the counter is not moved past the slot.
VisitSlotNoIncrement(acc, slot) ==
  IF slot < acc.replicaCount
  THEN acc
  ELSE [acc EXCEPT !.deleteSlots = @ \ {slot}]

\* One round of the loop over the sorted copy of the delete slots.
VisitSlot(acc, slot) ==
  IF slot < acc.replicaCount
  THEN [acc EXCEPT !.replicaCount = Inc32(@)]
  ELSE [acc EXCEPT !.deleteSlots = @ \ {slot}]

\* The loop runs over List(), which is sorted in ascending order: the greatest
\* slot is folded last.
GetMaxReplicaCountAndDeleteSlots(replicas, D) ==
  MapThenFoldSet(LAMBDA slot, acc : VisitSlot(acc, slot),
                 [replicaCount |-> replicas, deleteSlots |-> D],
                 LAMBDA slot : slot, Max, D)

GetPodOrdinalsFromReplicasAndDeleteSlots(replicas, D) ==
  LET max == GetMaxReplicaCountAndDeleteSlots(replicas, D)
  IN  {o \in 0 .. max.replicaCount - 1 : o \notin max.deleteSlots}

GetPodOrdinals(replicas, ann) ==
  GetPodOrdinalsFromReplicasAndDeleteSlots(replicas, GetDeleteSlots(ann))

-----------------------------------------------------------------------------
(* What the ordinals should be, stated without the loop. *)

\* S is the first r naturals that are not in D.
FirstFree(r, D, S) ==
  /\ S \subseteq Nat \ D
  /\ IsFiniteSet(S)
  /\ Cardinality(S) = r
  /\ \A s \in S : \A n \in 0 .. s - 1 : n \in D \union S
=============================================================================
