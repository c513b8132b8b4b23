-------------------------- MODULE DeleteSlotsLoop --------------------------
(***************************************************************************)
(* GetMaxReplicaCountAndDeleteSlots of helper.go as the loop it is, one    *)
(* slot of the sorted copy per step, so that what it returns can be proved *)
(* for every number of replicas and every set of slots.                    *)
(***************************************************************************)
EXTENDS DeleteSlots

CONSTANTS Replicas,   \* the values of spec.replicas considered
          Slots       \* the numbers the annotation may list

ASSUME LoopAssumption ==
  /\ Replicas \subseteq Nat
  /\ Slots \subseteq Int
  /\ IsFiniteSet(Slots)

VARIABLES replicas,      \* the argument replicas
          deleteSlots,   \* the argument deleteSlots
          acc,           \* the locals replicaCount and deleteSlotsCopy
          todo           \* the slots of the sorted list not visited yet

vars == <<replicas, deleteSlots, acc, todo>>

Init ==
  /\ replicas \in Replicas
  /\ deleteSlots \in SUBSET Slots
  /\ acc = [replicaCount |-> replicas, deleteSlots |-> deleteSlots]
  /\ todo = deleteSlots

Visit(slot) ==
  /\ slot \in todo
  /\ \A t \in todo : slot <= t
  /\ acc' = VisitSlot(acc, slot)
  /\ todo' = todo \ {slot}
  /\ UNCHANGED <<replicas, deleteSlots>>

Next == \E slot \in todo : Visit(slot)

Spec == Init /\ [][Next]_vars

-----------------------------------------------------------------------------
(* GetPodOrdinals collects [0, replicaCount) without the slots kept. *)
Result == {o \in 0 .. acc.replicaCount - 1 : o \notin acc.deleteSlots}

\* The slots already visited and kept: those below the replica count.
Kept == acc.deleteSlots \ todo

\* No slot is negative and the int32 counter cannot wrap around.
SaneArguments ==
  /\ deleteSlots \subseteq Nat
  /\ replicas + Cardinality(deleteSlots) <= MaxInt32

\* The loop's variables have their types.
TypeOK ==
  /\ replicas \in Replicas
  /\ deleteSlots \in SUBSET Slots
  /\ acc \in [replicaCount : Int, deleteSlots : SUBSET deleteSlots]
  /\ todo \in SUBSET deleteSlots

\* The counter is the argument plus the slots kept; the slots kept are exactly
\* the visited ones below the counter; whatever is still to be visited lies
\* above everything visited.
LoopFacts ==
  /\ acc.replicaCount = replicas + Cardinality(Kept)
  /\ todo \subseteq acc.deleteSlots
  /\ \A k \in Kept : k < acc.replicaCount
  /\ \A d \in deleteSlots \ acc.deleteSlots : acc.replicaCount <= d
  /\ \A d \in deleteSlots \ todo : \A t \in todo : d < t

\* The loop invariant of GetMaxReplicaCountAndDeleteSlots: between two rounds
\* the counter accounts for exactly the slots kept so far, no kept slot is at
\* or above it and no dropped slot below it.
LoopInv == SaneArguments => LoopFacts

\* "The desired slots of this stateful set will be [0, replicaCount) -
\* [delete slots]" (helper.go:72-73), and they are what the user asked for:
\* the loop ends with the first `replicas` ordinals that are not delete
\* slots, whatever the order and the gaps of the slots.
ResultIsFirstFree ==
  SaneArguments /\ todo = {} => FirstFree(replicas, deleteSlots, Result)
=============================================================================
