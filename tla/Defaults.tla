------------------------------ MODULE Defaults ------------------------------
(***************************************************************************)
(* The defaulting functions of pkg/apis/apps/v1, and their copies in       *)
(* v1alpha1: what a client fills in before it sends a set, because the API *)
(* server does not know the defaults of a custom resource.                 *)
(*                                                                         *)
(* A pointer is the set of what it points to: {} is nil. The pod template  *)
(* and the claim templates are kept part by part: "none" when the part has *)
(* no item, "sparse" when some field of it that has a default is not set,  *)
(* "full" when all are, "partial" when all but the ones that only          *)
(* SetDefaults_Container sets are.                                         *)
(***************************************************************************)
EXTENDS Naturals

Nil == {}

Pointer(S) == SUBSET S   \* in fact {} and the sets of one

TemplateParts == {"podSpec", "volumes", "initContainers", "containers",
                  "ephemeralContainers", "overhead", "volumeClaimTemplates"}

PartValues == {"none", "sparse", "partial", "full"}

TemplateType == [TemplateParts -> PartValues]

SpecType ==
  [replicas : Pointer(Nat),
   revisionHistoryLimit : Pointer(Nat),
   podManagementPolicy : Pointer({"OrderedReady", "Parallel"}),
   updateStrategy : Pointer({"RollingUpdate", "OnDelete"}),
   rollingUpdate : Pointer(Pointer(Nat)),   \* its Partition is a pointer too
   template : TemplateType]

-----------------------------------------------------------------------------
\* A value that is set stays what it is.
Or(value, default) == IF value = Nil THEN {default} ELSE value

\* The strategy's type decides whether there is a partition to default: a set
\* without a type loses the rollingUpdate it came with.
DefaultedStrategy(spec) ==
  LET s == IF spec.updateStrategy = Nil
           THEN [spec EXCEPT !.updateStrategy = {"RollingUpdate"}, !.rollingUpdate = {Nil}]
           ELSE spec
  IN  IF s.updateStrategy = {"RollingUpdate"} /\ s.rollingUpdate = {Nil}
      THEN [s EXCEPT !.rollingUpdate = {{0}}] ELSE s

SetDefaults_StatefulSet(spec) ==
  [DefaultedStrategy(spec) EXCEPT
     !.podManagementPolicy = Or(@, "OrderedReady"),
     !.replicas = Or(@, 1),
     !.revisionHistoryLimit = Or(@, 10)]

-----------------------------------------------------------------------------
(* The loops of SetObjectDefaults_StatefulSet, one per part of the template. *)

Filled(value) == IF value = "none" THEN "none" ELSE "full"

SetDefaults_PodSpec(t) == [t EXCEPT !["podSpec"] = Filled(@)]
SetDefaults_Volumes(t) == [t EXCEPT !["volumes"] = Filled(@)]
SetDefaults_InitContainers(t) == [t EXCEPT !["initContainers"] = Filled(@)]
SetDefaults_Containers(t) == [t EXCEPT !["containers"] = Filled(@)]
SetDefaults_Overhead(t) == [t EXCEPT !["overhead"] = Filled(@)]
SetDefaults_Claims(t) == [t EXCEPT !["volumeClaimTemplates"] = Filled(@)]

\* Ports, resources, probes and handlers; SetDefaults_Container is not called.
SetDefaults_EphemeralContainers(t) ==
  [t EXCEPT !["ephemeralContainers"] = IF @ = "sparse" THEN "partial" ELSE @]

SetObjectDefaults_StatefulSet(spec) ==
  [SetDefaults_StatefulSet(spec) EXCEPT
     !.template = SetDefaults_Claims(SetDefaults_Overhead(
                    SetDefaults_EphemeralContainers(SetDefaults_Containers(
                      SetDefaults_InitContainers(SetDefaults_Volumes(
                        SetDefaults_PodSpec(@)))))))]

\* v1alpha1 has the same functions, for its own type.
AlphaSetDefaults_StatefulSet(spec) == SetDefaults_StatefulSet(spec)

AlphaSetObjectDefaults_StatefulSet(spec) ==
  [AlphaSetDefaults_StatefulSet(spec) EXCEPT
     !.template = SetObjectDefaults_StatefulSet(spec).template]
=============================================================================
