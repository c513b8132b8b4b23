--------------------------- MODULE MCHijackClient ---------------------------
(* HijackClient with the manifests TLC explores. *)
EXTENDS HijackClient

\* Containers, volumes and claims with fields left out; v sets the volumes.
ATemplate(v) ==
  [p \in TemplateParts |->
     CASE p = "volumes" -> v
       [] p \in {"podSpec", "containers", "ephemeralContainers", "volumeClaimTemplates"}
            -> "sparse"
       [] OTHER -> "none"]

AManifest(strategy, rolling, v) ==
  [replicas |-> Nil, revisionHistoryLimit |-> Nil,
   podManagementPolicy |-> Nil, updateStrategy |-> strategy,
   rollingUpdate |-> rolling, template |-> ATemplate(v)]

MCManifests == {AManifest(Nil, Nil, "sparse"), AManifest({"RollingUpdate"}, {Nil}, "none")}
=============================================================================
