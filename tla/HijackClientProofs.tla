------------------------- MODULE HijackClientProofs -------------------------
(***************************************************************************)
(* Theorems about HijackClient, for any manifests, any number of writes    *)
(* and any number of watches that the server ends, and about the           *)
(* defaulting functions it applies.                                        *)
(***************************************************************************)
EXTENDS HijackClient, SequenceTheorems, TLAPS

-----------------------------------------------------------------------------
(* The defaulting functions. *)

\* What SetObjectDefaults_StatefulSet makes of a template.
Completed(t) ==
  SetDefaults_Claims(SetDefaults_Overhead(
    SetDefaults_EphemeralContainers(SetDefaults_Containers(
      SetDefaults_InitContainers(SetDefaults_Volumes(SetDefaults_PodSpec(t)))))))

\* Each of its loops is over one part of the template.
LEMMA LoopsAreOverParts ==
  ASSUME NEW t \in TemplateType
  PROVE  /\ Completed(t) \in TemplateType
         /\ \A p \in TemplateParts :
              Completed(t)[p] = IF p = "ephemeralContainers"
                                THEN IF t[p] = "sparse" THEN "partial" ELSE t[p]
                                ELSE Filled(t[p])
<1> DEFINE t1 == SetDefaults_PodSpec(t)
           t2 == SetDefaults_Volumes(t1)
           t3 == SetDefaults_InitContainers(t2)
           t4 == SetDefaults_Containers(t3)
           t5 == SetDefaults_EphemeralContainers(t4)
           t6 == SetDefaults_Overhead(t5)
           t7 == SetDefaults_Claims(t6)
<1>0. \A v \in PartValues : Filled(v) \in PartValues
  BY DEF PartValues, Filled
<1>1. /\ t1 \in TemplateType
      /\ \A p \in TemplateParts : t1[p] = IF p = "podSpec" THEN Filled(t[p]) ELSE t[p]
  BY <1>0 DEF SetDefaults_PodSpec, TemplateType, TemplateParts
<1> HIDE DEF t1
<1>2. /\ t2 \in TemplateType
      /\ \A p \in TemplateParts : t2[p] = IF p = "volumes" THEN Filled(t1[p]) ELSE t1[p]
  BY <1>0, <1>1 DEF SetDefaults_Volumes, TemplateType, TemplateParts
<1> HIDE DEF t2
<1>3. /\ t3 \in TemplateType
      /\ \A p \in TemplateParts : t3[p] = IF p = "initContainers" THEN Filled(t2[p]) ELSE t2[p]
  BY <1>0, <1>2 DEF SetDefaults_InitContainers, TemplateType, TemplateParts
<1> HIDE DEF t3
<1>4. /\ t4 \in TemplateType
      /\ \A p \in TemplateParts : t4[p] = IF p = "containers" THEN Filled(t3[p]) ELSE t3[p]
  BY <1>0, <1>3 DEF SetDefaults_Containers, TemplateType, TemplateParts
<1> HIDE DEF t4
<1>5. /\ t5 \in TemplateType
      /\ \A p \in TemplateParts :
           t5[p] = IF p = "ephemeralContainers" /\ t4[p] = "sparse" THEN "partial" ELSE t4[p]
  BY <1>4 DEF SetDefaults_EphemeralContainers, TemplateType, TemplateParts, PartValues
<1> HIDE DEF t5
<1>6. /\ t6 \in TemplateType
      /\ \A p \in TemplateParts : t6[p] = IF p = "overhead" THEN Filled(t5[p]) ELSE t5[p]
  BY <1>0, <1>5 DEF SetDefaults_Overhead, TemplateType, TemplateParts
<1> HIDE DEF t6
<1>7. /\ t7 \in TemplateType
      /\ \A p \in TemplateParts :
           t7[p] = IF p = "volumeClaimTemplates" THEN Filled(t6[p]) ELSE t6[p]
  BY <1>0, <1>6 DEF SetDefaults_Claims, TemplateType, TemplateParts
<1>8. Completed(t) = t7
  BY DEF Completed, t1, t2, t3, t4, t5, t6
<1> HIDE DEF t7
<1> QED
  BY <1>1, <1>2, <1>3, <1>4, <1>5, <1>6, <1>7, <1>8 DEF TemplateParts

\* A template that has been completed stays as it is.
LEMMA CompletedOnce ==
  ASSUME NEW t \in TemplateType
  PROVE  Completed(Completed(t)) = Completed(t)
<1>1. Completed(t) \in TemplateType /\ Completed(Completed(t)) \in TemplateType
  BY LoopsAreOverParts
<1>2. ASSUME NEW p \in TemplateParts
      PROVE  Completed(Completed(t))[p] = Completed(t)[p]
  BY <1>1, LoopsAreOverParts DEF Filled
<1> QED
  BY <1>1, <1>2 DEF TemplateType

\* The defaulted spec, field by field; the template is completed whatever the
\* rest of the spec says.
LEMMA DefaultedFields ==
  ASSUME NEW s \in SpecType
  PROVE  /\ SetObjectDefaults_StatefulSet(s) \in SpecType
         /\ SetObjectDefaults_StatefulSet(s).template = Completed(s.template)
         /\ AlphaSetObjectDefaults_StatefulSet(s) = SetObjectDefaults_StatefulSet(s)
<1>1. DefaultedStrategy(s) \in SpecType /\ DefaultedStrategy(s).template = s.template
  <2> DEFINE s1 == [s EXCEPT !.updateStrategy = {"RollingUpdate"}, !.rollingUpdate = {Nil}]
             s2 == IF s.updateStrategy = Nil THEN s1 ELSE s
             s3 == [s2 EXCEPT !.rollingUpdate = {{0}}]
  <2>1. /\ {"RollingUpdate"} \in Pointer({"RollingUpdate", "OnDelete"})
        /\ {Nil} \in Pointer(Pointer(Nat)) /\ {{0}} \in Pointer(Pointer(Nat))
    BY DEF Pointer, Nil
  <2>2. s1 \in SpecType /\ s1.template = s.template
    BY <2>1 DEF SpecType
  <2>3. s2 \in SpecType /\ s2.template = s.template
    BY <2>2
  <2>4. s3 \in SpecType /\ s3.template = s2.template
    <3> HIDE DEF s2
    <3> QED
      BY <2>1, <2>3 DEF SpecType
  <2>5. DefaultedStrategy(s) \in {s2, s3}
    BY DEF DefaultedStrategy
  <2> QED
    BY <2>3, <2>4, <2>5
<1>2. /\ SetDefaults_StatefulSet(s) \in SpecType
      /\ SetDefaults_StatefulSet(s).template = s.template
  <2>1. ASSUME NEW S, NEW v \in Pointer(S), NEW d \in S
        PROVE  Or(v, d) \in Pointer(S)
    BY <2>1 DEF Pointer, Or, Nil
  <2>2. /\ Or(DefaultedStrategy(s).replicas, 1) \in Pointer(Nat)
        /\ Or(DefaultedStrategy(s).revisionHistoryLimit, 10) \in Pointer(Nat)
        /\ Or(DefaultedStrategy(s).podManagementPolicy, "OrderedReady")
             \in Pointer({"OrderedReady", "Parallel"})
    BY <1>1, <2>1 DEF SpecType
  <2> QED
    BY <1>1, <2>2 DEF SetDefaults_StatefulSet, SpecType
<1>3. /\ SetObjectDefaults_StatefulSet(s)
           = [SetDefaults_StatefulSet(s) EXCEPT !.template = Completed(@)]
      /\ AlphaSetDefaults_StatefulSet(s) = SetDefaults_StatefulSet(s)
  BY DEF SetObjectDefaults_StatefulSet, Completed, AlphaSetDefaults_StatefulSet
<1>4. s.template \in TemplateType /\ Completed(s.template) \in TemplateType
  BY LoopsAreOverParts DEF SpecType
<1>5. /\ SetObjectDefaults_StatefulSet(s) \in SpecType
      /\ SetObjectDefaults_StatefulSet(s).template = Completed(s.template)
  BY <1>2, <1>3, <1>4 DEF SpecType
<1>6. AlphaSetObjectDefaults_StatefulSet(s) = SetObjectDefaults_StatefulSet(s)
  BY <1>2, <1>3, <1>5 DEF AlphaSetObjectDefaults_StatefulSet, SpecType
<1> QED
  BY <1>5, <1>6

\* A spec that has been defaulted stays as it is: sending a set back that was
\* read completes nothing a second time.
THEOREM DefaultedOnce ==
  ASSUME NEW s \in SpecType
  PROVE  SetObjectDefaults_StatefulSet(SetObjectDefaults_StatefulSet(s))
           = SetObjectDefaults_StatefulSet(s)
<1> DEFINE d == SetObjectDefaults_StatefulSet(s)
<1>1. d \in SpecType /\ d.template = Completed(s.template)
  BY DefaultedFields
<1>2. /\ d.replicas # Nil /\ d.revisionHistoryLimit # Nil /\ d.podManagementPolicy # Nil
      /\ d.updateStrategy # Nil
      /\ ~ (d.updateStrategy = {"RollingUpdate"} /\ d.rollingUpdate = {Nil})
  BY DEF SetObjectDefaults_StatefulSet, SetDefaults_StatefulSet, DefaultedStrategy, SpecType, Or, Nil
<1> HIDE DEF d
<1>3. DefaultedStrategy(d) = d
  BY <1>2 DEF DefaultedStrategy
<1>4. SetDefaults_StatefulSet(d) = d
  <2>1. /\ Or(d.replicas, 1) = d.replicas
        /\ Or(d.revisionHistoryLimit, 10) = d.revisionHistoryLimit
        /\ Or(d.podManagementPolicy, "OrderedReady") = d.podManagementPolicy
    BY <1>2 DEF Or
  <2> QED
    BY <1>1, <1>3, <2>1 DEF SetDefaults_StatefulSet, SpecType
<1>5. Completed(d.template) = d.template
  BY <1>1, CompletedOnce DEF SpecType
<1>6. SetObjectDefaults_StatefulSet(d) = [d EXCEPT !.template = Completed(@)]
  BY <1>4 DEF SetObjectDefaults_StatefulSet, Completed
<1>7. [d EXCEPT !.template = Completed(@)] = d
  BY <1>1, <1>5 DEF SpecType
<1> QED
  BY <1>6, <1>7 DEF d

-----------------------------------------------------------------------------
(* Types. *)

Versions == {"", "apps/v1", "apps.pingcap.com/v1", "apps.pingcap.com/v1alpha1"}

ObjectType == [apiVersion : Versions, rv : Nat, spec : SpecType, status : {0, 1}]

\* The API server has numbered it.
StoredType == [apiVersion : Versions, rv : Nat \ {0}, spec : SpecType, status : {0, 1}]

EventType == [type : {"ADDED", "MODIFIED", "DELETED"}, object : StoredType]

\* The type invariant of HijackClient.
TypeOK ==
  /\ version \in {"v1", "v1alpha1"}
  /\ store \in StoredType \union {NoSet} /\ seen \in StoredType \union {NoSet}
  /\ log \in Seq(EventType)
  /\ sent \in TemplateType \union {NoTemplate}
  /\ reader \in [pc : {"list", "watch", "reading", "draining", "done", "gone"}, got : Nat,
                 cache : StoredType \union {NoSet}, last : EventType \union {NoEvent}]
  /\ w \in [pc : {"none", "select", "send", "close", "closed"},
            held : EventType \union {NoEvent}, stopped : BOOLEAN]
  /\ source \in [pc : {"none", "open", "failed", "closed"}, pos : Nat,
                 hold : EventType \union {NoEvent, [type |-> "ERROR"]}]
  /\ breaks \in 0 .. MaxBreaks
  /\ crashed \in BOOLEAN

\* A numbered object is a set, an event an event.
LEMMA StoredIsSet ==
  /\ \A o \in StoredType : o # NoSet /\ o \in ObjectType
  /\ \A e \in EventType : e # NoEvent /\ e.type # "ERROR"
  /\ NoEvent.type # "ERROR" /\ [type |-> "ERROR"] # NoEvent
BY DEF StoredType, ObjectType, NoSet, EventType, NoEvent

\* The conversions keep everything but the version.
LEMMA ConversionKeeps ==
  ASSUME NEW o \in ObjectType, version \in {"v1", "v1alpha1"}
  PROVE  From(o) \in ObjectType /\ From(o).spec = o.spec /\ From(o).rv = o.rv
         /\ From(o).status = o.status
BY DEF From, FromBuiltinStatefulSet, AlphaFromBuiltinStatefulSet, AdvancedVersion, ObjectType,
       Versions

\* Decoding what the API server sent and converting it to a builtin set keep its
\* version number and its spec.
LEMMA ReadKeeps ==
  ASSUME NEW o \in StoredType, version \in {"v1", "v1alpha1"}
  PROVE  /\ Decoded(o) \in StoredType /\ Decoded(o).rv = o.rv
         /\ To(o) \in StoredType /\ To(o).rv = o.rv
         /\ To(Decoded(o)) \in StoredType
         /\ To(Decoded(o)).rv = o.rv /\ To(Decoded(o)).spec = o.spec
<1>1. \A p \in StoredType :
        Decoded(p) \in StoredType /\ Decoded(p).rv = p.rv /\ Decoded(p).spec = p.spec
  BY StoredIsSet DEF Decoded, StoredType, Versions
<1>2. \A p \in StoredType : To(p) \in StoredType /\ To(p).rv = p.rv /\ To(p).spec = p.spec
  BY StoredIsSet DEF To, ToBuiltinStatefulSet, AlphaToBuiltinStatefulSet, BuiltinVersion,
     StoredType, Versions
<1> QED
  BY <1>1, <1>2

\* The lists that List returns hold stored sets.
LEMMA ListKeeps ==
  ASSUME NEW o \in StoredType, version \in {"v1", "v1alpha1"}
  PROVE  ToList({o}) \subseteq StoredType
<1>1. [o EXCEPT !.apiVersion = BuiltinVersion] \in StoredType
  BY DEF StoredType, Versions, BuiltinVersion
<1> QED
  BY <1>1 DEF ToList, ToBuiltinStetefulsetList, AlphaToBuiltinStetefulsetList

\* The bodies of Create and Update.
LEMMA BodyTypes ==
  ASSUME NEW o \in ObjectType, version \in {"v1", "v1alpha1"}
  PROVE  /\ CreateBody(o) \in ObjectType /\ UpdateBody(o) \in ObjectType
         /\ AlphaCreateBody(o) \in ObjectType /\ AlphaUpdateBody(o) \in ObjectType
         /\ CreateBody(o).spec = SetObjectDefaults_StatefulSet(o.spec)
         /\ UpdateBody(o).spec = SetObjectDefaults_StatefulSet(o.spec)
         /\ AlphaUpdateBody(o).spec = o.spec
         /\ UpdateBody(o).rv = o.rv /\ AlphaUpdateBody(o).rv = o.rv
<1>1. From(o) \in ObjectType /\ From(o).spec = o.spec /\ From(o).rv = o.rv
  BY ConversionKeeps
<1>2. o.spec \in SpecType
  BY DEF ObjectType
<1>3. /\ SetObjectDefaults_StatefulSet(o.spec) \in SpecType
      /\ AlphaSetObjectDefaults_StatefulSet(o.spec) \in SpecType
  BY <1>2, DefaultedFields
<1> QED
  BY <1>1, <1>3 DEF CreateBody, UpdateBody, AlphaCreateBody, AlphaUpdateBody, ObjectType

\* What the API server fills in on admission leaves the template alone.
LEMMA AdmittedKeeps ==
  ASSUME NEW s \in SpecType
  PROVE  Admitted(s) \in SpecType /\ Admitted(s).template = s.template
<1>1. ASSUME NEW v \in Pointer(Nat), NEW d \in Nat
      PROVE  Or(v, d) \in Pointer(Nat)
  BY <1>1 DEF Pointer, Or, Nil
<1>2. Or(s.replicas, 1) \in Pointer(Nat) /\ Or(s.revisionHistoryLimit, 10) \in Pointer(Nat)
  BY <1>1 DEF SpecType
<1> QED
  BY <1>2 DEF Admitted, SpecType

\* A write appends one event, which carries the object with its new number; it
\* is what the store then has, unless it is a deletion.
LEMMA HappensWrites ==
  ASSUME TypeOK, NEW type \in {"ADDED", "MODIFIED", "DELETED"}, NEW o \in ObjectType,
         Happens(type, o)
  PROVE  \E e \in EventType :
           /\ log' = Append(log, e)
           /\ log' \in Seq(EventType) /\ Len(log') = Len(log) + 1
           /\ e.object.rv = Len(log) + 1 /\ e.object.spec = o.spec
           /\ store' = IF type = "DELETED" THEN NoSet ELSE e.object
<1> DEFINE new == [o EXCEPT !.rv = Len(log) + 1, !.apiVersion = AdvancedVersion]
           e == [type |-> type, object |-> new]
<1>1. Len(log) \in Nat
  BY LenProperties DEF TypeOK
<1>2. new \in StoredType /\ new.rv = Len(log) + 1 /\ new.spec = o.spec
  <2>1. AdvancedVersion \in Versions
    BY DEF AdvancedVersion, Versions
  <2>2. Len(log) + 1 \in Nat \ {0}
    BY <1>1
  <2> QED
    BY <2>1, <2>2 DEF ObjectType, StoredType
<1>3. log' = Append(log, e) /\ store' = IF type = "DELETED" THEN NoSet ELSE new
  BY DEF Happens
<1> HIDE DEF new
<1>4. e \in EventType
  BY <1>2 DEF EventType
<1>5. log' \in Seq(EventType) /\ Len(log') = Len(log) + 1
  BY <1>3, <1>4, AppendProperties DEF TypeOK
<1> QED
  BY <1>2, <1>3, <1>4, <1>5

-----------------------------------------------------------------------------
(* What the writes do, whoever makes them and by whichever call. *)

\* The event e is added; the writer may read what it wrote; the template in the
\* store is the old one, or what the writer sent, completed by the v1 helper,
\* or nothing is known to be in force.
Wrote(e) ==
  /\ log' = Append(log, e) /\ log' \in Seq(EventType) /\ Len(log') = Len(log) + 1
  /\ e.object.rv = Len(log) + 1
  /\ store' \in {NoSet, e.object}
  /\ seen' \in {seen, To(Decoded(store'))}
  /\ sent' \in TemplateType \union {NoTemplate}
  /\ UNCHANGED <<version, watching>>
  /\ \/ sent' = NoTemplate
     \/ /\ UNCHANGED sent /\ store # NoSet /\ store' = e.object
        /\ e.object.spec.template = store.spec.template
     \/ /\ store' = e.object
        /\ version = "v1" => e.object.spec.template = Completed(sent')

\* A set that is scaled is a set, with the same template.
LEMMA Rescaled ==
  ASSUME NEW o \in StoredType, NEW r \in Nat
  PROVE  /\ [o EXCEPT !.spec.replicas = {r}] \in ObjectType
         /\ [o EXCEPT !.spec.replicas = {r}].spec.template = o.spec.template
         /\ [o EXCEPT !.spec.replicas = {r}].rv = o.rv
<1>1. {r} \in Pointer(Nat)
  BY DEF Pointer
<1>2. [o.spec EXCEPT !.replicas = {r}] \in SpecType
      /\ [o.spec EXCEPT !.replicas = {r}].template = o.spec.template
  BY <1>1 DEF StoredType, SpecType
<1>3. [o EXCEPT !.spec.replicas = {r}] = [o EXCEPT !.spec = [o.spec EXCEPT !.replicas = {r}]]
  OBVIOUS
<1> QED
  BY <1>2, <1>3 DEF StoredType, ObjectType

\* A successful POST stores the set under the next version and logs it.
LEMMA PostWrites ==
  ASSUME TypeOK, NEW o \in ObjectType, Post(o)
  PROVE  \E e \in EventType :
           /\ log' = Append(log, e) /\ log' \in Seq(EventType) /\ Len(log') = Len(log) + 1
           /\ e.object.rv = Len(log) + 1 /\ e.object.spec.template = o.spec.template
           /\ store' = e.object
<1> DEFINE p == [o EXCEPT !.spec = Admitted(@), !.status = 0]
<1>1. p \in ObjectType /\ p.spec.template = o.spec.template
  <2>1. Admitted(o.spec) \in SpecType /\ Admitted(o.spec).template = o.spec.template
    BY AdmittedKeeps DEF ObjectType
  <2> QED
    BY <2>1 DEF ObjectType
<1>2. Happens("ADDED", p)
  BY DEF Post
<1> HIDE DEF p
<1>3. PICK e \in EventType :
        /\ log' = Append(log, e)
        /\ log' \in Seq(EventType) /\ Len(log') = Len(log) + 1
        /\ e.object.rv = Len(log) + 1 /\ e.object.spec = p.spec
        /\ store' = IF "ADDED" = "DELETED" THEN NoSet ELSE e.object
  BY <1>1, <1>2, HappensWrites
<1>4. e.object.spec.template = o.spec.template /\ store' = e.object
  BY <1>1, <1>3
<1> QED
  BY <1>3, <1>4

\* A successful PUT does the same, with the status that was stored.
LEMMA PutWrites ==
  ASSUME TypeOK, NEW o \in ObjectType, Put(o)
  PROVE  \E e \in EventType :
           /\ log' = Append(log, e) /\ log' \in Seq(EventType) /\ Len(log') = Len(log) + 1
           /\ e.object.rv = Len(log) + 1 /\ e.object.spec.template = o.spec.template
           /\ store' = e.object
<1> DEFINE p == [o EXCEPT !.spec = Admitted(@), !.status = store.status]
<1>1. p \in ObjectType /\ p.spec.template = o.spec.template
  <2>1. Admitted(o.spec) \in SpecType /\ Admitted(o.spec).template = o.spec.template
    BY AdmittedKeeps DEF ObjectType
  <2>2. store.status \in {0, 1}
    BY DEF Put, TypeOK, StoredType
  <2> QED
    BY <2>1, <2>2 DEF ObjectType
<1>2. Happens("MODIFIED", p)
  BY DEF Put
<1> HIDE DEF p
<1>3. PICK e \in EventType :
        /\ log' = Append(log, e)
        /\ log' \in Seq(EventType) /\ Len(log') = Len(log) + 1
        /\ e.object.rv = Len(log) + 1 /\ e.object.spec = p.spec
        /\ store' = IF "MODIFIED" = "DELETED" THEN NoSet ELSE e.object
  BY <1>1, <1>2, HappensWrites
<1>4. e.object.spec.template = o.spec.template /\ store' = e.object
  BY <1>1, <1>3
<1> QED
  BY <1>3, <1>4

\* Scaling and the status leave the template.
LEMMA SubresourceWrites ==
  ASSUME TypeOK, store # NoSet,
         NEW o \in ObjectType, o.spec.template = store.spec.template,
         NEW t \in {"MODIFIED", "DELETED"}, Happens(t, o)
  PROVE  \E e \in EventType :
           /\ log' = Append(log, e) /\ log' \in Seq(EventType) /\ Len(log') = Len(log) + 1
           /\ e.object.rv = Len(log) + 1 /\ e.object.spec.template = store.spec.template
           /\ store' = IF t = "DELETED" THEN NoSet ELSE e.object
<1>1. PICK e \in EventType :
        /\ log' = Append(log, e)
        /\ log' \in Seq(EventType) /\ Len(log') = Len(log) + 1
        /\ e.object.rv = Len(log) + 1 /\ e.object.spec = o.spec
        /\ store' = IF t = "DELETED" THEN NoSet ELSE e.object
  BY HappensWrites
<1>2. e.object.spec.template = store.spec.template
  BY <1>1
<1> QED
  BY <1>1, <1>2

\* Every call of the program, and every write of somebody else, is a Get or logs
\* one event.
LEMMA ProgramWrites ==
  ASSUME TypeOK, Program \/ Others
  PROVE  Get \/ \E e \in EventType : Wrote(e)
<1>0. version \in {"v1", "v1alpha1"} /\ NoTemplate \in TemplateType \union {NoTemplate}
      /\ sent \in TemplateType \union {NoTemplate}
      /\ Manifests \subseteq SpecType /\ Replicas \subseteq Nat
  BY HijackAssumption DEF TypeOK
<1>1. \A m \in SpecType, n \in Nat :
        Object(m, n) \in ObjectType /\ Object(m, n).spec = m /\ m.template \in TemplateType
  BY DEF Object, ObjectType, Versions, SpecType
<1>2. ASSUME NEW m \in Manifests, Create(m)
      PROVE  \E e \in EventType : Wrote(e)
  <2> DEFINE b == IF version = "v1" THEN CreateBody(Object(m, 0)) ELSE AlphaCreateBody(Object(m, 0))
  <2>1. b \in ObjectType /\ (version = "v1" => b.spec.template = Completed(m.template))
    BY <1>0, <1>1, BodyTypes, DefaultedFields
  <2>2. Post(b) /\ sent' = m.template /\ seen' = To(Decoded(store')) /\ UNCHANGED <<version, watching>>
    BY <1>2 DEF Create
  <2> HIDE DEF b
  <2>3. PICK e \in EventType :
           /\ log' = Append(log, e) /\ log' \in Seq(EventType) /\ Len(log') = Len(log) + 1
           /\ e.object.rv = Len(log) + 1 /\ e.object.spec.template = b.spec.template
           /\ store' = e.object
    BY <2>1, <2>2, PostWrites
  <2> QED
    BY <1>0, <1>1, <2>1, <2>2, <2>3 DEF Wrote
<1>3. ASSUME NEW o \in ObjectType, Update(o)
      PROVE  \E e \in EventType : Wrote(e)
  <2> DEFINE b == IF version = "v1" THEN UpdateBody(o) ELSE AlphaUpdateBody(o)
  <2>1. o.spec \in SpecType /\ o.spec.template \in TemplateType
    BY <1>3 DEF ObjectType, SpecType
  <2>2. b \in ObjectType /\ (version = "v1" => b.spec.template = Completed(o.spec.template))
    BY <1>0, <1>3, <2>1, BodyTypes, DefaultedFields
  <2>3. Put(b) /\ sent' = o.spec.template /\ seen' = To(Decoded(store'))
        /\ UNCHANGED <<version, watching>>
    BY <1>3 DEF Update
  <2> HIDE DEF b
  <2>4. PICK e \in EventType :
           /\ log' = Append(log, e) /\ log' \in Seq(EventType) /\ Len(log') = Len(log) + 1
           /\ e.object.rv = Len(log) + 1 /\ e.object.spec.template = b.spec.template
           /\ store' = e.object
    BY <2>2, <2>3, PutWrites
  <2> QED
    BY <2>1, <2>2, <2>3, <2>4 DEF Wrote
<1>4. ASSUME NEW m \in Manifests, UpdateFromManifest(m)
      PROVE  \E e \in EventType : Wrote(e)
  <2>1. Object(m, seen.rv) \in ObjectType
    BY <1>0, <1>1, <1>4 DEF UpdateFromManifest, TypeOK, StoredType
  <2> QED
    BY <1>3, <1>4, <2>1 DEF UpdateFromManifest
<1>5. ASSUME NEW r \in Replicas, UpdateFromSeen(r)
      PROVE  \E e \in EventType : Wrote(e)
  <2>1. [seen EXCEPT !.spec.replicas = {r}] \in ObjectType
    BY <1>0, <1>5, Rescaled DEF UpdateFromSeen, TypeOK
  <2> QED
    BY <1>3, <1>5, <2>1 DEF UpdateFromSeen
\* The rest leaves the template or forgets what was sent.
<1>6. ASSUME NEW o \in ObjectType, store # NoSet, o.spec.template = store.spec.template,
             NEW t \in {"MODIFIED", "DELETED"}, Happens(t, o),
             sent' = IF t = "DELETED" THEN NoTemplate ELSE sent,
             seen' \in {seen, To(Decoded(store'))}, UNCHANGED <<version, watching>>
      PROVE  \E e \in EventType : Wrote(e)
  <2>1. PICK e \in EventType :
           /\ log' = Append(log, e) /\ log' \in Seq(EventType) /\ Len(log') = Len(log) + 1
           /\ e.object.rv = Len(log) + 1 /\ e.object.spec.template = store.spec.template
           /\ store' = IF t = "DELETED" THEN NoSet ELSE e.object
    BY <1>6, SubresourceWrites
  <2> QED
    BY <1>0, <1>6, <2>1 DEF Wrote
<1>7. ASSUME NEW r \in Replicas, Patch(r) \/ UpdateScale(r)
      PROVE  \E e \in EventType : Wrote(e)
  <2>1. /\ [store EXCEPT !.spec.replicas = {r}] \in ObjectType
        /\ [store EXCEPT !.spec.replicas = {r}].spec.template = store.spec.template
        /\ store # NoSet
    BY <1>0, <1>7, Rescaled DEF Patch, UpdateScale, PatchReplicas, PutScale, TypeOK
  <2>2. /\ Happens("MODIFIED", [store EXCEPT !.spec.replicas = {r}])
        /\ seen' \in {seen, To(Decoded(store'))} /\ UNCHANGED <<sent, version, watching>>
    BY <1>7 DEF Patch, UpdateScale, PatchReplicas, PutScale
  <2> QED
    BY <1>6, <2>1, <2>2
<1>8. CASE UpdateStatus \/ ControllerStatus
  <2>1. PICK o : /\ PutStatus(o) /\ o.status \in {0, 1}
                 /\ seen' \in {seen, To(Decoded(store'))} /\ UNCHANGED <<sent, version, watching>>
    <3>1. CASE UpdateStatus
      <4> DEFINE s == [seen EXCEPT !.status = 1 - @]
      <4>1. s \in ObjectType /\ s.status \in {0, 1}
        BY <3>1 DEF UpdateStatus, TypeOK, StoredType, ObjectType
      <4>2. From(s).status \in {0, 1}
        BY <1>0, <4>1, ConversionKeeps
      <4> QED
        BY <3>1, <4>2 DEF UpdateStatus
    <3>2. CASE ControllerStatus
      <4>1. [store EXCEPT !.status = 1 - @].status \in {0, 1}
        BY <3>2 DEF ControllerStatus, TypeOK, StoredType
      <4> QED
        BY <3>2, <4>1 DEF ControllerStatus
    <3> QED
      BY <1>8, <3>1, <3>2
  <2> DEFINE p == [store EXCEPT !.status = o.status]
  <2>2. store # NoSet /\ Happens("MODIFIED", p)
    BY <2>1 DEF PutStatus
  <2>3. p \in ObjectType /\ p.spec.template = store.spec.template
    BY <2>1, <2>2 DEF TypeOK, StoredType, ObjectType
  <2> HIDE DEF p
  <2> QED
    BY <1>6, <2>1, <2>2, <2>3
<1>9. CASE Delete
  <2>1. /\ store # NoSet /\ Happens("DELETED", store) /\ sent' = NoTemplate
        /\ UNCHANGED <<version, seen, watching>>
    BY <1>9 DEF Delete, Remove
  <2>2. store \in ObjectType
    BY <2>1, StoredIsSet DEF TypeOK
  <2> QED
    BY <1>6, <2>1, <2>2
<1>10. ASSUME NEW m \in Manifests, KubectlCreate(m)
       PROVE  \E e \in EventType : Wrote(e)
  <2>1. Post(Object(m, 0)) /\ sent' = NoTemplate /\ UNCHANGED <<version, seen, watching>>
    BY <1>10 DEF KubectlCreate
  <2>2. PICK e \in EventType :
           /\ log' = Append(log, e) /\ log' \in Seq(EventType) /\ Len(log') = Len(log) + 1
           /\ e.object.rv = Len(log) + 1
           /\ store' = e.object
    BY <1>0, <1>1, <2>1, PostWrites
  <2> QED
    BY <1>0, <2>1, <2>2 DEF Wrote
<1> QED
  BY <1>2, <1>4, <1>5, <1>7, <1>8, <1>9, <1>10 DEF Program, Others

-----------------------------------------------------------------------------
(* The invariant. *)

\* The resource version is the number of the event: the store has the last one.
Numbered ==
  /\ \A i \in 1 .. Len(log) : log[i].object.rv = i
  /\ store # NoSet => store.rv = Len(log)
  /\ seen # NoSet => seen.rv <= Len(log)

\* What the program has read is still what is stored if the versions agree.
SeenIsStored ==
  seen # NoSet /\ store # NoSet /\ seen.rv = store.rv
    => seen.spec.template = store.spec.template

\* The template the program has sent is in force, completed.
SentInForce ==
  version = "v1" /\ sent # NoTemplate
    => store # NoSet /\ store.spec.template = Completed(sent)

\* The event i as the typed client decodes it, and as hijackWatch passes it on.
DecodedEvent(i) == [log[i] EXCEPT !.object = Decoded(@)]
Passed(i) == [log[i] EXCEPT !.object = To(Decoded(@))]

Holding == IF source.hold \in EventType THEN 1 ELSE 0
Sending == IF w.pc = "send" THEN 1 ELSE 0

\* While the reader reads, the events between what it knows and the position of
\* the source are on their way: one that hijackWatch holds, one that the source
\* holds, in this order. A watch is opened only after the last one is closed.
Position ==
  /\ reader.got <= Len(log)
  /\ reader.pc \in {"list", "watch"} => w.pc \in {"none", "closed"}
  /\ reader.pc \in {"reading", "draining"} =>
       /\ source.pos = reader.got + Sending + Holding
       /\ source.pos <= Len(log)
       /\ source.hold \in EventType => source.hold = DecodedEvent(source.pos)
       /\ w.pc = "send" => w.held = Passed(reader.got + 1)

Inv == TypeOK /\ Numbered /\ SeenIsStored /\ SentInForce /\ Position

\* The invariant holds at first.
LEMMA InvInit == Init => Inv
<1> SUFFICES ASSUME Init PROVE Inv
  OBVIOUS
<1>1. log = <<>> /\ log \in Seq(EventType) /\ Len(log) = 0
  BY EmptySeq DEF Init
<1>2. TypeOK
  <2>1. /\ reader \in [pc : {"list", "watch", "reading", "draining", "done", "gone"}, got : Nat,
                      cache : StoredType \union {NoSet}, last : EventType \union {NoEvent}]
        /\ w \in [pc : {"none", "select", "send", "close", "closed"},
                 held : EventType \union {NoEvent}, stopped : BOOLEAN]
    BY DEF Init
  <2>2. source \in [pc : {"none", "open", "failed", "closed"}, pos : Nat,
                   hold : EventType \union {NoEvent, [type |-> "ERROR"]}]
    BY DEF Init
  <2>3. breaks \in 0 .. MaxBreaks
    BY HijackAssumption DEF Init
  <2> QED
    BY <1>1, <2>1, <2>2, <2>3 DEF Init, TypeOK
<1>3. Numbered /\ SeenIsStored /\ SentInForce
  BY <1>1 DEF Init, Numbered, SeenIsStored, SentInForce
<1>4. Position
  BY <1>1 DEF Init, Position
<1> QED
  BY <1>2, <1>3, <1>4 DEF Inv

\* A write leaves the events before it, and so those on their way, as they are.
LEMMA InvWrote ==
  ASSUME Inv, NEW e \in EventType, Wrote(e)
  PROVE  Inv'
<1>0. TypeOK /\ Len(log) \in Nat /\ version \in {"v1", "v1alpha1"} /\ e.object \in StoredType
  BY LenProperties DEF Inv, TypeOK, EventType
<1>1. /\ \A i \in 1 .. Len(log) : log'[i] = log[i]
      /\ log'[Len(log) + 1] = e
  BY <1>0, AppendProperties DEF Wrote, TypeOK
<1>2. store' \in StoredType \union {NoSet} /\ seen' \in StoredType \union {NoSet}
  <2>1. To(Decoded(NoSet)) = NoSet
    BY DEF To, Decoded
  <2>2. To(Decoded(e.object)) \in StoredType
    BY <1>0, ReadKeeps
  <2>3. store' \in {NoSet, e.object} /\ seen' \in {seen, To(Decoded(store'))}
    BY DEF Wrote
  <2>4. seen' \in {seen, NoSet, To(Decoded(e.object))}
    BY <2>1, <2>3
  <2> QED
    BY <1>0, <2>2, <2>3, <2>4 DEF TypeOK
<1>3. TypeOK'
  BY <1>0, <1>2 DEF Wrote, TypeOK, watching
<1>4. seen' = seen \/ (seen' = NoSet /\ store' = NoSet)
      \/ (store' = e.object /\ seen' = To(Decoded(e.object)))
  BY DEF Wrote, To, Decoded
<1>5. To(Decoded(e.object)).rv = Len(log) + 1 /\ To(Decoded(e.object)).spec = e.object.spec
  BY <1>0, ReadKeeps DEF Wrote
<1>6. Numbered'
  <2>1. \A i \in 1 .. Len(log') : log'[i].object.rv = i
    <3> SUFFICES ASSUME NEW i \in 1 .. Len(log) + 1 PROVE log'[i].object.rv = i
      BY DEF Wrote
    <3>1. CASE i = Len(log) + 1
      BY <1>1, <3>1 DEF Wrote
    <3>2. CASE i \in 1 .. Len(log)
      BY <1>1, <3>2 DEF Inv, Numbered
    <3> QED
      BY <1>0, <3>1, <3>2
  <2>2. store' # NoSet => store'.rv = Len(log')
    BY DEF Wrote
  <2>3. seen' # NoSet => seen'.rv <= Len(log')
    <3>1. seen # NoSet => seen.rv <= Len(log) + 1
      BY <1>0 DEF Inv, Numbered, TypeOK, StoredType
    <3> QED
      BY <1>0, <1>4, <1>5, <3>1 DEF Wrote
  <2> QED
    BY <2>1, <2>2, <2>3 DEF Numbered
<1>7. SeenIsStored'
  <2>1. CASE seen' = seen
    <3>1. seen # NoSet => seen.rv <= Len(log) /\ seen.rv \in Nat
      BY <1>0 DEF Inv, Numbered, TypeOK, StoredType
    <3>2. store' # NoSet => store'.rv = Len(log) + 1
      BY DEF Wrote
    <3> QED
      BY <1>0, <2>1, <3>1, <3>2 DEF SeenIsStored
  <2>2. CASE seen' = NoSet /\ store' = NoSet
    BY <2>2 DEF SeenIsStored
  <2>3. CASE store' = e.object /\ seen' = To(Decoded(e.object))
    BY <1>5, <2>3 DEF SeenIsStored
  <2> QED
    BY <1>4, <2>1, <2>2, <2>3
<1>8. SentInForce'
  <2>1. e.object # NoSet
    BY <1>0, StoredIsSet
  <2> QED
    BY <2>1 DEF Wrote, Inv, SentInForce
<1>9. Position'
  <2>1. UNCHANGED <<version, reader, w, source>>
    BY DEF Wrote, watching
  <2>2. \A i \in 1 .. Len(log) : DecodedEvent(i)' = DecodedEvent(i) /\ Passed(i)' = Passed(i)
    BY <1>1, <2>1 DEF DecodedEvent, Passed, To, Decoded, ToBuiltinStatefulSet,
       AlphaToBuiltinStatefulSet
  <2>3. reader.got \in Nat /\ source.pos \in Nat
    BY <1>0 DEF TypeOK
  <2>4. reader.got <= Len(log) /\ Len(log') = Len(log) + 1
    BY DEF Wrote, Inv, Position
  <2>5. reader.pc \in {"reading", "draining"} =>
          /\ source.pos' = reader'.got + Sending' + Holding'
          /\ source.pos' <= Len(log')
          /\ source.hold' \in EventType => source.hold' = DecodedEvent(source.pos)'
          /\ w.pc' = "send" => w.held' = Passed(reader.got + 1)'
    <3> SUFFICES ASSUME reader.pc \in {"reading", "draining"}
                 PROVE  /\ source.pos' = reader'.got + Sending' + Holding'
                        /\ source.pos' <= Len(log')
                        /\ source.hold' \in EventType => source.hold' = DecodedEvent(source.pos)'
                        /\ w.pc' = "send" => w.held' = Passed(reader.got + 1)'
      OBVIOUS
    <3>1. /\ source.pos = reader.got + Sending + Holding
          /\ source.pos <= Len(log)
          /\ source.hold \in EventType => source.hold = DecodedEvent(source.pos)
          /\ w.pc = "send" => w.held = Passed(reader.got + 1)
      BY DEF Inv, Position
    <3>2. /\ source.hold \in EventType => source.pos \in 1 .. Len(log)
          /\ w.pc = "send" => reader.got + 1 \in 1 .. Len(log)
      BY <1>0, <2>3, <3>1 DEF Sending, Holding
    <3>3. Sending' = Sending /\ Holding' = Holding
      BY <2>1 DEF Sending, Holding
    <3>4. source.hold \in EventType => DecodedEvent(source.pos)' = DecodedEvent(source.pos)
      BY <2>1, <2>2, <3>2
    <3>5. w.pc = "send" => Passed(reader.got + 1)' = Passed(reader.got + 1)
      BY <2>1, <2>2, <3>2
    <3>6. source.pos <= Len(log')
      BY <1>0, <2>3, <2>4, <3>1
    <3> QED
      BY <2>1, <3>1, <3>3, <3>4, <3>5, <3>6
  <2>6. reader'.got <= Len(log')
    BY <1>0, <2>1, <2>3, <2>4
  <2> QED
    BY <2>1, <2>5, <2>6 DEF Inv, Position
<1> QED
  BY <1>3, <1>6, <1>7, <1>8, <1>9 DEF Inv

\* Steps that touch neither the store nor what the program knows.
LEMMA InvFrame ==
  ASSUME Inv, UNCHANGED <<version, server, seen, sent>>, TypeOK', Position'
  PROVE  Inv'
BY DEF Inv, Numbered, SeenIsStored, SentInForce, server

\* The source, the goroutine of hijackWatch and the reader keep the events on
\* their way in order.
LEMMA InvWatch ==
  ASSUME Inv, Source \/ ServerEnds \/ Goroutine \/ Reader \/ StopReading
  PROVE  Inv'
<1>0. /\ TypeOK /\ Position /\ Len(log) \in Nat /\ version \in {"v1", "v1alpha1"}
      /\ reader.got \in Nat /\ source.pos \in Nat
      /\ \A i \in 1 .. Len(log) : log[i] \in EventType
      /\ Numbered
  BY LenProperties, ElementOfSeq DEF Inv, TypeOK
<1>1. UNCHANGED <<version, server, seen, sent>>
  BY DEF Source, SourceDecodes, SourceStopped, ServerEnds, Goroutine, Receive, ReceiveReturns,
         CloseResult, Send, Reader, List, Watch, SeeClosed, StopReading
<1>2. \A i : DecodedEvent(i)' = DecodedEvent(i) /\ Passed(i)' = Passed(i)
  BY <1>1 DEF server, DecodedEvent, Passed, To, Decoded, ToBuiltinStatefulSet,
              AlphaToBuiltinStatefulSet
<1>3. \A i \in 1 .. Len(log) :
        /\ DecodedEvent(i) \in EventType /\ Passed(i) \in EventType
        /\ Passed(i).object.rv = i
        /\ Passed(i) = [DecodedEvent(i) EXCEPT !.object = To(@)]
  <2> SUFFICES ASSUME NEW i \in 1 .. Len(log)
               PROVE  /\ DecodedEvent(i) \in EventType /\ Passed(i) \in EventType
                      /\ Passed(i).object.rv = i
                      /\ Passed(i) = [DecodedEvent(i) EXCEPT !.object = To(@)]
    OBVIOUS
  <2>1. log[i] \in EventType /\ log[i].object \in StoredType /\ log[i].object.rv = i
    BY <1>0 DEF EventType, Numbered
  <2>2. /\ Decoded(log[i].object) \in StoredType
        /\ To(Decoded(log[i].object)) \in StoredType /\ To(Decoded(log[i].object)).rv = i
    BY <1>0, <2>1, ReadKeeps
  <2> QED
    BY <2>1, <2>2 DEF DecodedEvent, Passed, EventType
<1>4. SUFFICES TypeOK' /\ Position'
  BY <1>1, InvFrame
<1> USE <1>0
<1>5. CASE SourceDecodes
  <2>1. /\ source.pos + 1 \in 1 .. Len(log) /\ source.hold = NoEvent
        /\ source' = [source EXCEPT !.pos = @ + 1, !.hold = DecodedEvent(source.pos + 1)]
    BY <1>5 DEF SourceDecodes, DecodedEvent
  <2>2. DecodedEvent(source.pos + 1) \in EventType
    BY <1>3, <2>1
  <2>3. source'.pos = source.pos + 1 /\ source'.hold = DecodedEvent(source.pos + 1)
    BY <2>1 DEF TypeOK
  <2>4. TypeOK'
    <3> DEFINE n == source.pos + 1
               e == DecodedEvent(source.pos + 1)
    <3>1. /\ source' = [source EXCEPT !.pos = n, !.hold = e]
          /\ n \in Nat /\ e \in EventType
      BY <2>1, <2>2
    <3> HIDE DEF n, e
    <3>2. source' \in [pc : {"none", "open", "failed", "closed"}, pos : Nat,
                        hold : EventType \union {NoEvent, [type |-> "ERROR"]}]
      <4>1. e \in EventType \union {NoEvent, [type |-> "ERROR"]}
        BY <3>1
      <4> QED
        BY ONLY TypeOK, <3>1, <4>1 DEF TypeOK
    <3>3. UNCHANGED <<reader, w, breaks, crashed>>
      BY <1>5 DEF SourceDecodes
    <3> QED
      BY <1>1, <3>2, <3>3 DEF TypeOK, server
  <2>5. Holding = 0 /\ Holding' = 1 /\ Sending' = Sending /\ UNCHANGED <<reader, w, log>>
    BY <1>1, <1>5, <2>1, <2>2, <2>3, StoredIsSet DEF SourceDecodes, Holding, Sending, server
  <2>6. Position'
    BY <1>2, <2>1, <2>2, <2>3, <2>5 DEF Position, Sending
  <2> QED
    BY <2>4, <2>6
\* The source ends, in one way or another, while it holds no event.
<1>6. CASE SourceStopped \/ ServerEnds
  <2>1. /\ source.hold = NoEvent /\ UNCHANGED <<reader, w, log>>
        /\ \/ source' = [source EXCEPT !.pc = "closed"]
           \/ source' = [source EXCEPT !.pc = "failed", !.hold = [type |-> "ERROR"]]
    BY <1>1, <1>6 DEF SourceStopped, ServerEnds, server
  <2>2. source'.pos = source.pos /\ source'.hold \in {NoEvent, [type |-> "ERROR"]}
        /\ source' \in [pc : {"none", "open", "failed", "closed"}, pos : Nat,
                        hold : EventType \union {NoEvent, [type |-> "ERROR"]}]
    BY <2>1 DEF TypeOK
  <2>3. breaks' \in 0 .. MaxBreaks
    BY <1>6, HijackAssumption DEF SourceStopped, ServerEnds, TypeOK
  <2>4. TypeOK'
    BY <1>1, <1>6, <2>1, <2>2, <2>3 DEF SourceStopped, ServerEnds, TypeOK, server
  <2>5. source.hold \notin EventType /\ source'.hold \notin EventType
    BY <2>1, <2>2, StoredIsSet
  <2>6. Holding = 0 /\ Holding' = 0 /\ Sending' = Sending
    BY <2>1, <2>5 DEF Holding, Sending
  <2>7. Position'
    BY <1>2, <2>1, <2>2, <2>5, <2>6 DEF Position
  <2> QED
    BY <2>4, <2>7
<1>7. CASE Receive
  <2>1. source.hold # NoEvent /\ w.pc = "select" /\ UNCHANGED <<reader, log>>
        /\ source' = [source EXCEPT !.hold = NoEvent]
    BY <1>1, <1>7 DEF Receive, server
  <2>2. source'.pos = source.pos /\ source'.hold = NoEvent
        /\ source' \in [pc : {"none", "open", "failed", "closed"}, pos : Nat,
                        hold : EventType \union {NoEvent, [type |-> "ERROR"]}]
    BY <2>1 DEF TypeOK
  <2>3. Holding' = 0 /\ Sending = 0
    BY <2>1, <2>2, StoredIsSet DEF Holding, Sending
  <2>4. CASE source.hold.type = "ERROR"
    <3>1. UNCHANGED w /\ crashed' = TRUE
      BY <1>7, <2>4 DEF Receive
    <3>2. source.hold \notin EventType /\ Holding = 0 /\ Sending' = 0
      BY <2>1, <2>4, <3>1, StoredIsSet DEF Holding, Sending
    <3>3. TypeOK'
      BY <1>1, <1>7, <2>1, <2>2, <3>1 DEF Receive, TypeOK, server
    <3>4. Position'
      BY <2>1, <2>2, <2>3, <3>1, <3>2, StoredIsSet DEF Position
    <3> QED
      BY <3>3, <3>4
  <2>5. CASE source.hold.type # "ERROR"
    <3>1. source.hold \in EventType /\ UNCHANGED crashed
      BY <1>7, <2>1, <2>5 DEF Receive, TypeOK
    <3>2. w' = [w EXCEPT !.pc = "send", !.held = [source.hold EXCEPT !.object = To(@)]]
      BY <1>7, <2>5 DEF Receive
    <3>3. [source.hold EXCEPT !.object = To(@)] \in EventType
      <4>1. To(source.hold.object) \in StoredType
        BY <3>1, ReadKeeps DEF EventType
      <4> QED
        BY <3>1, <4>1 DEF EventType
    <3>4. w'.pc = "send" /\ w'.held = [source.hold EXCEPT !.object = To(@)]
          /\ w' \in [pc : {"none", "select", "send", "close", "closed"},
                     held : EventType \union {NoEvent}, stopped : BOOLEAN]
      BY <3>2, <3>3 DEF TypeOK
    <3>5. TypeOK'
      BY <1>1, <1>7, <2>1, <2>2, <3>1, <3>4 DEF Receive, TypeOK, server
    <3>6. Sending' = 1 /\ Holding = 1
      BY <3>1, <3>4 DEF Sending, Holding
    <3>7. ASSUME reader.pc \in {"reading", "draining"}
          PROVE  source.pos = reader.got + 1 /\ source.pos <= Len(log)
                 /\ w'.held = Passed(reader.got + 1)
      <4>1. source.pos = reader.got + 1 /\ source.pos <= Len(log)
            /\ source.hold = DecodedEvent(source.pos)
        BY <2>3, <3>1, <3>6, <3>7 DEF Position
      <4>2. Passed(source.pos) = [DecodedEvent(source.pos) EXCEPT !.object = To(@)]
        BY <1>3, <4>1
      <4> QED
        BY <3>4, <4>1, <4>2
    <3>8. reader.pc \in {"list", "watch"} => FALSE
      BY <2>1 DEF Position
    <3>9. Position'
      BY <1>2, <2>1, <2>2, <2>3, <3>4, <3>6, <3>7, <3>8, StoredIsSet DEF Position
    <3> QED
      BY <3>5, <3>9
  <2> QED
    BY <2>4, <2>5
<1>8. CASE ReceiveReturns \/ CloseResult
  <2>1. /\ w.pc \in {"select", "close"} /\ UNCHANGED <<reader, source, log>>
        /\ w' \in [pc : {"close", "closed"}, held : EventType \union {NoEvent}, stopped : BOOLEAN]
        /\ w'.held = w.held
    BY <1>1, <1>8 DEF ReceiveReturns, CloseResult, server, TypeOK
  <2>2. Sending = 0 /\ Sending' = 0 /\ Holding' = Holding /\ w'.pc \in {"close", "closed"}
    BY <2>1 DEF Sending, Holding
  <2>3. TypeOK'
    BY <1>1, <1>8, <2>1 DEF ReceiveReturns, CloseResult, TypeOK, server
  <2>4. Position'
    BY <1>2, <2>1, <2>2 DEF Position
  <2> QED
    BY <2>3, <2>4
<1>9. CASE Send
  <2>1. /\ w.pc = "send" /\ reader.pc \in {"reading", "draining"} /\ UNCHANGED <<source, log>>
        /\ w' = [w EXCEPT !.pc = "select", !.held = NoEvent]
    BY <1>1, <1>9 DEF Send, server
  <2>2. /\ source.pos = reader.got + 1 + Holding /\ w.held = Passed(reader.got + 1)
        /\ source.pos <= Len(log) /\ Holding \in {0, 1}
    BY <2>1 DEF Position, Sending, Holding
  <2>3. reader.got + 1 \in 1 .. Len(log)
    BY <2>2
  <2>4. w.held \in EventType /\ w.held.object.rv = reader.got + 1 /\ w.held.object \in StoredType
    BY <1>3, <2>2, <2>3 DEF EventType
  <2> DEFINE c == IF w.held.type = "DELETED" THEN NoSet ELSE w.held.object
  <2>5. reader' = [reader EXCEPT !.got = w.held.object.rv, !.last = w.held, !.cache = c]
    BY <1>9 DEF Send
  <2>6. c \in StoredType \union {NoSet}
    BY <2>4
  <2> DEFINE g == reader.got + 1
             h == w.held
  <2> HIDE DEF c
  <2>70. reader' = [reader EXCEPT !.got = g, !.last = h, !.cache = c] /\ g \in Nat
         /\ h \in EventType
    BY <2>4, <2>5
  <2> HIDE DEF g, h
  <2>71. reader' \in [pc : {"list", "watch", "reading", "draining", "done", "gone"}, got : Nat,
                 cache : StoredType \union {NoSet}, last : EventType \union {NoEvent}]
    BY <2>6, <2>70 DEF TypeOK
  <2>72. reader'.pc = reader.pc /\ reader'.got = g
    BY <2>70 DEF TypeOK
  <2>7. /\ reader' \in [pc : {"list", "watch", "reading", "draining", "done", "gone"}, got : Nat,
                 cache : StoredType \union {NoSet}, last : EventType \union {NoEvent}]
        /\ reader'.pc = reader.pc /\ reader'.got = reader.got + 1
    BY <2>71, <2>72 DEF g
  <2>8. /\ w' \in [pc : {"none", "select", "send", "close", "closed"},
                  held : EventType \union {NoEvent}, stopped : BOOLEAN]
        /\ w'.pc = "select"
    BY <2>1 DEF TypeOK
  <2>9. TypeOK'
    BY <1>1, <1>9, <2>1, <2>7, <2>8 DEF Send, TypeOK, server
  <2>10. Sending' = 0 /\ Holding' = Holding
    BY <2>1, <2>8 DEF Sending, Holding
  <2>11. source.hold \in EventType => source.hold = DecodedEvent(source.pos)
    BY <2>1 DEF Position
  <2>12. Position'
    BY <1>2, <2>1, <2>2, <2>3, <2>7, <2>8, <2>10, <2>11 DEF Position
  <2> QED
    BY <2>9, <2>12
<1>10. CASE List
  <2>1. PICK c \in StoredType \union {NoSet} :
          reader' = [reader EXCEPT !.pc = "watch", !.got = Len(log), !.cache = c]
    <3> DEFINE items == ToList({o \in {store} : o # NoSet})
    <3>1. items \subseteq StoredType
      <4>1. CASE store = NoSet
        <5>1. {o \in {store} : o # NoSet} = {}
          BY <4>1
        <5> QED
          BY <5>1 DEF ToList, ToBuiltinStetefulsetList, AlphaToBuiltinStetefulsetList
      <4>2. CASE store # NoSet
        <5>1. {o \in {store} : o # NoSet} = {store} /\ store \in StoredType
          BY <4>2 DEF TypeOK
        <5> QED
          BY <5>1, ListKeeps
      <4> QED
        BY <4>1, <4>2
    <3>2. PICK c \in IF items = {} THEN {NoSet} ELSE items :
            reader' = [reader EXCEPT !.pc = "watch", !.got = Len(log), !.cache = c]
      BY <1>10 DEF List
    <3> QED
      BY <3>1, <3>2
  <2>2. /\ reader' \in [pc : {"list", "watch", "reading", "draining", "done", "gone"}, got : Nat,
                 cache : StoredType \union {NoSet}, last : EventType \union {NoEvent}]
        /\ reader'.pc = "watch" /\ reader'.got = Len(log)
    BY <2>1 DEF TypeOK
  <2>3. UNCHANGED <<w, source, log, breaks, crashed>> /\ reader.pc = "list"
    BY <1>1, <1>10 DEF List, server
  <2>4. TypeOK'
    BY <1>1, <2>2, <2>3 DEF TypeOK, server
  <2>5. Position'
    BY <2>2, <2>3 DEF Position
  <2> QED
    BY <2>4, <2>5
<1>11. CASE Watch
  <2>1. /\ reader' = [reader EXCEPT !.pc = "reading"] /\ w' = newHijackWatch
        /\ source' = [pc |-> "open", pos |-> reader.got, hold |-> NoEvent]
        /\ UNCHANGED <<log, breaks, crashed>>
    BY <1>1, <1>11 DEF Watch, server
  <2>2. /\ reader' \in [pc : {"list", "watch", "reading", "draining", "done", "gone"}, got : Nat,
                 cache : StoredType \union {NoSet}, last : EventType \union {NoEvent}]
        /\ reader'.pc = "reading" /\ reader'.got = reader.got
    BY <2>1 DEF TypeOK
  <2>3. TypeOK'
    BY <1>1, <2>1, <2>2 DEF TypeOK, server, newHijackWatch
  <2>4. Sending' = 0 /\ Holding' = 0 /\ w'.pc = "select"
    BY <2>1, StoredIsSet DEF Sending, Holding, newHijackWatch
  <2>5. Position'
    BY <2>1, <2>2, <2>4, StoredIsSet DEF Position
  <2> QED
    BY <2>3, <2>5
<1>12. CASE SeeClosed \/ StopReading
  <2>1. /\ UNCHANGED <<source, log, breaks, crashed>>
        /\ \E pc \in {"watch", "list", "done", "draining", "gone"} :
             /\ reader' = [reader EXCEPT !.pc = pc]
             /\ pc \in {"watch", "list"} => w.pc = "closed"
             /\ pc = "draining" => reader.pc = "reading"
    BY <1>1, <1>12 DEF SeeClosed, StopReading, server
  <2>2. /\ reader' \in [pc : {"list", "watch", "reading", "draining", "done", "gone"}, got : Nat,
                 cache : StoredType \union {NoSet}, last : EventType \union {NoEvent}]
        /\ reader'.got = reader.got /\ reader'.pc \in {"watch", "list", "done", "draining", "gone"}
        /\ reader'.pc \in {"watch", "list"} => w.pc = "closed"
        /\ reader'.pc = "draining" => reader.pc = "reading"
    BY <2>1 DEF TypeOK
  <2>3. /\ w' \in [pc : {"none", "select", "send", "close", "closed"},
                  held : EventType \union {NoEvent}, stopped : BOOLEAN]
        /\ w'.pc = w.pc /\ w'.held = w.held
    BY <1>12 DEF SeeClosed, StopReading, Stop, TypeOK
  <2>4. TypeOK'
    BY <1>1, <2>1, <2>2, <2>3 DEF TypeOK, server
  <2>5. Sending' = Sending /\ Holding' = Holding
    BY <2>1, <2>3 DEF Sending, Holding
  <2>6. Position'
    BY <1>2, <2>1, <2>2, <2>3, <2>5 DEF Position
  <2> QED
    BY <2>4, <2>6
<1> QED
  BY <1>5, <1>6, <1>7, <1>8, <1>9, <1>10, <1>11, <1>12 DEF Source, Goroutine, Reader

\* What the program reads is what is stored.
LEMMA InvGet ==
  ASSUME Inv, Get
  PROVE  Inv'
<1>0. TypeOK /\ Len(log) \in Nat /\ version \in {"v1", "v1alpha1"} /\ Numbered
      /\ store \in StoredType \union {NoSet}
  BY LenProperties DEF Inv, TypeOK
<1>1. seen' = To(Decoded(store)) /\ UNCHANGED <<version, store, log, sent, watching>>
  BY DEF Get, server
<1>2. CASE store = NoSet
  <2>1. seen' = NoSet
    BY <1>1, <1>2 DEF To, Decoded
  <2>2. UNCHANGED <<DecodedEvent(source.pos), Passed(reader.got + 1), Sending, Holding>>
    BY <1>1 DEF watching, DecodedEvent, Passed, To, Decoded, ToBuiltinStatefulSet,
                AlphaToBuiltinStatefulSet, Sending, Holding
  <2>3. TypeOK'
    BY <1>0, <1>1, <2>1 DEF TypeOK, watching
  <2>4. Position'
    BY <1>1, <2>2 DEF Inv, Position, watching
  <2> QED
    BY <1>1, <2>1, <2>3, <2>4 DEF Inv, Numbered, SeenIsStored, SentInForce
<1>3. CASE store \in StoredType
  <2>1. seen' \in StoredType /\ seen'.rv = store.rv /\ seen'.spec = store.spec /\ store # NoSet
    BY <1>0, <1>1, <1>3, ReadKeeps, StoredIsSet
  <2>2. UNCHANGED <<DecodedEvent(source.pos), Passed(reader.got + 1), Sending, Holding>>
    BY <1>1 DEF watching, DecodedEvent, Passed, To, Decoded, ToBuiltinStatefulSet,
                AlphaToBuiltinStatefulSet, Sending, Holding
  <2>3. TypeOK'
    BY <1>0, <1>1, <2>1 DEF TypeOK, watching
  <2>4. Position'
    BY <1>1, <2>2 DEF Inv, Position, watching
  <2>5. Numbered' /\ SeenIsStored' /\ SentInForce'
    BY <1>0, <1>1, <2>1 DEF Inv, Numbered, SeenIsStored, SentInForce
  <2> QED
    BY <2>3, <2>4, <2>5 DEF Inv
<1> QED
  BY <1>0, <1>2, <1>3

\* A step that changes nothing keeps everything.
LEMMA InvStutter ==
  ASSUME Inv, UNCHANGED vars
  PROVE  Inv'
<1>1. UNCHANGED <<version, store, log, seen, sent, reader, w, source, breaks, crashed>>
  BY DEF vars
<1>2. UNCHANGED <<DecodedEvent(source.pos), Passed(reader.got + 1), Sending, Holding>>
  BY <1>1 DEF DecodedEvent, Passed, To, Decoded, ToBuiltinStatefulSet,
              AlphaToBuiltinStatefulSet, Sending, Holding
<1>3. TypeOK'
  BY <1>1 DEF Inv, TypeOK
<1>4. Position'
  BY <1>1, <1>2 DEF Inv, Position
<1> QED
  BY <1>1, <1>3, <1>4 DEF Inv, Numbered, SeenIsStored, SentInForce

\* The invariant holds of every behaviour.
LEMMA InvHolds == Spec => []Inv
<1>1. Inv /\ [Next]_vars => Inv'
  <2> SUFFICES ASSUME Inv, [Next]_vars PROVE Inv'
    OBVIOUS
  <2>1. CASE Program \/ Others
    <3>1. Get \/ \E e \in EventType : Wrote(e)
      BY <2>1, ProgramWrites DEF Inv
    <3> QED
      BY <3>1, InvGet, InvWrote
  <2>2. CASE Source \/ ServerEnds \/ Goroutine \/ Reader \/ StopReading
    BY <2>2, InvWatch
  <2>3. CASE UNCHANGED vars
    BY <2>3, InvStutter
  <2> QED
    BY <2>1, <2>2, <2>3 DEF Next
<1> QED
  BY <1>1, InvInit, PTL DEF Spec

\* Every variable keeps its type, for any manifests and any number of writes
\* and watches: in particular what hijackWatch hands to its reader is always a
\* set that the API server has numbered, never the Status of an ERROR event.
THEOREM TypeCorrect == Spec => []TypeOK
<1>1. Inv => TypeOK
  BY DEF Inv
<1> QED
  BY <1>1, InvHolds, PTL

-----------------------------------------------------------------------------
(* An update that leaves the template leaves the stored one. *)

\* What the body of an Update says of the stored template.
LEMMA UpdateStores ==
  ASSUME TypeOK, NEW o \in ObjectType, Update(o)
  PROVE  /\ store # NoSet /\ o.rv = store.rv
         /\ version = "v1" => store'.spec.template = Completed(o.spec.template)
         /\ version = "v1alpha1" => store'.spec.template = o.spec.template
<1> DEFINE b == IF version = "v1" THEN UpdateBody(o) ELSE AlphaUpdateBody(o)
<1>0. version \in {"v1", "v1alpha1"} /\ o.spec \in SpecType
  BY DEF TypeOK, ObjectType
<1>1. /\ b \in ObjectType /\ b.rv = o.rv
      /\ version = "v1" => b.spec.template = Completed(o.spec.template)
      /\ version = "v1alpha1" => b.spec.template = o.spec.template
  BY <1>0, BodyTypes, DefaultedFields
<1>2. Put(b)
  BY DEF Update
<1> HIDE DEF b
<1>3. PICK e \in EventType : e.object.spec.template = b.spec.template /\ store' = e.object
  BY <1>1, <1>2, PutWrites
<1>4. store # NoSet /\ b.rv = store.rv
  BY <1>2 DEF Put
<1> QED
  BY <1>1, <1>3, <1>4

\* An Update whose template is the one its sender has sent before (v1) or has
\* read (v1alpha1, or v1 if it was stored complete) never changes the stored
\* template, however many writes of others came in between: it starts no
\* rolling update.
THEOREM UpdateKeepsTemplate == Spec => TemplateKept
<1> DEFINE Kept ==
      \A m \in Manifests, r \in Replicas :
       /\ version = "v1" /\ UpdateFromManifest(m) /\ m.template = sent
          => store'.spec.template = store.spec.template
       /\ /\ UpdateFromSeen(r)
          /\ \/ version = "v1alpha1"
             \/ store.spec = SetObjectDefaults_StatefulSet(store.spec)
          => store'.spec.template = store.spec.template
<1>1. Inv /\ [Next]_vars => [Kept]_vars
  <2> SUFFICES ASSUME Inv, NEW m \in Manifests, NEW r \in Replicas
               PROVE  /\ version = "v1" /\ UpdateFromManifest(m) /\ m.template = sent
                         => store'.spec.template = store.spec.template
                      /\ /\ UpdateFromSeen(r)
                         /\ \/ version = "v1alpha1"
                            \/ store.spec = SetObjectDefaults_StatefulSet(store.spec)
                         => store'.spec.template = store.spec.template
    BY DEF Kept
  <2>0. TypeOK /\ m \in SpecType /\ r \in Nat /\ version \in {"v1", "v1alpha1"}
        /\ seen \in StoredType \union {NoSet}
        /\ store \in StoredType \union {NoSet}
    BY HijackAssumption DEF Inv, TypeOK
  <2>1. ASSUME version = "v1", UpdateFromManifest(m), m.template = sent
        PROVE  store'.spec.template = store.spec.template
    <3> DEFINE o == Object(m, seen.rv)
    <3>1. o \in ObjectType /\ o.spec.template = m.template
      BY <2>0, <2>1 DEF UpdateFromManifest, Object, ObjectType, StoredType, Versions
    <3>2. Update(o)
      BY <2>1 DEF UpdateFromManifest
    <3> HIDE DEF o
    <3>3. store'.spec.template = Completed(sent)
      BY <2>0, <2>1, <3>1, <3>2, UpdateStores
    <3>4. m.template \in TemplateType /\ NoTemplate \notin TemplateType
      <4>1. m.template \in TemplateType
        BY <2>0 DEF SpecType
      <4>2. DOMAIN NoTemplate = {}
        BY EmptySeq DEF NoTemplate
      <4>3. \A t \in TemplateType : "podSpec" \in DOMAIN t
        BY DEF TemplateType, TemplateParts
      <4> QED
        BY <4>1, <4>2, <4>3
    <3>5. sent # NoTemplate
      BY <2>1, <3>4
    <3> QED
      BY <2>1, <3>3, <3>5 DEF Inv, SentInForce
  <2>2. ASSUME UpdateFromSeen(r),
               version = "v1alpha1" \/ store.spec = SetObjectDefaults_StatefulSet(store.spec)
        PROVE  store'.spec.template = store.spec.template
    <3> DEFINE o == [seen EXCEPT !.spec.replicas = {r}]
    <3>1. seen \in StoredType /\ seen # NoSet
      BY <2>0, <2>2 DEF UpdateFromSeen
    <3>2. o \in ObjectType /\ o.spec.template = seen.spec.template /\ o.rv = seen.rv
      BY <2>0, <3>1, Rescaled
    <3>3. Update(o)
      BY <2>2 DEF UpdateFromSeen
    <3> HIDE DEF o
    <3>4. /\ store # NoSet /\ seen.rv = store.rv
          /\ version = "v1" => store'.spec.template = Completed(seen.spec.template)
          /\ version = "v1alpha1" => store'.spec.template = seen.spec.template
      BY <2>0, <3>2, <3>3, UpdateStores
    <3>5. seen.spec.template = store.spec.template
      BY <3>1, <3>4 DEF Inv, SeenIsStored
    <3>6. store.spec = SetObjectDefaults_StatefulSet(store.spec)
            => Completed(store.spec.template) = store.spec.template
      BY <2>0, <3>4, DefaultedFields DEF StoredType
    <3> QED
      BY <2>0, <2>2, <3>4, <3>5, <3>6
  <2> QED
    BY <2>1, <2>2
<1> QED
  BY <1>1, InvHolds, PTL DEF Spec, TemplateKept

-----------------------------------------------------------------------------
(* hijackWatch implements the contract of a watch. *)

\* The history of the contract.
History == [i \in DOMAIN log |-> Passed(i)]

\* The converted history is as long as the history.
LEMMA HistoryIsLog ==
  ASSUME TypeOK
  PROVE  /\ DOMAIN log = 1 .. Len(log) /\ Len(log) \in Nat
         /\ History \in Seq({Passed(i) : i \in 1 .. Len(log)})
         /\ Len(History) = Len(log)
         /\ \A i \in 1 .. Len(log) : History[i] = Passed(i)
<1>1. DOMAIN log = 1 .. Len(log) /\ Len(log) \in Nat
  BY LenProperties DEF TypeOK
<1>2. History \in [1 .. Len(log) -> {Passed(i) : i \in 1 .. Len(log)}]
  BY <1>1 DEF History
<1>3. History \in Seq({Passed(i) : i \in 1 .. Len(log)})
  BY <1>1, <1>2, SeqDef
<1>4. DOMAIN History = 1 .. Len(History) /\ Len(History) \in Nat
  BY <1>3, LenProperties
<1>5. Len(History) = Len(log)
  BY <1>1, <1>2, <1>4
<1> QED
  BY <1>1, <1>3, <1>5 DEF History

\* A write is an event that happens.
LEMMA WroteIsHappens ==
  ASSUME Inv, Inv', NEW e \in EventType, Wrote(e)
  PROVE  Contract!Happens
<1>1. TypeOK /\ TypeOK' /\ Len(log') = Len(log) + 1 /\ Len(log) \in Nat
  BY LenProperties DEF Inv, Wrote, TypeOK
<1>2. Len(History) = Len(log) /\ \A i \in 1 .. Len(log) : History[i] = Passed(i)
  BY <1>1, HistoryIsLog
<1>3. Len(History') = Len(log') /\ \A i \in 1 .. Len(log') : History'[i] = Passed(i)'
  <2>1. (TypeOK => /\ Len(History) = Len(log)
                   /\ \A i \in 1 .. Len(log) : History[i] = Passed(i))'
    BY HistoryIsLog, PTL
  <2> QED
    BY <1>1, <2>1
<1>4. \A i \in 1 .. Len(log) : Passed(i)' = Passed(i)
  <2>1. \A i \in 1 .. Len(log) : log'[i] = log[i]
    BY <1>1, AppendProperties DEF Wrote, TypeOK
  <2>2. UNCHANGED version
    BY DEF Wrote
  <2> QED
    BY <2>1, <2>2 DEF Passed, To, Decoded, ToBuiltinStatefulSet, AlphaToBuiltinStatefulSet
<1>5. History = SubSeq(History', 1, Len(History))
  <2> DEFINE S == {Passed(i) : i \in 1 .. Len(log)}
             sub == SubSeq(History', 1, Len(log))
  <2>1. \A i \in 1 .. Len(log) : History'[i] = History[i] /\ History'[i] \in S
    BY <1>1, <1>2, <1>3, <1>4
  <2>2. History \in Seq(S)
    BY <1>1, HistoryIsLog
  <2>3. sub \in Seq(S) /\ Len(sub) = Len(log) /\ \A i \in 1 .. Len(log) : sub[i] = History'[i]
    <3> HIDE DEF S
    <3>1. /\ sub \in Seq(S)
          /\ Len(sub) = IF 1 <= Len(log) THEN Len(log) - 1 + 1 ELSE 0
          /\ \A i \in 1 .. Len(log) - 1 + 1 : sub[i] = History'[1 + i - 1]
      BY <1>1, <2>1, SubSeqProperties
    <3> HIDE DEF sub
    <3> QED
      BY <1>1, <3>1
  <2> HIDE DEF S, sub
  <2>4. History = sub
    BY <1>2, <2>1, <2>2, <2>3, SeqEqual
  <2> QED
    BY <1>2, <2>4 DEF sub
<1>6. UNCHANGED <<w, reader>>
  BY DEF Wrote, watching
<1> QED
  BY <1>1, <1>2, <1>3, <1>5, <1>6 DEF Contract!Happens, History, Passed

\* Every step of the client is a step of the contract, or none.
LEMMA StepIsContractStep ==
  ASSUME Inv, Inv', [Next]_vars
  PROVE  [Contract!Next]_(Contract!vars)
<1>0. /\ TypeOK /\ Position /\ Len(log) \in Nat /\ reader.got \in Nat
      /\ Len(History) = Len(log)
      /\ \A i \in 1 .. Len(log) : History[i] = Passed(i)
  BY LenProperties, HistoryIsLog DEF Inv, TypeOK
<1>1. CASE Program \/ Others
  <2>1. CASE Get
    <3>1. UNCHANGED <<version, log, w, reader>>
      BY <2>1 DEF Get, server, watching
    <3> QED
      BY <3>1 DEF Contract!vars, To, Decoded, ToBuiltinStatefulSet, AlphaToBuiltinStatefulSet
  <2>2. ASSUME NEW e \in EventType, Wrote(e)
        PROVE  Contract!Happens
    BY <2>2, WroteIsHappens
  <2> QED
    BY <1>0, <1>1, <2>1, <2>2, ProgramWrites DEF Contract!Next
\* The rest leaves the history alone.
<1>2. ASSUME UNCHANGED <<version, log>>
      PROVE  UNCHANGED History
  BY <1>2 DEF History, Passed, To, Decoded, ToBuiltinStatefulSet, AlphaToBuiltinStatefulSet
<1>3. CASE SourceDecodes \/ SourceStopped \/ ServerEnds
  <2>1. UNCHANGED <<version, log, w, reader>>
    BY <1>3 DEF SourceDecodes, SourceStopped, ServerEnds, server
  <2> QED
    BY <1>2, <2>1 DEF Contract!vars, History, Passed
<1>4. CASE Receive \/ ReceiveReturns
  <2>1. UNCHANGED <<version, log, reader>>
    BY <1>4 DEF Receive, ReceiveReturns, server
  <2>2. w.pc = "select" /\ w'.pc \in {"select", "send", "close"}
    BY <1>0, <1>4 DEF Receive, ReceiveReturns, TypeOK
  <2> QED
    BY <1>2, <2>1, <2>2 DEF Contract!vars, History, Passed
<1>5. CASE CloseResult
  <2>1. UNCHANGED <<version, log, reader>> /\ w.pc = "close" /\ w'.pc = "closed"
    BY <1>0, <1>5 DEF CloseResult, server, TypeOK
  <2>2. UNCHANGED History
    BY <1>2, <2>1
  <2>3. Contract!Close
    BY <2>1, <2>2 DEF Contract!Close, History, Passed
  <2> QED
    BY <2>3 DEF Contract!Next
<1>6. CASE Send
  <2>1. /\ UNCHANGED <<version, log>> /\ w.pc = "send"
        /\ reader.pc \in {"reading", "draining"}
    BY <1>6 DEF Send, server
  <2>2. w'.pc = "select"
    BY <1>0, <1>6 DEF Send, TypeOK
  <2>3. /\ w.held = Passed(reader.got + 1) /\ reader.got + 1 <= Len(log)
    BY <1>0, <2>1 DEF Position, Sending, Holding
  <2>4. log[reader.got + 1] \in EventType /\ log[reader.got + 1].object.rv = reader.got + 1
    BY <1>0, <2>3, ElementOfSeq DEF Inv, TypeOK, Numbered
  <2>5. w.held.object.rv = reader.got + 1
    <3>1. log[reader.got + 1].object \in StoredType
      BY <2>4 DEF EventType
    <3>2. To(Decoded(log[reader.got + 1].object)).rv = reader.got + 1
      BY <1>0, <2>4, <3>1, ReadKeeps DEF TypeOK
    <3> QED
      BY <2>3, <2>4, <3>2 DEF Passed, EventType
  <2>6. reader'.got = reader.got + 1 /\ reader'.last = w.held
    BY <1>0, <1>6, <2>5 DEF Send, TypeOK
  <2>7. w.held = History[reader.got + 1] /\ reader.got < Len(History)
    BY <1>0, <2>3
  <2>8. UNCHANGED History
    BY <1>2, <2>1
  <2>9. Contract!Deliver
    BY <2>1, <2>2, <2>6, <2>7, <2>8 DEF Contract!Deliver, History, Passed
  <2> QED
    BY <2>9 DEF Contract!Next
<1>7. CASE List
  <2>1. UNCHANGED <<version, log, w>> /\ w.pc \in {"none", "closed"}
    BY <1>0, <1>7 DEF List, server, Position
  <2>2. reader'.got = Len(History) /\ reader'.last = reader.last
    BY <1>0, <1>7 DEF List, TypeOK
  <2>3. UNCHANGED History
    BY <1>2, <2>1
  <2>4. Contract!List
    BY <2>1, <2>2, <2>3 DEF Contract!List, History, Passed
  <2> QED
    BY <2>4 DEF Contract!Next
<1>8. CASE Watch
  <2>1. UNCHANGED <<version, log>> /\ w.pc \in {"none", "closed"} /\ w'.pc = "select"
    BY <1>0, <1>8 DEF Watch, server, Position, newHijackWatch
  <2>2. reader'.got = reader.got /\ reader'.last = reader.last
    BY <1>0, <1>8 DEF Watch, TypeOK
  <2>3. UNCHANGED History
    BY <1>2, <2>1
  <2>4. Contract!Open
    BY <2>1, <2>2, <2>3 DEF Contract!Open, History, Passed
  <2> QED
    BY <2>4 DEF Contract!Next
<1>9. CASE SeeClosed \/ StopReading
  <2>1. UNCHANGED <<version, log>>
    BY <1>9 DEF SeeClosed, StopReading, server
  <2>2. reader'.got = reader.got /\ reader'.last = reader.last /\ w'.pc = w.pc
    BY <1>0, <1>9 DEF SeeClosed, StopReading, Stop, TypeOK
  <2> QED
    BY <1>2, <2>1, <2>2 DEF Contract!vars, History, Passed
<1>10. CASE UNCHANGED vars
  BY <1>2, <1>10 DEF vars, Contract!vars, History, Passed
<1> QED
  BY <1>1, <1>3, <1>4, <1>5, <1>6, <1>7, <1>8, <1>9, <1>10
     DEF Next, Source, Goroutine, Reader

\* hijackWatch keeps the contract of a watch, whatever the source and the reader
\* do and however often the watch is ended and opened again: every event of the
\* set reaches the reader converted, in its order, none twice and none left
\* out, and a closed channel delivers nothing.
THEOREM KeepsContract == Spec => ImplementsContract
<1>1. Init => Contract!Init
  <2> SUFFICES ASSUME Init PROVE Contract!Init
    OBVIOUS
  <2>1. log = <<>> /\ DOMAIN log = {}
    <3>1. log = <<>> /\ log \in Seq({}) /\ Len(log) = 0
      BY EmptySeq DEF Init
    <3>2. DOMAIN log = 1 .. Len(log)
      BY <3>1, LenProperties
    <3> QED
      BY <3>1, <3>2
  <2>2. History = <<>>
    BY <2>1 DEF History
  <2>3. w.pc = "none" /\ reader.got = 0 /\ reader.last = NoEvent
    BY DEF Init
  <2> QED
    BY <2>2, <2>3 DEF Contract!Init, Contract!NoEvent, NoEvent, History, Passed
<1>2. Inv /\ Inv' /\ [Next]_vars => [Contract!Next]_(Contract!vars)
  BY StepIsContractStep
<1> QED
  BY <1>1, <1>2, InvHolds, PTL DEF Spec, ImplementsContract, Contract!Spec

=============================================================================
