---------------------------- MODULE HijackClient ----------------------------
(***************************************************************************)
(* The hijack client: a program that manages StatefulSets with the builtin *)
(* client-go interface, whose calls go to the advanced StatefulSets of the *)
(* API server instead (pkg/apis/apps/v1/helper/hijack.go and the older     *)
(* copy in v1alpha1; the API server serves one object in both versions).   *)
(* One part of the program writes the set, another one, an informer, lists *)
(* and watches it through hijackWatch, whose goroutine passes the events   *)
(* on from the watch of the typed client.                                  *)
(***************************************************************************)
EXTENDS Defaults, Sequences

CONSTANTS Manifests,    \* the specs the program asks for, as it writes them
          Replicas,     \* the values it scales to
          MaxWrites,    \* bound on the writes
          MaxBreaks     \* bound on the watches that the server ends

ASSUME HijackAssumption ==
  /\ Manifests \subseteq SpecType
  /\ Replicas \subseteq Nat
  /\ MaxWrites \in Nat /\ MaxBreaks \in Nat

VARIABLES version,   \* the helper package the program uses
          store,     \* the set in the API server, or NoSet
          log,       \* the events of the set so far
          seen,      \* the set as the program has read it last, or NoSet
          sent,      \* the template the program has sent last, if it is in force
          reader,    \* the informer: what it does and what it knows
          w,         \* its hijackWatch
          source,    \* the watch of the typed client below it
          breaks,    \* how many watches the server has ended
          crashed    \* the program has panicked

server == <<store, log>>
watching == <<reader, w, source, breaks, crashed>>
vars == <<version, store, log, seen, sent, reader, w, source, breaks, crashed>>

NoSet == [rv |-> 0]
NoEvent == [type |-> "none"]
NoTemplate == <<>>

-----------------------------------------------------------------------------
(* Conversions. They go through JSON, so they keep every field; the version *)
(* is written into the result by hand, or, in v1alpha1, not at all.         *)

BuiltinVersion == "apps/v1"
AdvancedVersion ==
  IF version = "v1" THEN "apps.pingcap.com/v1" ELSE "apps.pingcap.com/v1alpha1"

FromBuiltinStatefulSet(o) == [o EXCEPT !.apiVersion = AdvancedVersion]
ToBuiltinStatefulSet(o) == [o EXCEPT !.apiVersion = BuiltinVersion]
ToBuiltinStetefulsetList(os) == {[o EXCEPT !.apiVersion = BuiltinVersion] : o \in os}

AlphaFromBuiltinStatefulSet(o) == o
AlphaToBuiltinStatefulSet(o) == o
AlphaToBuiltinStetefulsetList(os) == os

From(o) == IF version = "v1" THEN FromBuiltinStatefulSet(o)
           ELSE AlphaFromBuiltinStatefulSet(o)
To(o) == IF o = NoSet THEN o
         ELSE IF version = "v1" THEN ToBuiltinStatefulSet(o)
         ELSE AlphaToBuiltinStatefulSet(o)
ToList(os) == IF version = "v1" THEN ToBuiltinStetefulsetList(os)
              ELSE AlphaToBuiltinStetefulsetList(os)

\* What the client decodes has no version; the items of a list keep theirs.
Decoded(o) == IF o = NoSet THEN o ELSE [o EXCEPT !.apiVersion = ""]

\* What Create and Update make of an object before they send it.
CreateBody(o) == [From(o) EXCEPT !.spec = SetObjectDefaults_StatefulSet(@)]
AlphaCreateBody(o) == [From(o) EXCEPT !.spec = AlphaSetObjectDefaults_StatefulSet(@)]

\* Mutant: Update relies on the defaults of the API server.
UpdateBodyNoDefaults(o) == From(o)

UpdateBody(o) == [From(o) EXCEPT !.spec = SetObjectDefaults_StatefulSet(@)]
AlphaUpdateBody(o) == From(o)

-----------------------------------------------------------------------------
(* The API server behind the typed client. The definition of the resource  *)
(* (crd.v1.yaml; the older crd.v1beta1.yaml has no defaults) defaults two  *)
(* fields and enables the status and scale subresources: an update of the  *)
(* set keeps the status, an update of the status the spec.                 *)

Admitted(spec) == [spec EXCEPT !.replicas = Or(@, 1), !.revisionHistoryLimit = Or(@, 10)]

Writable == Len(log) < MaxWrites /\ ~ crashed

Happens(type, o) ==
  LET new == [o EXCEPT !.rv = Len(log) + 1, !.apiVersion = AdvancedVersion]
  IN  /\ store' = IF type = "DELETED" THEN NoSet ELSE new
      /\ log' = Append(log, [type |-> type, object |-> new])

Post(o) ==
  /\ store = NoSet
  /\ Happens("ADDED", [o EXCEPT !.spec = Admitted(@), !.status = 0])

Put(o) ==
  /\ store # NoSet /\ o.rv = store.rv
  /\ Happens("MODIFIED", [o EXCEPT !.spec = Admitted(@), !.status = store.status])

PutStatus(o) ==
  /\ store # NoSet /\ o.rv = store.rv
  /\ Happens("MODIFIED", [store EXCEPT !.status = o.status])

PutScale(replicas) ==
  /\ store # NoSet
  /\ Happens("MODIFIED", [store EXCEPT !.spec.replicas = {replicas}])

PatchReplicas(replicas) ==
  /\ store # NoSet
  /\ Happens("MODIFIED", [store EXCEPT !.spec.replicas = {replicas}])

Remove ==
  /\ store # NoSet
  /\ Happens("DELETED", store)

-----------------------------------------------------------------------------
(* The part of the program that writes. A call that the server rejects     *)
(* changes nothing and is left out.                                        *)

Object(spec, rv) == [apiVersion |-> "", rv |-> rv, spec |-> spec, status |-> 0]

Create(m) ==
  /\ Writable
  /\ LET o == Object(m, 0)
     IN  Post(IF version = "v1" THEN CreateBody(o) ELSE AlphaCreateBody(o))
  /\ seen' = To(Decoded(store'))
  /\ sent' = m.template
  /\ UNCHANGED <<version, watching>>

Update(o) ==
  /\ Writable
  /\ Put(IF version = "v1" THEN UpdateBody(o) ELSE AlphaUpdateBody(o))
  /\ seen' = To(Decoded(store'))
  /\ sent' = o.spec.template
  /\ UNCHANGED <<version, watching>>

\* The program applies its manifest, at the version it has read last.
UpdateFromManifest(m) == seen # NoSet /\ Update(Object(m, seen.rv))

\* The program changes a field of what it has read and sends it back.
UpdateFromSeen(r) == seen # NoSet /\ Update([seen EXCEPT !.spec.replicas = {r}])

UpdateStatus ==
  /\ Writable
  /\ seen # NoSet
  /\ PutStatus(From([seen EXCEPT !.status = 1 - @]))
  /\ seen' = To(Decoded(store'))
  /\ UNCHANGED <<version, sent, watching>>

Get ==
  /\ ~ crashed
  /\ seen' = To(Decoded(store))
  /\ UNCHANGED <<version, server, sent, watching>>

Patch(r) ==
  /\ Writable
  /\ PatchReplicas(r)
  /\ seen' = To(Decoded(store'))
  /\ UNCHANGED <<version, sent, watching>>

\* The rest of the interface is the typed client's own.
UpdateScale(r) ==
  /\ Writable
  /\ PutScale(r)
  /\ UNCHANGED <<version, seen, sent, watching>>

Delete ==
  /\ Writable
  /\ Remove
  /\ sent' = NoTemplate
  /\ UNCHANGED <<version, seen, watching>>

\* The controller reports a new status.
ControllerStatus ==
  /\ Writable
  /\ store # NoSet
  /\ PutStatus([store EXCEPT !.status = 1 - @])
  /\ UNCHANGED <<version, seen, sent, watching>>

\* A user creates the set without the program, as the README does.
KubectlCreate(m) ==
  /\ Writable
  /\ Post(Object(m, 0))
  /\ sent' = NoTemplate
  /\ UNCHANGED <<version, seen, watching>>

-----------------------------------------------------------------------------
(* The watch of the typed client (client-go's StreamWatcher): a goroutine   *)
(* that decodes one event and holds it until it is taken. Stop closes the   *)
(* connection, and so does the server after a while; the server reports a   *)
(* history that is no longer kept, and the decoder what it cannot read, as  *)
(* an event of type ERROR that carries a Status instead of a set.           *)

SourceDecodes ==
  /\ ~ crashed
  /\ source.pc = "open" /\ ~ w.stopped
  /\ source.hold = NoEvent
  /\ source.pos < Len(log)
  /\ source' = [source EXCEPT
       !.pos = @ + 1,
       !.hold = [log[source.pos + 1] EXCEPT !.object = Decoded(@)]]
  /\ UNCHANGED <<version, server, seen, sent, reader, w, breaks, crashed>>

SourceStopped ==
  /\ ~ crashed
  /\ source.pc # "closed"
  /\ source.pc = "failed" \/ w.stopped
  /\ source.hold = NoEvent
  /\ source' = [source EXCEPT !.pc = "closed"]
  /\ UNCHANGED <<version, server, seen, sent, reader, w, breaks, crashed>>

ServerEnds ==
  /\ ~ crashed
  /\ breaks < MaxBreaks
  /\ source.pc = "open"
  /\ source.hold = NoEvent
  /\ \/ source' = [source EXCEPT !.pc = "closed"]
     \/ source' = [source EXCEPT !.pc = "failed", !.hold = [type |-> "ERROR"]]
  /\ breaks' = breaks + 1
  /\ UNCHANGED <<version, server, seen, sent, reader, w, crashed>>

-----------------------------------------------------------------------------
(* hijackWatch. *)

\* Mutant: the goroutine does not wait for its reader.
ReceiveOrDrop ==
  /\ ~ crashed
  /\ w.pc = "select"
  /\ source.hold # NoEvent
  /\ source' = [source EXCEPT !.hold = NoEvent]
  /\ IF source.hold.type = "ERROR"
     THEN /\ crashed' = TRUE
          /\ UNCHANGED w
     ELSE /\ \/ w' = [w EXCEPT !.pc = "send",
                       !.held = [source.hold EXCEPT !.object = To(@)]]
             \/ w' = w
          /\ UNCHANGED crashed
  /\ UNCHANGED <<version, server, seen, sent, reader, breaks>>

\* One round of receive. The object of an ERROR event is no set: the
\* goroutine panics, and HandleCrash lets the panic end the program.
Receive ==
  /\ ~ crashed
  /\ w.pc = "select"
  /\ source.hold # NoEvent
  /\ source' = [source EXCEPT !.hold = NoEvent]
  /\ IF source.hold.type = "ERROR"
     THEN /\ crashed' = TRUE
          /\ UNCHANGED w
     ELSE /\ w' = [w EXCEPT !.pc = "send",
                            !.held = [source.hold EXCEPT !.object = To(@)]]
          /\ UNCHANGED crashed
  /\ UNCHANGED <<version, server, seen, sent, reader, breaks>>

\* The source is closed: the deferred Stop, then the deferred close, run.
ReceiveReturns ==
  /\ ~ crashed
  /\ w.pc = "select"
  /\ source.pc = "closed" /\ source.hold = NoEvent
  /\ w' = [w EXCEPT !.pc = "close", !.stopped = TRUE]
  /\ UNCHANGED <<version, server, seen, sent, reader, source, breaks, crashed>>

\* Mutant: the goroutine leaves the channel open.
ResultLeftOpen ==
  /\ ~ crashed
  /\ w.pc = "close"
  /\ w' = [w EXCEPT !.pc = "left"]
  /\ UNCHANGED <<version, server, seen, sent, reader, source, breaks, crashed>>

CloseResult ==
  /\ ~ crashed
  /\ w.pc = "close"
  /\ w' = [w EXCEPT !.pc = "closed"]
  /\ UNCHANGED <<version, server, seen, sent, reader, source, breaks, crashed>>

\* The channel has no buffer: the goroutine sends when the reader receives.
Send ==
  /\ ~ crashed
  /\ w.pc = "send"
  /\ reader.pc \in {"reading", "draining"}
  /\ w' = [w EXCEPT !.pc = "select", !.held = NoEvent]
  /\ reader' = [reader EXCEPT
       !.got = w.held.object.rv,
       !.last = w.held,
       !.cache = IF w.held.type = "DELETED" THEN NoSet ELSE w.held.object]
  /\ UNCHANGED <<version, server, seen, sent, source, breaks, crashed>>

\* Mutant: Stop does not reach the source.
StopMarks(x) == x

\* Stop: the goroutine learns of it from the source.
Stop(x) == [x EXCEPT !.stopped = TRUE]

-----------------------------------------------------------------------------
(* The informer: list, watch from there, and watch again when the channel   *)
(* is closed. It stops by calling Stop and then either reads on until the   *)
(* channel is closed or, like client-go's reflector, never reads again.     *)

List ==
  /\ ~ crashed
  /\ reader.pc = "list"
  /\ LET items == ToList({o \in {store} : o # NoSet})
     IN  \E c \in IF items = {} THEN {NoSet} ELSE items :
           reader' = [reader EXCEPT !.pc = "watch", !.got = Len(log), !.cache = c]
  /\ UNCHANGED <<version, server, seen, sent, w, source, breaks, crashed>>

newHijackWatch == [pc |-> "select", held |-> NoEvent, stopped |-> FALSE]

Watch ==
  /\ ~ crashed
  /\ reader.pc = "watch"
  /\ reader' = [reader EXCEPT !.pc = "reading"]
  /\ w' = newHijackWatch
  /\ source' = [pc |-> "open", pos |-> reader.got, hold |-> NoEvent]
  /\ UNCHANGED <<version, server, seen, sent, breaks, crashed>>

SeeClosed ==
  /\ ~ crashed
  /\ w.pc = "closed"
  /\ \/ reader.pc = "reading" /\ reader' = [reader EXCEPT !.pc = "watch"]
     \/ reader.pc = "reading" /\ reader' = [reader EXCEPT !.pc = "list"]
     \/ reader.pc = "draining" /\ reader' = [reader EXCEPT !.pc = "done"]
  /\ UNCHANGED <<version, server, seen, sent, w, source, breaks, crashed>>

StopReading ==
  /\ ~ crashed
  /\ reader.pc = "reading"
  /\ \E pc \in {"draining", "gone"} : reader' = [reader EXCEPT !.pc = pc]
  /\ w' = Stop(w)
  /\ UNCHANGED <<version, server, seen, sent, source, breaks, crashed>>

-----------------------------------------------------------------------------
Init ==
  /\ version \in {"v1", "v1alpha1"}
  /\ store = NoSet /\ log = <<>>
  /\ seen = NoSet /\ sent = NoTemplate
  /\ reader = [pc |-> "list", got |-> 0, cache |-> NoSet, last |-> NoEvent]
  /\ w = [pc |-> "none", held |-> NoEvent, stopped |-> FALSE]
  /\ source = [pc |-> "none", pos |-> 0, hold |-> NoEvent]
  /\ breaks = 0
  /\ crashed = FALSE

Program ==
  \/ \E m \in Manifests : Create(m) \/ UpdateFromManifest(m)
  \/ \E r \in Replicas : UpdateFromSeen(r) \/ Patch(r) \/ UpdateScale(r)
  \/ UpdateStatus \/ Get \/ Delete

Others == ControllerStatus \/ \E m \in Manifests : KubectlCreate(m)

Source == SourceDecodes \/ SourceStopped

Goroutine == Receive \/ ReceiveReturns \/ CloseResult \/ Send

Reader == List \/ Watch \/ SeeClosed

Next == Program \/ Others \/ Source \/ ServerEnds \/ Goroutine \/ Reader \/ StopReading

Spec == Init /\ [][Next]_vars

\* Goroutines that can run do run, the source's, the hijack's and the
\* reader's. Nobody is obliged to write, to end a watch or to stop reading.
FairSpec == Spec /\ WF_vars(Source) /\ WF_vars(Goroutine) /\ WF_vars(Reader)

-----------------------------------------------------------------------------
(* Properties. *)

\* Through every start, stop and end of the watches the reader gets the
\* events of the sets, converted, as the contract of a watch says: hijackWatch
\* loses, repeats and reorders nothing between its source and its reader.
Contract == INSTANCE WatchContract WITH
  history <- [i \in DOMAIN log |-> [log[i] EXCEPT !.object = To(Decoded(@))]],
  channel <- CASE w.pc = "none" -> "none"
               [] w.pc = "closed" -> "closed"
               [] OTHER -> "open",
  got <- reader.got,
  last <- reader.last

ImplementsContract == Contract!Spec

\* An Update that leaves the template as its sender has sent it before, or has
\* read it, does not change the stored template, so it starts no rolling
\* update. The v1 helper completes what it sends each time, and keeps this for
\* every template that was stored complete; v1alpha1 sends what it is given,
\* and keeps it for what was read.
TemplateKept ==
  [][\A m \in Manifests, r \in Replicas :
       /\ version = "v1" /\ UpdateFromManifest(m) /\ m.template = sent
          => store'.spec.template = store.spec.template
       /\ /\ UpdateFromSeen(r)
          /\ \/ version = "v1alpha1"
             \/ store.spec = SetObjectDefaults_StatefulSet(store.spec)
          => store'.spec.template = store.spec.template]_vars

\* Once nobody writes, an informer on the hijack client comes to know the set
\* as it is, however often its watch is ended, unless it stops or panics.
ReaderConverges ==
  <>[](\/ crashed \/ reader.pc \in {"draining", "done", "gone"}
       \/ reader.cache.rv = store.rv)

\* Stop "will close the channel returned by ResultChan()" (watch.Interface),
\* as long as the reader goes on reading until then.
StopReleases == reader.pc = "draining" ~> crashed \/ w.pc = "closed"

\* hijack.go: panic("unreachable"). It is reached when the server or the
\* decoder reports an error on the watch.
UnreachableIsUnreachable == ~ crashed
=============================================================================
