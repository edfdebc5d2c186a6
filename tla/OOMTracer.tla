----------------------------- MODULE OOMTracer -----------------------------
(***************************************************************************)
(* The agent loop TraceKernelOOMKills (pkg/oomtracer/oomtracer.go) with    *)
(* everything it runs beside: the kernel that fills the ring buffer, the   *)
(* API server that owns the pods, the informer cache that lags behind it   *)
(* (pkg/k8s/k8s.go), and the goroutine that closes the reader.             *)
(*                                                                         *)
(* The loop blocks, and so can be overtaken, at three calls: rd.Read, the  *)
(* listing of the cache, and the Patch request of AnnotatePod.  Each is a  *)
(* value of pc; what the source does between two of them is one action.    *)
(*                                                                         *)
(* Pods are those of the tracer's node.  A pod's UID is the rank of its    *)
(* creation, and born[u] the namespace/name it was created with: the API   *)
(* server never reuses a UID, but a StatefulSet or static pod comes back   *)
(* under its old name.  Container IDs are pairs <<uid, n>>, never reused.  *)
(***************************************************************************)
EXTENDS PodLookup, Sequences, FiniteSets

CONSTANTS
  PodName,            \* namespace/name of pods
  NamesReused,        \* may a deleted pod's name be given to a new pod?
  Happenings,         \* the optional environment steps of this instance
  Victims,            \* names of the pods that may lose a process to an OOM kill
  Paths, HostPaths,   \* shapes of the cgroup path of a victim in/outside pods
  ignoreGlobalOOM,    \* --ignore_global_oom
  annotate,           \* victimAnnotationKey # "": not the dry-run mode
  RingSize,           \* events the ring buffer holds
  MaxPods, MaxStarts, MaxKills,   \* bounds on UIDs, containers, events
  Nil

ASSUME ConfigAssumption ==
  /\ NamesReused \in BOOLEAN /\ ignoreGlobalOOM \in BOOLEAN
  /\ annotate \in BOOLEAN
  /\ RingSize \in Nat /\ MaxPods \in Nat /\ MaxStarts \in Nat /\ MaxKills \in Nat

ASSUME PathAssumption ==
  /\ Paths \subseteq [1..Depth -> Kinds \cup {"static"}]
  /\ HostPaths \subseteq [1..Depth -> Kinds \cup {"static"}]

VARIABLES
  born,     \* names of the pods created so far, in order of their UIDs
  api,      \* the API server: name -> pod or Nil
  cache,    \* the informer's store: api at some earlier moment
  kills,    \* history: the OOM kills that happened, [uid, global]
  ring,     \* the ring buffer: submitted events, oldest first
  pc,       \* "read", "list", "patch"; "returned", "fatal" at the end
  ev,       \* local event, until its pod has been looked up
  wire,     \* Patch requests that the API server has not handled yet
  reply,    \* the answer to the request AnnotatePod waits for
  applied,  \* history: UIDs of the pods a Patch of the tracer has changed
  ctx,      \* "live", or "done" once SIGINT or SIGTERM has come
  rd,       \* "open" or "closed"
  count     \* the Prometheus counters, one per (stage, reason)

cluster == <<born, api, cache>>
agent   == <<pc, ev, count>>
vars    == <<born, api, cache, kills, ring, pc, ev, wire, reply, applied, ctx,
             rd, count>>
-----------------------------------------------------------------------------
Cid  == Nat \X Nat
Uids == 1..Len(born)

Pod == [name: PodName, uid: Nat, cids: SUBSET Cid, started: Nat,
        active: BOOLEAN, ann: {"none", "other", "mark"}]

Event == [uid: Nat, global: BOOLEAN,
          names: [1..Depth -> [kind: Kinds, uid: Nat, cid: Cid]]]

ASSUME NilAssumption == Nil \notin Pod /\ Nil \notin Event

Counters == {"observed", "non_or_ignored_global_oom", "no_pod_match",
             "identified", "annotation_failed", "annotation_applied",
             "annotation_exists"}

\* IncEvent and IncMarkedVictim.  Without a metrics address the bundle is nil
\* and nothing is counted; count is then what would have been.
Inc(S) == [c \in Counters |-> IF c \in S THEN count[c] + 1 ELSE count[c]]

TypeOK ==
  /\ born \in Seq(PodName) /\ Len(born) <= MaxPods
  /\ api \in [PodName -> Pod \cup {Nil}]
  /\ cache \in [PodName -> Pod \cup {Nil}]
  /\ kills \subseteq [uid: Nat, global: BOOLEAN]
  /\ ring \in Seq(Event) /\ Len(ring) <= RingSize
  /\ pc \in {"read", "list", "patch", "returned", "fatal"}
  /\ ev \in Event \cup {Nil} /\ (pc = "list" => ev \in Event)
  /\ wire \subseteq [seq: Nat, name: PodName, uid: Nat]
  /\ reply \in {"none", "ok", "err"}
  /\ applied \subseteq Nat
  /\ ctx \in {"live", "done"} /\ rd \in {"open", "closed"}
  /\ count \in [Counters -> Nat]

Init ==
  /\ born = <<>> /\ api = [n \in PodName |-> Nil]
  /\ cache = [n \in PodName |-> Nil]
  /\ kills = {} /\ ring = <<>>
  /\ pc = "read" /\ ev = Nil
  /\ wire = {} /\ reply = "none" /\ applied = {}
  /\ ctx = "live" /\ rd = "open"
  /\ count = [c \in Counters |-> 0]
-----------------------------------------------------------------------------
(***************************************************************************)
(* The cluster.  Pods come (possibly annotated by their owner), start and  *)
(* restart containers, end, and are deleted: by their owner, or by the     *)
(* descheduler that acts on the annotation.                                *)
(***************************************************************************)
CreatePod(n, ann) ==
  /\ api[n] = Nil /\ Len(born) < MaxPods
  /\ ann = "other" => "owner" \in Happenings
  /\ NamesReused \/ \A u \in Uids : born[u] # n
  /\ born' = Append(born, n)
  /\ api' = [api EXCEPT ![n] =
       [name |-> n, uid |-> Len(born) + 1, cids |-> {}, started |-> 0,
        active |-> TRUE, ann |-> ann]]
  /\ UNCHANGED <<cache, kills, ring, agent, wire, reply, applied, ctx, rd>>

\* The owner of a pod sets the annotation: kubectl annotate, a controller.
OwnerAnnotates(n) ==
  /\ "owner" \in Happenings
  /\ api[n] # Nil /\ api[n].ann = "none"
  /\ api' = [api EXCEPT ![n].ann = "other"]
  /\ UNCHANGED <<born, cache, kills, ring, agent, wire, reply, applied, ctx, rd>>

StartContainer(n) ==
  /\ api[n] # Nil /\ api[n].active /\ api[n].started < MaxStarts
  /\ api' = [api EXCEPT ![n] =
       [api[n] EXCEPT !.started = api[n].started + 1,
                      !.cids = {<<api[n].uid, api[n].started + 1>>}]]
  /\ UNCHANGED <<born, cache, kills, ring, agent, wire, reply, applied, ctx, rd>>

EndPod(n) ==      \* phase Succeeded or Failed
  /\ "end" \in Happenings
  /\ api[n] # Nil /\ api[n].active
  /\ api' = [api EXCEPT ![n].active = FALSE]
  /\ UNCHANGED <<born, cache, kills, ring, agent, wire, reply, applied, ctx, rd>>

DeletePod(n) ==
  /\ "delete" \in Happenings
  /\ api[n] # Nil
  /\ api' = [api EXCEPT ![n] = Nil]
  /\ UNCHANGED <<born, cache, kills, ring, agent, wire, reply, applied, ctx, rd>>

\* The informers wired by CreateClients deliver watch events in order.
Sync ==
  /\ cache # api
  /\ cache' = api
  /\ UNCHANGED <<born, api, kills, ring, agent, wire, reply, applied, ctx, rd>>

(***************************************************************************)
(* The kernel.  What the probe writes for a victim: the names of its       *)
(* cgroup and its ancestors, leaf first.  The slice of a static pod is     *)
(* named after its manifest's hash, which is not the UID of its mirror.    *)
(***************************************************************************)
CgroupName(k, uid, cid) ==
  CASE k \in {"scope", "slice", "dir"} -> [kind |-> k, uid |-> uid, cid |-> cid]
    [] k = "static" -> [kind |-> "slice", uid |-> 0, cid |-> <<0, 0>>]
    [] OTHER        -> [kind |-> k, uid |-> 0, cid |-> <<0, 0>>]

NeverFull == FALSE        \* Mutant: reserves without checking for room.

Full == Len(ring) >= RingSize

Emit(uid, cid, path, global) ==
  /\ count["observed"] + Len(ring) < MaxKills
  /\ global \/ "memcg" \in Happenings
  /\ kills' = kills \cup {[uid |-> uid, global |-> global]}
  /\ ring' = IF Full THEN ring       \* bpf_ringbuf_reserve failed: no event
             ELSE Append(ring, [uid |-> uid, global |-> global,
                    names |-> [i \in 1..Depth |-> CgroupName(path[i], uid, cid)]])
  /\ UNCHANGED <<cluster, agent, wire, reply, applied, ctx, rd>>

KillInPod(n, path, global) ==
  /\ n \in Victims
  /\ api[n] # Nil /\ api[n].active
  /\ \E cid \in api[n].cids : Emit(api[n].uid, cid, path, global)

KillOnHost(path, global) == Emit(0, <<0, 0>>, path, global)
-----------------------------------------------------------------------------
(***************************************************************************)
(* The API server's side of a Patch: it finds the pod by namespace and     *)
(* name and merges the annotation into whatever pod has that name now, or  *)
(* refuses (no such pod, admission, overload).  The agent may have stopped *)
(* waiting by then; the request takes effect all the same.                 *)
(***************************************************************************)
Answer(w, r) ==
  reply' = IF pc = "patch" /\ w.seq = count["identified"] THEN r ELSE reply

ServePatch(w) ==
  /\ wire' = wire \ {w}
  /\ \/ /\ api[w.name] # Nil
        /\ api' = [api EXCEPT ![w.name].ann = "mark"]
        /\ applied' = applied \cup {api[w.name].uid}
        /\ Answer(w, "ok")
     \/ /\ UNCHANGED <<api, applied>>
        /\ Answer(w, "err")
  /\ UNCHANGED <<born, cache, kills, ring, agent, ctx, rd>>

\* The connection breaks before the request reaches the server.
LosePatch(w) ==
  /\ wire' = wire \ {w}
  /\ Answer(w, "err")
  /\ UNCHANGED <<cluster, kills, ring, agent, applied, ctx, rd>>
-----------------------------------------------------------------------------
(***************************************************************************)
(* The agent loop.                                                         *)
(***************************************************************************)
Continue == pc' = "read" /\ ev' = Nil /\ reply' = "none"

SkippedSwapped(e) == ignoreGlobalOOM /\ ~e.global     \* Mutant: flag inverted.

Skipped(e) == ~ignoreGlobalOOM /\ ~e.global

ReadNewest ==      \* Mutant: the records at hand are taken from the back.
  /\ pc = "read" /\ rd = "open" /\ ring # <<>>
  /\ ring' = SubSeq(ring, 1, Len(ring) - 1)
  /\ count' = Inc({"observed"}) /\ pc' = "list" /\ ev' = ring[Len(ring)]
  /\ UNCHANGED <<cluster, kills, wire, reply, applied, ctx, rd>>

\* rd.Read returns a record, which parses.
Read ==
  /\ pc = "read" /\ rd = "open" /\ ring # <<>>
  /\ ring' = Tail(ring)
  /\ \/ /\ Skipped(Head(ring))
        /\ count' = Inc({"observed", "non_or_ignored_global_oom"})
        /\ UNCHANGED <<pc, ev>>
     \/ /\ ~Skipped(Head(ring))
        /\ count' = Inc({"observed"})
        /\ pc' = "list" /\ ev' = Head(ring)
  /\ UNCHANGED <<cluster, kills, wire, reply, applied, ctx, rd>>

\* rd.Read returns a record that binary.Read cannot decode: it is dropped.
ReadUnparsed ==
  /\ pc = "read" /\ rd = "open" /\ ring # <<>>
  /\ ring' = Tail(ring)
  /\ UNCHANGED <<cluster, kills, agent, wire, reply, applied, ctx, rd>>

ReadClosedIgnored ==      \* Mutant: ErrClosed is retried like other errors.
  /\ pc = "read" /\ rd = "closed"
  /\ UNCHANGED vars

\* rd.Read returns ErrClosed: return ctx.Err(), which main takes for success.
ReadClosed ==
  /\ pc = "read" /\ rd = "closed"
  /\ pc' = "returned"
  /\ UNCHANGED <<cluster, kills, ring, ev, count, wire, reply, applied, ctx, rd>>

\* Succeeded and failed pods are not listed.
ListPodsOnANode == {p \in {cache[n] : n \in PodName} \ {Nil} : p.active}

\* The listing fails: return err, which main turns into klog.Fatalf.
ListFails ==
  /\ pc = "list"
  /\ pc' = "fatal"
  /\ UNCHANGED <<cluster, kills, ring, ev, count, wire, reply, applied, ctx, rd>>

NoPodMatch ==
  /\ pc = "list"
  /\ Identify(ev.names, ListPodsOnANode) = {}
  /\ count' = Inc({"no_pod_match"})
  /\ Continue
  /\ UNCHANGED <<cluster, kills, ring, wire, applied, ctx, rd>>

PatchableAnyway(p) == annotate      \* Mutant: the listed pod is not looked at.

Patchable(p) == annotate /\ p.ann = "none"

\* A pod is identified and the loop is done with it: observation only, or
\* the listed pod has the annotation already.
IdentifyOnly ==
  /\ pc = "list"
  /\ \E p \in Identify(ev.names, ListPodsOnANode) : ~Patchable(p)
  /\ count' = Inc({"identified"} \cup IF annotate THEN {"annotation_exists"} ELSE {})
  /\ Continue
  /\ UNCHANGED <<cluster, kills, ring, wire, applied, ctx, rd>>

\* k8s.AnnotatePod sends a merge patch that names the pod by p.name only.
AnnotatePod(p) ==
  wire' = wire \cup
    {[seq |-> count["identified"] + 1, name |-> p.name, uid |-> p.uid]}

\* A pod is identified and the loop waits for its Patch.
Annotate ==
  /\ pc = "list"
  /\ \E p \in Identify(ev.names, ListPodsOnANode) : Patchable(p) /\ AnnotatePod(p)
  /\ count' = Inc({"identified"})
  /\ pc' = "patch" /\ ev' = Nil /\ reply' = "none"
  /\ UNCHANGED <<cluster, kills, ring, applied, ctx, rd>>

AnnotateOK ==
  /\ pc = "patch" /\ reply = "ok"
  /\ count' = Inc({"annotation_applied"})
  /\ Continue
  /\ UNCHANGED <<cluster, kills, ring, wire, applied, ctx, rd>>

PatchErrorUncounted ==      \* Mutant: the failure is logged, not counted.
  /\ count' = count
  /\ Continue
  /\ UNCHANGED <<cluster, kills, ring, wire, applied, ctx, rd>>

PatchError ==
  /\ count' = Inc({"annotation_failed"})
  /\ Continue
  /\ UNCHANGED <<cluster, kills, ring, wire, applied, ctx, rd>>

\* Patch returns the server's refusal, or the cancellation of ctx.
AnnotateFails ==
  /\ pc = "patch" /\ (reply = "err" \/ ctx = "done")
  /\ PatchError

\* The connection breaks: the request or the answer to it may be under way.
AnnotateLost ==
  /\ pc = "patch"
  /\ PatchError
-----------------------------------------------------------------------------
\* signal.NotifyContext cancels the root context.
Signal ==
  /\ "signal" \in Happenings
  /\ ctx = "live" /\ ctx' = "done"
  /\ UNCHANGED <<cluster, kills, ring, agent, wire, reply, applied, rd>>

\* The goroutine of TraceKernelOOMKills: <-ctx.Done(); rd.Close()
CloseReaderEarly ==      \* Mutant: the goroutine does not wait for ctx.
  /\ rd = "open" /\ rd' = "closed"
  /\ UNCHANGED <<cluster, kills, ring, agent, wire, reply, applied, ctx>>

CloseReader ==
  /\ ctx = "done" /\ rd = "open" /\ rd' = "closed"
  /\ UNCHANGED <<cluster, kills, ring, agent, wire, reply, applied, ctx>>

Agent == \/ Read \/ ReadUnparsed \/ ReadClosed
         \/ ListFails \/ NoPodMatch \/ IdentifyOnly \/ Annotate
         \/ AnnotateOK \/ AnnotateFails \/ AnnotateLost

APIServer == \E w \in wire : ServePatch(w) \/ LosePatch(w)

Cluster ==
  \/ \E n \in PodName :
       \/ \E a \in {"none", "other"} : CreatePod(n, a)
       \/ OwnerAnnotates(n) \/ StartContainer(n) \/ EndPod(n) \/ DeletePod(n)
  \/ Sync

Kernel ==
  \/ \E n \in PodName, p \in Paths, g \in BOOLEAN : KillInPod(n, p, g)
  \/ \E p \in HostPaths, g \in BOOLEAN : KillOnHost(p, g)

Next == Agent \/ APIServer \/ Cluster \/ Kernel \/ Signal \/ CloseReader

Spec == Init /\ [][Next]_vars

(***************************************************************************)
(* The Go runtime keeps scheduling the loop and the goroutine, and the API *)
(* server answers or the transport reports that it did not.  Nothing makes *)
(* the cluster, the kernel or a signal act, nor a listing or a connection  *)
(* fail.  Nor does anything make rd.Read succeed: an error other than      *)
(* ErrClosed sends the loop back to Read, a stuttering step here, and may  *)
(* do so for ever.                                                         *)
(***************************************************************************)
FairSpec ==
  /\ Spec
  /\ WF_vars(ReadClosed \/ NoPodMatch \/ IdentifyOnly \/ Annotate
             \/ AnnotateOK \/ AnnotateFails)
  /\ WF_vars(CloseReader) /\ WF_vars(APIServer)
-----------------------------------------------------------------------------
(***************************************************************************)
(* Properties.                                                             *)
(***************************************************************************)
Stopped == pc \in {"returned", "fatal"}

\* The tracer has a reason to mark the pod with UID u: it is not in dry-run
\* mode and u lost a process to an OOM kill of the kind it acts on.
Warranted(u) ==
  annotate /\ \E k \in kills : k.uid = u /\ (ignoreGlobalOOM \/ k.global)

(***************************************************************************)
(* Provenance: what the agent handles can be traced to where it came from. *)
(* Pods listed by the server or the cache carry the UID and the container  *)
(* IDs they were given; the names in an event are those of its victim;     *)
(* a Patch under way was computed for a pod that warrants it.  With TypeOK *)
(* this is inductive, and the two properties below rest on it.             *)
(***************************************************************************)
PodTruthful(n, p) ==
  /\ p.name = n /\ p.uid \in Uids /\ born[p.uid] = n
  /\ \A c \in p.cids : c[1] = p.uid

EventTruthful(e) ==
  /\ [uid |-> e.uid, global |-> e.global] \in kills
  /\ \A i \in 1..Depth :
       e.names[i].uid \in {0, e.uid} /\ e.names[i].cid[1] \in {0, e.uid}

PodsTruthful ==
  \A n \in PodName : /\ api[n] # Nil => PodTruthful(n, api[n])
                     /\ cache[n] # Nil => PodTruthful(n, cache[n])

EventsTruthful ==
  /\ \A i \in 1..Len(ring) : EventTruthful(ring[i])
  /\ pc = "list" => EventTruthful(ev) /\ ~Skipped(ev)

PatchesWarranted ==
  \A w \in wire : w.uid \in Uids /\ born[w.uid] = w.name /\ Warranted(w.uid)

Provenance == PodsTruthful /\ EventsTruthful /\ PatchesWarranted

(***************************************************************************)
(* A pod that a Patch of the tracer changed was itself the victim of an    *)
(* OOM kill the tracer is configured to act on (oomtracer.go:118-151).     *)
(* AnnotatePod names the pod by namespace and name only, so this needs     *)
(* names that are not reused.                                              *)
(***************************************************************************)
MarkedOnlyVictims == \A u \in applied : Warranted(u)

(***************************************************************************)
(* Whatever names are reused for, a pod the tracer changed has the name of *)
(* a pod that warranted it.                                                *)
(***************************************************************************)
MarkedNameOfVictim ==
  \A u \in applied : /\ u \in Uids
                     /\ \E v \in Uids : born[v] = born[u] /\ Warranted(v)

(***************************************************************************)
(* Every event decoded is in exactly one of the places a reader of the     *)
(* metrics would look for it: skipped, unmatched, identified, or still     *)
(* with the loop (or lost with it); every identified event likewise.       *)
(* (oomtracer.go:103-177; the counters are those of a non-nil bundle.)     *)
(***************************************************************************)
InLoop(p) == IF pc = p THEN 1 ELSE 0

Accounting ==
  /\ count["observed"] = count["non_or_ignored_global_oom"]
       + count["no_pod_match"] + count["identified"] + InLoop("list") + InLoop("fatal")
  /\ annotate => count["identified"] = count["annotation_exists"]
       + count["annotation_applied"] + count["annotation_failed"] + InLoop("patch")

(***************************************************************************)
(* No pod is marked silently: the pods changed by the tracer are at most   *)
(* as many as the patches it reported as applied or as failed, plus the    *)
(* one it waits for, although an answer may be lost and a cancelled        *)
(* request may still be carried out (oomtracer.go:151-167).                *)
(***************************************************************************)
NoSilentMark ==
  Cardinality(applied) <= count["annotation_applied"]
                          + count["annotation_failed"] + InLoop("patch")

(***************************************************************************)
(* TraceKernelOOMKills returns without an error only after a signal.       *)
(***************************************************************************)
ReturnsOnlyOnSignal == pc = "returned" => ctx = "done"

(***************************************************************************)
(* An event that shows the UID of its victim's pod ends as no_pod_match    *)
(* only when the cache does not list that pod: neither the spelling of the *)
(* UID nor another name of the path hides it (LookupPod).                  *)
(***************************************************************************)
ShowsPod(e) == \E i \in 1..Depth :
  e.names[i].kind \in {"slice", "dir"} /\ e.names[i].uid = e.uid /\ e.uid # 0

UnmatchedIsUnlisted ==
  [][count'["no_pod_match"] > count["no_pod_match"] /\ ShowsPod(ev)
       => \A p \in ListPodsOnANode : p.uid # ev.uid]_vars

(***************************************************************************)
(* Once the informer has delivered an annotation its owner set, and no     *)
(* patch sent before that is under way, the tracer leaves the value alone  *)
(* for the rest of the pod's life (oomtracer.go:149).                      *)
(***************************************************************************)
OwnerSettled(n) ==
  /\ api[n] # Nil /\ cache[n] # Nil /\ cache[n].uid = api[n].uid
  /\ api[n].ann = "other" /\ cache[n].ann = "other"
  /\ \A w \in wire : w.name # n

OwnersValueKept ==
  [][\A n \in PodName :
       OwnerSettled(n) => api'[n] = Nil \/ OwnerSettled(n)']_vars

(***************************************************************************)
(* After SIGINT or SIGTERM the loop returns, whatever it was waiting for,  *)
(* and even if every Read has failed so far (oomtracer.go:88-95).          *)
(***************************************************************************)
ShutdownCompletes == ctx = "done" ~> Stopped

(***************************************************************************)
(* An event whose pod is looked up ends with the pod annotated, or gone,   *)
(* or with its own entry in the failure counters; the sole other way out   *)
(* is the fatal listing error.                                             *)
(***************************************************************************)
Annotated(u) == \E n \in PodName :
  api[n] # Nil /\ api[n].uid = u /\ api[n].ann # "none"

Gone(u) == \A n \in PodName : api[n] # Nil => api[n].uid # u

EventResolved ==
  \A u \in 1..MaxPods, a \in 0..MaxKills, b \in 0..MaxKills :
    (/\ pc = "list" /\ ev.uid = u
     /\ count["no_pod_match"] = a /\ count["annotation_failed"] = b)
    ~> (\/ Annotated(u) \/ Gone(u) \/ pc = "fatal"
        \/ count["no_pod_match"] > a \/ count["annotation_failed"] > b)

(***************************************************************************)
(* Events are dealt with one at a time, in the order in which they were    *)
(* reported: together with the one the loop has taken and not looked up    *)
(* yet, the events in the ring are a bounded lossy queue, like the one the *)
(* probe and the BPF map implement (OOMKill).  No other event overtakes    *)
(* the one in hand, and neither a record that does not decode nor a failed *)
(* listing, a failed patch or a shutdown touches those behind it           *)
(* (oomtracer.go:87-180).                                                  *)
(***************************************************************************)
Pending == IF pc \in {"list", "fatal"} THEN <<ev>> \o ring ELSE ring

Queue == INSTANCE EventQueue WITH
  Events <- Event, Capacity <- RingSize + 1, queue <- Pending

HandledInOrder == Queue!Spec

(***************************************************************************)
(* The help text of marked_victims_total (pkg/metrics/metrics.go:46): the  *)
(* counter of annotation_applied is the number of pods marked.             *)
(***************************************************************************)
MarkedCountsPods ==
  pc = "read" => count["annotation_applied"] <= Cardinality(applied)
=============================================================================
