# A TLA+ model of OOM Tracer

OOM Tracer runs on every node of a Kubernetes cluster. A kprobe on
`oom_kill_process` reports each kill of the kernel's OOM killer through a BPF
ring buffer; a Go agent finds the pod the victim belonged to and annotates it, so
that a descheduler can evict it. This directory models the tracer together with
what it runs beside (the kernel, the API server, the informer cache, failing
requests, signals, restarts), checks the models with TLC and proves with TLAPS every
safety property that TLC checks and finds to hold.

## The system and its parts

| part | source | modules | status |
|---|---|---|---|
| agent loop `TraceKernelOOMKills` | `pkg/oomtracer/oomtracer.go` | `OOMTracer` | modelled |
| pod lookup: `LookupPod`, regular expressions, candidate loop | `pkg/oomtracer/oomtracer.go` | `PodLookup`, `LookupLoop` | modelled |
| kernel probe, ring buffer map, strings of an event | `pkg/ebpf/bpf/oomkill.c`, `oomtracer.go` 226-247 | `OOMKill`, `EventQueue`, `NameCell` | modelled |
| process: `main`, `LoadBPF`, `closeFn`, signals, exit status, restarts | `cmd/main.go`, `pkg/ebpf/` | `Process`, `Node` | modelled |
| Kubernetes client | `pkg/k8s/k8s.go` | `OOMTracer` (cache, listing, patch), `Process` (`CreateClients`) | modelled |
| metrics | `pkg/metrics/metrics.go` | `OOMTracer` (counters), `Process` (server), `Config` (address) | modelled |
| flags, `parseAnnotation`, chart arguments | `cmd/main.go`, `oomtracer.go` 249-264, `chart/` | `Config` | modelled |
| version string | `pkg/version/version.go` | `Version`, `Config` | modelled |
| descheduler | external | `OOMTracer` | its evictions are `DeletePod` |
| manifests, generated code, libbpf headers | `chart/`, `pkg/ebpf/bpf_*.go`, `headers/` | | not modelled, see the end |

How they interact: the probe reserves a record in the ring, fills it and submits
it (`OOMKill`). Seen from the agent this is a bounded queue that loses what does
not fit (`EventQueue`; `OOMKill` is shown to implement it, and so is `OOMTracer`, with
the event the loop is at work on as the head of the queue).
The agent takes one event at a time, lists the node's pods from the informer's
store, identifies one (`PodLookup`), and sends a patch to the API server. The
store lags behind the server; pods come, restart, end and go meanwhile. All of
this happens inside a process that is started with arguments the chart rendered
(`Config`), loads the probe, waits for its informers, is signalled, fails or is
killed, and is started again (`Process`; with the loop inside it, `Node`).

## The modules

**PodLookup** has no state. A cgroup name is a record of its kind (how the kubelet
or the runtime spells it), a pod UID and a container ID; `podPattern` and
`cidPattern` say what the two regular expressions capture, including that
`libpod-<id>.scope` matches `podPattern`. `Identify(names, pods)` is the result of
the whole search: the pods found by the first name that finds any.

**LookupLoop** is the same search as the code runs it: a step per candidate and
per pod, over the pods in some order, with the three lists of container statuses.
It justifies the use of `Identify` in `OOMTracer`.

**OOMTracer** is the core. The loop can be overtaken at three calls, which are
the values of `pc`: `read` (`rd.Read`), `list` (`ListPodsOnANode`) and `patch`
(`AnnotatePod`); it ends as `returned` or `fatal`. The code between two of them is
one action:

| action | code (`oomtracer.go` unless noted) |
|---|---|
| `Read`, `ReadUnparsed`, `ReadClosed` | 88-122 |
| `ListFails`, `NoPodMatch`, `IdentifyOnly`, `Annotate` | 124-151, 170-178, `k8s.go` 60-83 |
| `AnnotateOK`, `AnnotateFails`, `AnnotateLost` | 151-168, `k8s.go` 78-81 |
| `CloseReader` | 80-83 |
| `Signal` | `cmd/main.go` 65 |
| `Sync` | the informer, `k8s.go` 45-54 |
| `KillInPod`, `KillOnHost` | `oomkill.c` 30-81, in one step |
| `ServePatch`, `LosePatch` | API server and transport (external) |
| `CreatePod`, `OwnerAnnotates`, `StartContainer`, `EndPod`, `DeletePod` | cluster (external) |

A read error other than `ErrClosed` changes nothing and is a stuttering step.
Pods are kept by name, as the API server keeps them; the UID is the rank of the
creation, and `born` remembers the name of every UID. Requests in `wire` are
served after the loop has stopped waiting for them, if they are lost to it.
`kills`, `applied`, and the `uid` of a request are history: no action of the
agent reads them. `annotate` stands for a non-empty `victimAnnotationKey`. The
counters are those of a bundle that is there: without a metrics address
`increment` does nothing on the nil bundle, and `Inc` says what it would have
counted. `Sync` brings a name of the cache to the server's present state; an
informer may show states in between first, each of which is what some earlier
`Sync` would have shown.

**OOMKill** splits the probe into the steps another CPU or the reader can see:
`Reserve`, `Clear` (the memset), `Fill` (lines 39-66), `Walk` (one round of the
unrolled loop) and `Submit`. The reader takes a record (`Read`) or, having come to the
end of the ring, goes to sleep in `epoll_wait` (`Sleep`); `Submit`, with flags 0, wakes
it only if it has consumed everything before the record. Reserved memory starts as `Junk`, a value no
event has. `CoreRead` follows a chain of pointers as the macros of
`bpf_core_read.h` do: a read through NULL or through -1 faults and yields NULL. The
kernel calls `oom_kill_process` under a lock; the model does not rely on that and
lets the probe run on several CPUs at once.

**NameCell** follows one string, byte by byte, from the kernel through a cell of
the event (cleared, filled by `bpf_core_read_str`, reinterpreted as `int8`) to
the Go string.

**Process** is the life of the process. `stage` is the call `main` is at:

| action | code |
|---|---|
| `StopsAtFlags`, `NotifyContext` | `cmd/main.go` 51-66 |
| `CreateClients`, `WaitForCacheSync`, `InformersSync` | `k8s.go` 29-56 |
| `ServeMux`, `ListenAndServe` | `metrics.go` 83-95, `cmd/main.go` 81-86 |
| `NewOOMTracer` | `oomtracer.go` 56-70 |
| `LoadObjects`, `Kprobe`, `NewReader`, `CallFails` | `ebpf.go` 19-51, `oomtracer.go` 73-83 |
| `LoopReturns`, `LoopFails` | `oomtracer.go` 88-92, 125-128 |
| `CloseObjs`, `CloseLink`, `CloseFnReader` | `ebpf.go` 46-50, `bpf_x86_bpfel.go` 96-143 |
| `MainExits` | `cmd/main.go` 99-104 |
| `CloseReader` | `oomtracer.go` 79-83 |
| `Signal`, `Kill`, `Restart` | signals, the kernel, the kubelet |

`objs.Close` may stop at its first error and leave the map open; a failed `LoadBPF`
leaves behind what it has made. A `Close` that fails is taken to give up its own
descriptor, as `close(2)` does. The end of a process closes everything it held.

**Node** composes the two: it instantiates `Process` beside `OOMTracer`, with which
it shares `ctx` and `rd`. The loop takes its steps at the stage `loop`, the kernel
reports while the link is held, and the end of the process takes the ring, the
cache, the counters and the loop's state with it, but neither the pods nor the
patches under way. Requests are numbered from 1 in every life; `Forget` moves the
numbers of the old ones out of the way, since their connections are gone.

**Config** renders the chart's values into arguments (`Render`), parses them one
by one (`ParseArg`: a flag that is not declared, or a value of the wrong type, ends
the process; the last value of a flag wins; the first argument that is no flag ends
the parsing) and starts the tracer (`Start`) or prints the version
(`PrintVersion`). Texts are sequences over four characters: blank, `=`, quote,
other. A plain YAML scalar keeps quotes in its middle and drops blanks at its end.
**Version** holds `splitVersion` as operators.

**EventQueue** is the abstract queue. **MC\*** modules give the constants their
values. The **\*Proofs** modules hold the theorems; **TextProofs** has the lemmas about
texts that **ConfigProofs** rests on.

## What the runs check

All runs but `process` allow the system to stop (`CHECK_DEADLOCK FALSE`): the agent
returns, and the bounds end the environment's steps.

| run | question | result |
|---|---|---|
| `tracer_one` | One pod, every environment step. `TypeOK`; `Accounting`: every event decoded is counted in exactly one place; `NoSilentMark`: not more pods changed than patches reported, although answers get lost; `ReturnsOnlyOnSignal`; `UnmatchedIsUnlisted`: an event that shows its pod's UID fails to match only if the cache lacks the pod; `OwnersValueKept`: an annotation its owner set stays once the cache has it and no older patch is under way | holds |
| `tracer_two` | Two pods, names never reused. `Provenance`, and `MarkedOnlyVictims`: every pod changed was the victim of a kill the flags select; `HandledInOrder`: the ring and the event in hand refine `EventQueue`, so kills are handled one by one in the order reported | holds |
| `tracer_live` | Acting on all kills. `ShutdownCompletes`: the loop ends after a signal, even if every read fails; `EventResolved` | holds |
| `lookup` | `LoopIsIdentify`: the loops compute `Identify` for every path and order of the list | holds |
| `probe` | `ReadsWhatHappened`: the reader gets complete events, in order of reservation, with nothing stale in them; `IsEventQueue`; `AllRead`: every record reserved is read, although the reader sleeps and CPUs submit out of order | holds |
| `names` | `NameArrives`: the agent's string is the kernel's, cut to what fits | holds |
| `process` | `TypeOK`; `OneProbe`: `LoadBPF` never runs beside a probe that is still held; `DetachedAtShutdown`; `SuccessExplained`: status 0 only for `--help` and `--version`, or because the loop returned after a signal; `SignalEndsProcess`; `TracingResumes`: once faults stop, the loop runs for good, with filled caches | holds |
| `node` | Two lives, and two pods, which may have the same name or a victim's and a bystander's. `MarkedNameOfVictim`: what is marked has the name of a victim the probe reported, in this life or an earlier one; `WarmCache`: a loop not being shut down knows the pods that were there at its start; `NotStranded`: no event stays in the ring | holds |
| `config` | `ParsesAsDocumented`: `parseAnnotation` against the syntax of the flag's help; `AnnotatesAsConfigured`: a well-formed `victimAnnotation` arrives; `ObservesAsAsked`: a tracer that runs is in dry-run mode if and only if the values ask for it; `DeclaredPortServed`: the endpoint has the port the pod declares, or the default; `SplitsVersion` | holds |
| `tracer_wrong_pod` | `MarkedOnlyVictims` with names reused | violated |
| `tracer_marked_count` | `MarkedCountsPods` | violated |
| `config_dryrun` | `DryRunOnlyReports` | violated |

The violations are disagreements between the code and its documentation.

* *Wrong pod.* `README.md:5` says the tracer annotates the offending workloads.
  `AnnotatePod` patches by namespace and name. If the victim is deleted after it
  was listed and another pod takes its name (a StatefulSet's or a static pod)
  before the patch is served, that pod is marked for eviction. A UID in the patch's
  metadata would make the server refuse it.
* *Marked twice.* `metrics.go:46` calls `marked_victims_total` the number of marked
  pods. The loop looks for the annotation in the cached pod; two kills in one pod
  before the informer catches up are counted as two.
* *Dry-run does not start.* `values.yaml:7` says of `dryRun` "Only report OOM kills".
  The template renders `--victim_annotation=""` as a plain scalar; the flag's value
  is two quotes, which `parseAnnotation` refuses, and `main` ends with a fatal error.

Three smaller disagreements can be read off `Config` without a run of their own.
With `metric.disabled` the template leaves the address out, and the flag's default
`:8080` keeps the endpoint on, as `DeclaredPortServed` states. The flags are declared with underscores, while
`README.md:89-90` and `docs/DEVELOPMENT.md:82` spell them with dashes, which
`flag.Parse` refuses. The template's default for an empty `victimAnnotation` has its
value in quotes, which become part of it.

### Bounds

One pod with two container starts and two events lets an event overtake a
restart, a cache update, a patch and a signal; the ring of one record makes the
second kill find it full. Two pods are the least for confusion between pods, two
UIDs of one name the least for confusion between generations. `MCPaths` has a path
per way of spelling: the systemd driver, the cgroupfs driver below nested cgroups,
a static pod (whose slice shows a hash instead of its UID) and a path too deep to
show the pod at all. `Happenings` says which optional environment steps an instance
has, and `Victims` the names of the pods that can lose a process: the runs with two
pods or two UIDs leave out what their question does not depend on. `tracer_two` has a
ring of two records, so that there is an order in which they are taken. In `probe`, two CPUs and three calls with room for two records give a
full ring, a freed one, and submissions out of order before a reader that sleeps; `MCCalls` has a call for every
branch of lines 44-66, and its nodes are one with a nameless ancestor and one deeper
than four. In `names`, names are up to one byte longer than a cell, from bytes on
both sides of the change of sign. `process` has no bound. In `node`, two lives
are the least for something to be left over from an earlier one. Two pods with two
names to choose from are one name used twice, or a victim beside a bystander:
`Victims` has one name, and a pod of the other one must never be marked. One kill, and
one the flags select, keep it small; the kills the flags do not select and those
outside of pods are left to the `tracer` runs. In `config`, five characters are enough for a blank before, after and
around the `=`, and for two `=`; the versions are all concatenations of up to six
pieces of a version, one more than the longest recognised form needs.
In `lookup` every path over seven names and every list of at most two pods is tried.

### Fairness

`FairSpec` of `OOMTracer` assumes that the Go runtime schedules the loop and the
goroutine (weak fairness of the loop's steps after a read as one action, and of
`CloseReader`), and that a request in flight is served or fails
(weak fairness of `APIServer`; the transport reports broken connections). That a
read succeeds is not assumed. Failing listings and connections, the cluster, the
kernel and signals are not fair.
`FairSpec` of `OOMKill` assumes that a probe that has started ends, which the BPF
verifier guarantees, and that the agent reads on while it is awake; what wakes it is
up to `Submit`.
`FairSpec` of `Process` assumes that calls return, but for the wait for the
informers, and that the runtime schedules `main` and the goroutine. Only
`TracingResumes` assumes more, as a premise: that the kubelet restarts the container
and the API server lets the informers list. It says nothing of a behaviour in which
faults recur for ever. `NodeFairSpec` combines these, and assumes of `rd.Read` that it
does not fail for ever.

## What is proved

Every invariant, action property and refinement that a passing run checks is also a
theorem: the run shows it on a small instance, the proof for every value of the
constants.

| module | theorem | statement |
|---|---|---|
| `OOMTracerProofs` | `TypeCorrect` | `Spec => []TypeOK` |
| | `ProvenanceHolds` | `Spec => []Provenance` |
| | `MarksName` | `Spec => []MarkedNameOfVictim` |
| | `MarksVictims` | `~NamesReused => (Spec => []MarkedOnlyVictims)` |
| | `HandlesInOrder` | `Spec => HandledInOrder` |
| | `CountersAddUp` | `Spec => []Accounting` |
| | `CleanReturn` | `Spec => []ReturnsOnlyOnSignal` |
| | `MarksReported` | `Spec => []NoSilentMark` |
| | `UnmatchedOnlyIfUnlisted` | `Spec => UnmatchedIsUnlisted` |
| | `OwnersAnnotationStays` | `Spec => OwnersValueKept` |
| `LookupLoopProofs` | `LoopComputesIdentify` | `Spec => []LoopIsIdentify` |
| `OOMKillProofs` | `ProbeTypes` | `Spec => []TypeOK` |
| | `ReadsKills` | `Spec => []ReadsWhatHappened` |
| | `ProbeRefinesQueue` | `Spec => IsEventQueue` |
| `NameCellProofs` | `NamesArrive` | `Spec => []NameArrives` |
| `ProcessProofs` | `ProcessTypes` | `Spec => []TypeOK` |
| | `LoadsOneProbe` | `Spec => []OneProbe` |
| | `ShutsDownDetached` | `Spec => []DetachedAtShutdown` |
| | `ExitsTruthfully` | `Spec => []SuccessExplained` |
| `NodeProofs` | `NodeRunsProcess` | `NodeSpec => P!Spec` |
| | `CacheIsWarm` | `NodeSpec => []WarmCache` |
| | `MarksNameOverLives` | `NodeSpec => []MarkedNameOfVictim` |
| | `MarksVictimsOverLives` | `~NamesReused => (NodeSpec => []MarkedOnlyVictims)` |
| `ConfigProofs` | `ReadsAsDocumented` | `Spec => []ParsesAsDocumented` |
| | `AnnotationArrives` | `Spec => []AnnotatesAsConfigured` |
| | `ObservesIffAsked` | `Spec => []ObservesAsAsked` |
| | `PortServed` | `Spec => []DeclaredPortServed` |
| | `VersionSplits` | `Spec => []SplitsVersion` |

### Assumptions

Bounds are natural numbers and sets of inputs have the types the modules give them
(`ConfigAssumption`, `PathAssumption`, `BoundAssumption`, `CallsAssumption`,
`NodesAssumption`, `MaxLenAssumption`, `VersionsAssumption`, `ArgsAssumption`).
Beyond types: values that stand for "none" differ from proper ones (`NilAssumption`,
`NoMatchAssumption`, `ListAssumption`; in `PointerAssumption`, NULL and -1 are not
addresses of anything the probe follows a pointer to); a cell has at least one byte
and a name no NUL (`SizeAssumption`, `NamesAssumption`); a port is not a blank
(`PortsAssumption`). TLC evaluates all of them in the runs.

### Arguments

**The loop.** `MarkedOnlyVictims` is not inductive: whether a patch may be applied was
decided when the event was looked up, several steps earlier and from a stale cache.
`Provenance` carries that decision along. It says that listed pods own the UID and
the container IDs they show, that an event shows nothing but its victim's, and that
a request under way was computed for a pod that warrants it. The lemma
`IdentifyIsVictim` is the heart: if a path shows only UIDs and containers of `v`, and
pods are truthful, the lookup returns no pod but `v`. It does not matter how old the
cache is, since UIDs and container IDs are never reused. `StepGrows` and `StillTrue`
say that what is known of UIDs and kills stays true. From there `MarksName` follows
by one more induction, and `MarksVictims` because a name that is not reused stands
for one UID (`NamesUnique`). `CleanReturn` needs that the reader is closed only after
a signal. `MarksVictims` and `CountersAddUp` cover the dry-run mode (`annotate` false:
nothing is ever changed) and both values of `ignore_global_oom`.

`NoSilentMark` compares pods changed with patches counted, and says nothing of the
patches in between. `PatchesPaidFor` does: pods changed and patches under way are
together at most the patches counted as applied or failed, plus the one the loop
waits for. A patch is thus paid for when the loop stops waiting, before or after it is
served. `HandledInOrder` maps the queue to the ring with the event in hand before it
(`Pending`): to read an event that is looked up then is a stuttering step, and the event
leaves the queue when the lookup is done. `UnmatchedIsUnlisted` rests on `UidFinds` (a name that shows a UID finds its
pod, in either spelling) and `SomeNameIdentifies`.

**The lookup.** `IInv` of `LookupLoopProofs` says what the loops have ruled out: no
earlier candidate matches any listed pod, and the current one none before index `j`.
`Identify` asks for the first name that finds any pod, and this is what is left when
the loops end. That a name finds at most one pod comes from the lists, which hold no
UID or container twice.

**The probe.** `ReadsWhatHappened` is about events already read, so `IInv` has to
describe those being written: a CPU inside the probe owns a busy record which no
other CPU writes (`Owns`, `Apart`) and the reader has not come to; its content is
what the probe's step says (`Progress`: cleared, or the names of the rounds done so
far, `Partly`); and a record that is not busy is complete (`Complete`).
`StartsAtCulprit` shows that following the pointers gives the same node as the
definition of what is to be reported, through NULL and -1 too. The refinement maps
the queue to the events reserved and not yet read (`Window`): reserving is sending,
and clearing, filling, walking and submitting are stuttering steps.

**The strings.** Inductive with `NameArrives` (`IInv` of `NameCellProofs`): a cell is
all zero when the string is copied into it, and afterwards holds the part that
fits, followed by a NUL, or is still zero if there was no name. `FirstNul` shows
that the conversion stops at that NUL, `ByteRoundTrip` that `int8` changes no byte.

**The process.** `IInv` of `ProcessProofs` adds what the properties rest on: nothing is
held from the start of `main` to `LoadBPF`, nor after the exit; the link stays closed
after `CloseLink`; the loop finds its reader closed only if the context is done; `main`
gets past `WaitForCacheSync` with filled caches or a context that is done (`Warm`).
`Process` has finitely many states, all of which TLC has seen; the proofs are there to
be used for `Node`. A step of the node is a step of its process (`NodeRunsProcess`),
and, but for the end of the process and the first list, one of `OOMTracer`. `NodeInv`
joins the invariants of both; what `Forget` takes away breaks none of them, because
requests under way keep their provenance and the history of kills outlives the
process. `Warmed` adds that every pod older than the first list is in the cache
under its UID as long as it exists.

**The configuration.** `TextProofs` characterises the string functions by positions:
`TrimIs` and `FrameUnique` (a text is blanks, a part that begins and ends with
something else, and blanks, in one way only), `SplitIs`, and for the version `TagIs`,
`BuildIs` and `PartIs`. From these, `NoReading` and `OneReading` show that a text has
at most one reading as `key=value`, and `Parses` that `parseAnnotation` finds it. `IInv`
of `ConfigProofs` follows the flags: the arguments left are a suffix of the rendered ones
(`Left`), and once the chart's own argument for the annotation or the address has been
taken, the flag has that value or `extraArgs` name it (`Annotated`, `Bound`); until then
the address is the default (`Unbound`). `Splits` puts a version of any length together
again from what `splitVersion` returns.

### Only model-checked

The liveness properties, since fairness is out of the prover's reach:
`ShutdownCompletes` and `EventResolved` (`OOMTracer`), `AllRead` (`OOMKill`),
`SignalEndsProcess` and `TracingResumes` (`Process`), `NotStranded` (`Node`). The three
violated properties are shown by TLC's counterexamples.

## What is abstracted or left out

* Names, UIDs and container IDs are values; the text of names is modelled by what
  the two regular expressions make of it. The names the kubelet and the runtimes
  give are shorter than a cell. `comm`, pids and page counts are left out of the
  events, since only the log shows them; `NameCell` covers the string of `comm` too.
* Removing the annotation from a pod by hand is not modelled. `EventResolved` would
  then hold only up to the lag of the cache.
* A pod's processes end with the pod: a kill in a pod that was force-deleted from
  the API server is not modelled.
* A listing fails for no stated reason; in client-go it does so only if the index
  is missing.
* In `Node` owners set no annotations and no metrics are served; a kill while no
  probe is attached leaves nothing the tracer could see and is a stuttering step.
* `Config` leaves out the flags of the API connection, and characters that would
  make the rendered scalar something else to YAML (` #`, `: `).

## Not modelled

* `headers/vmlinux*.h` (332 000 of the 338 000 lines of C) are type declarations
  dumped from the kernel's BTF, one file per architecture; `bpf_helper_defs.h`,
  `bpf_helpers.h` and `bpf_tracing.h` are tables of helper numbers, attributes and
  register names; `bpf_x86_bpfel.go` and `bpf_arm64_bpfel.go` embed the compiled
  probe. They have no steps. What the program uses of them is modelled where it is
  used: `BPF_CORE_READ`, the string and ring buffer helpers, `Close`.
* The chart's `ServiceAccount`, roles and helpers are static objects.
* The descheduler is another program; of it only its evictions matter here.
