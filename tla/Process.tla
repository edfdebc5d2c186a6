------------------------------ MODULE Process ------------------------------
(***************************************************************************)
(* The life of the tracer process: main (cmd/main.go), CreateClients       *)
(* (pkg/k8s/k8s.go), NewMetrics and ServeMux (pkg/metrics/metrics.go),     *)
(* LoadBPF and the closeFn it returns (pkg/ebpf/ebpf.go), and around the   *)
(* loop of TraceKernelOOMKills the goroutine that closes the reader and    *)
(* the deferred closeFn.  What the loop does between its start and its     *)
(* return is OOMTracer's subject; Node puts the two together.              *)
(*                                                                         *)
(* stage is the call main has come to.  A signal, the informers, the       *)
(* metrics server and the goroutine act beside it; the process can be      *)
(* killed at any moment, and the kubelet starts it again with the same     *)
(* command line.                                                           *)
(***************************************************************************)
VARIABLES
  flags,    \* what the command line says, the same at every start
  stage,    \* the call main is at, or "exited"
  err,      \* how the loop ended: "none", "canceled" or "failure"
  ctx,      \* "live", or "done" once NotifyContext has seen a signal
  synced,   \* the informers have listed the cluster once
  server,   \* the metrics server: "off", "starting", "serving", "failed"
  held,     \* the kernel objects the process keeps alive
  rd,       \* the ring buffer reader: "open" or "closed"
  closer,   \* the goroutine that closes it: "none", "waiting", "done"
  code      \* how the last process ended: 0, 2, 255, or a signal

vars == <<flags, stage, err, ctx, synced, server, held, rd, closer, code>>
-----------------------------------------------------------------------------
\* What flag.Parse makes of the command line: it is well-formed, or it asks for
\* help before anything is wrong with it, or there is an error; --version; a node
\* name; a metrics address; and an annotation parseAnnotation accepts.
Flags == [parse: {"ok", "help", "error"}, version: BOOLEAN, node: BOOLEAN, metrics: BOOLEAN,
          annotation: BOOLEAN]

Stages == {"flags", "clients", "sync", "metrics", "tracer", "load", "attach",
           "open", "loop", "close_objs", "close_link", "close_reader",
           "shutdown", "fatal", "exited"}

Objects == {"prog", "map", "link"}

Init ==
  /\ flags \in Flags /\ stage = "flags" /\ err = "none" /\ ctx = "live"
  /\ synced = FALSE /\ server = "off" /\ held = {} /\ rd = "closed"
  /\ closer = "none" /\ code = "none"

Goto(s) ==
  stage' = s /\ UNCHANGED <<flags, err, ctx, synced, server, held, rd, closer, code>>

\* The process ends, and the kernel closes its descriptors: that is the end
\* of the link, the program and the map.
Exit(c) ==
  /\ stage' = "exited" /\ code' = c
  /\ held' = {} /\ rd' = "closed" /\ closer' = "none" /\ server' = "off"
  /\ synced' = FALSE
  /\ UNCHANGED <<flags, err, ctx>>
-----------------------------------------------------------------------------
(***************************************************************************)
(* main up to the loop.                                                    *)
(***************************************************************************)
\* flag.Parse, --version and --node_name.  The flag set is one of ExitOnError:
\* flag.ErrHelp, for -h and --help, ends the process with status 0 and any
\* other error with 2.
StopsAtFlags ==
  /\ stage = "flags"
  /\ \/ flags.parse = "help" /\ Exit("0")
     \/ flags.parse = "error" /\ Exit("2")
     \/ flags.parse = "ok" /\ flags.version /\ Exit("0")
     \/ flags.parse = "ok" /\ ~flags.version /\ ~flags.node /\ Goto("fatal")

\* signal.NotifyContext: from here on SIGINT and SIGTERM cancel ctx.
NotifyContext ==
  /\ stage = "flags"
  /\ flags.parse = "ok" /\ ~flags.version /\ flags.node
  /\ Goto("clients")

\* CreateClients has its clientset and starts the informers.
CreateClients == stage = "clients" /\ Goto("sync")

SyncNotAwaited == stage = "sync" /\ Goto("metrics")      \* Mutant: no wait.

SyncForEver == stage = "sync" /\ synced /\ Goto("metrics")     \* Mutant: ctx is not passed.

\* WaitForCacheSync returns when it may stop waiting, and CreateClients does
\* not look at what it returns.
WaitForCacheSync ==
  /\ stage = "sync"
  /\ synced \/ ctx = "done"
  /\ Goto("metrics")

ServeMuxInForeground ==      \* Mutant: ListenAndServe without "go".
  /\ stage = "metrics"
  /\ server' = IF flags.metrics THEN "starting" ELSE "off"
  /\ stage' = IF flags.metrics THEN stage ELSE "tracer"
  /\ UNCHANGED <<flags, err, ctx, synced, held, rd, closer, code>>

\* NewMetrics, nil for an empty address, and ServeMux.
ServeMux ==
  /\ stage = "metrics"
  /\ server' = IF flags.metrics THEN "starting" ELSE "off"
  /\ stage' = "tracer"
  /\ UNCHANGED <<flags, err, ctx, synced, held, rd, closer, code>>

NewOOMTracer ==
  /\ stage = "tracer"
  /\ Goto(IF flags.annotation THEN "load" ELSE "fatal")

Holding(objects, s) ==
  /\ stage' = s /\ held' = held \cup objects
  /\ UNCHANGED <<flags, err, ctx, synced, server, rd, closer, code>>

\* LoadBPF: RemoveMemlock and loadBpfObjects, link.Kprobe, ringbuf.NewReader.
LoadObjects == stage = "load" /\ Holding({"prog", "map"}, "attach")

Kprobe == stage = "attach" /\ Holding({"link"}, "open")

\* The loop starts, with the goroutine that waits for ctx.
NewReader ==
  /\ stage = "open"
  /\ stage' = "loop" /\ rd' = "open" /\ closer' = "waiting"
  /\ UNCHANGED <<flags, err, ctx, synced, server, held, code>>

\* Mutant: main starts the tracer again when LoadBPF fails.
CallRetried ==
  /\ stage \in {"clients", "load", "attach", "open"}
  /\ Goto(IF stage = "clients" THEN "fatal" ELSE "load")

\* One of the calls fails.  LoadBPF leaves behind what it has made so far.
CallFails ==
  /\ stage \in {"clients", "load", "attach", "open"}
  /\ Goto("fatal")
-----------------------------------------------------------------------------
(***************************************************************************)
(* The loop ends, closeFn runs, and main decides how to exit.              *)
(***************************************************************************)
Ends(e) ==
  /\ stage = "loop" /\ stage' = "close_objs" /\ err' = e
  /\ UNCHANGED <<flags, ctx, synced, server, held, rd, closer, code>>

\* Read returns ErrClosed, and the loop ctx.Err().
LoopReturns == rd = "closed" /\ Ends("canceled")

\* ListPodsOnANode returns an error.
LoopFails == Ends("failure")

\* objs.Close: the program, then the map.  It stops at the first error, and
\* closeFn does not look at it.
CloseObjs ==
  /\ stage = "close_objs" /\ stage' = "close_link"
  /\ \/ held' = held \ {"prog", "map"}
     \/ held' = held \ {"prog"}
  /\ UNCHANGED <<flags, err, ctx, synced, server, rd, closer, code>>

CloseLinkIfObjsClosed ==      \* Mutant: closeFn stops at the error of objs.Close.
  /\ stage = "close_link" /\ stage' = "close_reader"
  /\ held' = IF "map" \in held THEN held ELSE held \ {"link"}
  /\ UNCHANGED <<flags, err, ctx, synced, server, rd, closer, code>>

CloseLink ==
  /\ stage = "close_link" /\ stage' = "close_reader"
  /\ held' = held \ {"link"}
  /\ UNCHANGED <<flags, err, ctx, synced, server, rd, closer, code>>

CloseFnReaderLeft ==      \* Mutant: the reader is left to the goroutine.
  /\ stage = "close_reader"
  /\ stage' = IF err = "canceled" THEN "shutdown" ELSE "fatal"
  /\ UNCHANGED <<flags, err, ctx, synced, server, held, rd, closer, code>>

\* rd.Close, which the goroutine may have called already.
CloseFnReader ==
  /\ stage = "close_reader"
  /\ stage' = IF err = "canceled" THEN "shutdown" ELSE "fatal"
  /\ rd' = "closed"
  /\ UNCHANGED <<flags, err, ctx, synced, server, held, closer, code>>

\* main returns after "Shutting down", or klog.Fatalf ends the process.
MainExits ==
  \/ stage = "shutdown" /\ Exit("0")
  \/ stage = "fatal" /\ Exit("255")

Main ==
  \/ StopsAtFlags \/ NotifyContext \/ CreateClients \/ WaitForCacheSync
  \/ ServeMux \/ NewOOMTracer \/ LoadObjects \/ Kprobe \/ NewReader
  \/ CallFails \/ CloseObjs \/ CloseLink \/ CloseFnReader \/ MainExits
-----------------------------------------------------------------------------
(***************************************************************************)
(* What happens beside main.                                               *)
(***************************************************************************)
CloseReaderAtOnce ==      \* Mutant: the goroutine does not wait for ctx.
  /\ closer = "waiting" /\ closer' = "done" /\ rd' = "closed"
  /\ UNCHANGED <<flags, stage, err, ctx, synced, server, held, code>>

\* The goroutine of TraceKernelOOMKills: <-ctx.Done(); rd.Close()
CloseReader ==
  /\ closer = "waiting" /\ ctx = "done"
  /\ closer' = "done" /\ rd' = "closed"
  /\ UNCHANGED <<flags, stage, err, ctx, synced, server, held, code>>

\* The informers have listed the pods and nodes.
InformersSync ==
  /\ ~synced /\ stage \notin {"flags", "clients", "exited"}
  /\ synced' = TRUE
  /\ UNCHANGED <<flags, stage, err, ctx, server, held, rd, closer, code>>

\* The goroutine of ServeMux: it binds the address, or logs why it ended.
ListenAndServe ==
  /\ \/ server = "starting" /\ server' = "serving"
     \/ server \in {"starting", "serving"} /\ server' = "failed"
  /\ UNCHANGED <<flags, stage, err, ctx, synced, held, rd, closer, code>>

\* SIGTERM or SIGINT: before NotifyContext it kills the process.
Signal ==
  \/ stage = "flags" /\ Exit("signal")
  \/ /\ stage \notin {"flags", "exited"}
     /\ ctx = "live" /\ ctx' = "done"
     /\ UNCHANGED <<flags, stage, err, synced, server, held, rd, closer, code>>

\* SIGKILL: the grace period is over, or the process is itself out of memory.
Kill == stage # "exited" /\ Exit("signal")

\* The kubelet starts the container again.
Restart ==
  /\ stage = "exited" /\ stage' = "flags" /\ err' = "none" /\ ctx' = "live"
  /\ UNCHANGED <<flags, synced, server, held, rd, closer, code>>

Environment == Signal \/ Kill \/ Restart \/ ListenAndServe

Next == \/ Main \/ LoopReturns \/ LoopFails
        \/ CloseReader \/ InformersSync \/ Environment

Spec == Init /\ [][Next]_vars

\* The Go runtime runs main and the goroutine; every call returns, but for
\* the wait for the informers and the loop.
FairSpec == Spec /\ WF_vars(Main \/ LoopReturns) /\ WF_vars(CloseReader)

-----------------------------------------------------------------------------
(***************************************************************************)
(* Properties.                                                             *)
(***************************************************************************)
TypeOK ==
  /\ flags \in Flags /\ stage \in Stages
  /\ err \in {"none", "canceled", "failure"} /\ ctx \in {"live", "done"}
  /\ synced \in BOOLEAN /\ server \in {"off", "starting", "serving", "failed"}
  /\ held \subseteq Objects /\ rd \in {"open", "closed"}
  /\ rd = "open" => stage \in {"loop", "close_objs", "close_link", "close_reader"}
  /\ closer \in {"none", "waiting", "done"}
  /\ code \in {"none", "0", "2", "255", "signal"}

(***************************************************************************)
(* LoadBPF never runs while the process still holds a probe: two of them   *)
(* would report every kill twice.  What a failed LoadBPF leaves behind     *)
(* (ebpf.go:34-44) goes with the process that main ends.                   *)
(***************************************************************************)
OneProbe == stage = "load" => held = {} /\ rd = "closed" /\ closer = "none"

(***************************************************************************)
(* When main reports that it is shutting down, the probe is detached and   *)
(* the reader closed, whatever objs.Close returned and whichever of the    *)
(* goroutine and closeFn closed the reader (ebpf.go:46-50).  A Close that  *)
(* fails is taken to give up its own descriptor all the same, as close(2)  *)
(* does; what objs.Close leaves open is what it does not get to.           *)
(***************************************************************************)
DetachedAtShutdown == stage = "shutdown" => "link" \notin held /\ rd = "closed"

(***************************************************************************)
(* The process reports success only if the command line asks for the help  *)
(* text or the version (main.go:51-58), or after a signal, and then only   *)
(* if the loop returned because of it (main.go:100).  Anything else, a     *)
(* command line that does not parse, a probe that cannot be loaded or a    *)
(* listing that fails while the process is being shut down included, is a  *)
(* failure to the kubelet.                                                 *)
(***************************************************************************)
AsksToPrint == flags.parse = "help" \/ (flags.parse = "ok" /\ flags.version)

SuccessExplained ==
  stage = "exited" /\ code = "0" => AsksToPrint \/ (ctx = "done" /\ err = "canceled")

(***************************************************************************)
(* Once NotifyContext has seen a signal the process ends, whatever it was  *)
(* doing: a wait for an API server that does not answer, LoadBPF, the loop.*)
(***************************************************************************)
SignalEndsProcess == ctx = "done" ~> stage = "exited"

(***************************************************************************)
(* With a usable command line the tracer is back at work with filled       *)
(* caches, and stays there, as soon as calls stop failing and signals stop *)
(* coming, if the kubelet restarts it and the API server lets its          *)
(* informers list: nothing of what it went through lingers, and whether a  *)
(* metrics server can bind its address makes no difference                 *)
(* (metrics.go:89).                                                        *)
(***************************************************************************)
Usable == flags.parse = "ok" /\ ~flags.version /\ flags.node /\ flags.annotation

Fault == CallFails \/ LoopFails \/ Signal \/ Kill

TracingResumes ==
  Usable /\ WF_vars(Restart) /\ WF_vars(InformersSync)
    => []<><<Fault>>_vars \/ <>[](stage = "loop" /\ synced /\ rd = "open")
=============================================================================
