-------------------------------- MODULE Node --------------------------------
(***************************************************************************)
(* A node of the cluster over several lives of its tracer: the loop and    *)
(* its surroundings (OOMTracer) inside the process that starts, fails, is  *)
(* shut down, crashes and is restarted (Process).                          *)
(*                                                                         *)
(* The two share ctx and rd.  The loop takes its steps while the process   *)
(* is at the stage "loop", and the kernel reports kills while a probe is   *)
(* attached: from link.Kprobe on, before there is a reader, and until      *)
(* kp.Close, after the loop has returned.  A kill outside that time leaves *)
(* no trace the tracer could see, and is a stuttering step.                *)
(*                                                                         *)
(* The events in the ring, the informer's store, the counters and what the *)
(* loop was at go with the process.  The pods stay, and so do the patches  *)
(* that are on their way to the API server.  MarkedNameOfVictim is checked *)
(* here: nothing an earlier process left behind, a patch it sent or an     *)
(* event it did not get to, marks a pod that has not the name of a victim  *)
(* the probe reported.                                                     *)
(***************************************************************************)
EXTENDS OOMTracer

CONSTANT MaxLives      \* bound on the lives of the process

VARIABLES flags, stage, err, synced, server, held, closer, code,
  warm,     \* history: pods created before this process filled its caches
  lives     \* processes started so far

P == INSTANCE Process

process  == <<flags, stage, err, synced, server, held, closer, code>>
volatile == <<cache, ring, pc, ev, reply, count>>
lasting  == <<born, api, kills, applied>>

NodeVars == <<vars, process, warm, lives>>

Nothing == [n \in PodName |-> Nil]

NodeInit ==
  /\ P!Init
  /\ flags = [parse |-> "ok", version |-> FALSE, node |-> TRUE,
              metrics |-> FALSE, annotation |-> TRUE]
  /\ born = <<>> /\ api = Nothing /\ cache = Nothing
  /\ kills = {} /\ ring = <<>> /\ pc = "read" /\ ev = Nil
  /\ wire = {} /\ reply = "none" /\ applied = {}
  /\ count = [c \in Counters |-> 0] /\ warm = 0 /\ lives = 1

(***************************************************************************)
(* The process ends.  Requests are numbered from 1 in every life; those of *)
(* earlier ones are moved up, so that none of them is taken for the one    *)
(* the loop waits for: their connections are gone.                         *)
(***************************************************************************)
Forget ==
  /\ cache' = Nothing /\ ring' = <<>> /\ pc' = "read" /\ ev' = Nil
  /\ reply' = "none" /\ count' = [c \in Counters |-> 0] /\ warm' = 0
  /\ wire' = {[w EXCEPT !.seq = @ + MaxKills + 1] : w \in wire}

\* A step of main, of the goroutine or of the kubelet.
ProcessStep ==
  /\ P!Main \/ P!CloseReader \/ P!Environment
  /\ \/ stage' = "exited" /\ Forget
     \/ stage' # "exited" /\ UNCHANGED <<volatile, wire, warm>>
  /\ lives' = IF stage = "exited" THEN lives + 1 ELSE lives
  /\ lives' <= MaxLives
  /\ UNCHANGED lasting

\* The informers' first list, and their watch.
FirstList ==
  /\ P!InformersSync
  /\ cache' = api /\ warm' = Len(born)
  /\ UNCHANGED <<ring, pc, ev, reply, count, wire, lasting, lives>>

Watch == synced /\ Sync /\ UNCHANGED <<process, warm, lives>>

LoopStep ==
  /\ stage = "loop"
  /\ \/ Read \/ ReadUnparsed \/ NoPodMatch \/ IdentifyOnly \/ Annotate
     \/ AnnotateOK \/ AnnotateFails \/ AnnotateLost
  /\ UNCHANGED <<process, warm, lives>>

LoopEnds ==
  /\ \/ ReadClosed /\ P!LoopReturns
     \/ ListFails /\ P!LoopFails
  /\ UNCHANGED <<warm, lives>>

Report == "link" \in held /\ Kernel /\ UNCHANGED <<process, warm, lives>>

Pods ==
  /\ \E n \in PodName :
       CreatePod(n, "none") \/ StartContainer(n) \/ DeletePod(n)
  /\ UNCHANGED <<process, warm, lives>>

Serve == APIServer /\ UNCHANGED <<process, warm, lives>>

NodeNext == \/ ProcessStep \/ FirstList \/ Watch \/ LoopStep \/ LoopEnds
            \/ Report \/ Pods \/ Serve

NodeSpec == NodeInit /\ [][NodeNext]_NodeVars

\* As in Process and OOMTracer; rd.Read does not fail for ever.
NodeFairSpec ==
  /\ NodeSpec
  /\ WF_NodeVars(ProcessStep /\ P!Main)
  /\ WF_NodeVars(ProcessStep /\ P!CloseReader)
  /\ WF_NodeVars(LoopStep \/ (LoopEnds /\ pc' = "returned"))
  /\ WF_NodeVars(FirstList) /\ WF_NodeVars(Serve)
-----------------------------------------------------------------------------
(***************************************************************************)
(* A loop that is not being shut down knows every pod that was there when  *)
(* its process filled its caches, for as long as the pod exists: the       *)
(* victims of a kill right after a restart can be found (k8s.go:28, 54).   *)
(***************************************************************************)
WarmCache ==
  stage = "loop" /\ ctx = "live" =>
    /\ synced
    /\ \A n \in PodName : api[n] # Nil /\ api[n].uid <= warm
         => cache[n] # Nil /\ cache[n].uid = api[n].uid

(***************************************************************************)
(* No event is stranded in the ring: one that the probe reports before     *)
(* there is a reader, or while the process is being shut down, is read or  *)
(* goes with the process (ebpf.go:34, 41).                                 *)
(***************************************************************************)
NotStranded == ring # <<>> ~> ring = <<>>
=============================================================================
