----------------------------- MODULE NodeProofs -----------------------------
(***************************************************************************)
(* What holds over all lives of the tracer's process on a node, however    *)
(* often it is killed and started again.                                   *)
(***************************************************************************)
EXTENDS Node, OOMTracerProofs

PP == INSTANCE ProcessProofs

\* ProcessProofs is about the process that Node instantiates.
LEMMA SameMain == P!Main <=> PP!Main
BY DEF P!Main, PP!Main, P!StopsAtFlags, PP!StopsAtFlags, P!NotifyContext,
  PP!NotifyContext, P!CreateClients, PP!CreateClients, P!WaitForCacheSync,
  PP!WaitForCacheSync, P!ServeMux, PP!ServeMux, P!NewOOMTracer, PP!NewOOMTracer,
  P!LoadObjects, PP!LoadObjects, P!Kprobe, PP!Kprobe, P!NewReader, PP!NewReader,
  P!CallFails, PP!CallFails, P!CloseObjs, PP!CloseObjs, P!CloseLink, PP!CloseLink,
  P!CloseFnReader, PP!CloseFnReader, P!MainExits, PP!MainExits, P!Goto, PP!Goto,
  P!Exit, PP!Exit, P!Holding, PP!Holding

\* So are what the goroutines, the informers, signals and the kubelet do.
LEMMA SameEnvironment == P!Environment <=> PP!Environment
BY DEF P!Environment, PP!Environment, P!Signal, PP!Signal, P!Kill, PP!Kill,
  P!Restart, PP!Restart, P!ListenAndServe, PP!ListenAndServe, P!Exit, PP!Exit

-----------------------------------------------------------------------------
\* A step of the node is a step of the process in it or leaves that alone.
LEMMA NodeStepOfProcess ==
  ASSUME [NodeNext]_NodeVars
  PROVE  [P!Next]_(P!vars)
<1> USE DEF process, P!vars
<1>1. CASE ProcessStep
  BY <1>1 DEF ProcessStep, P!Next
<1>2. CASE FirstList
  BY <1>2 DEF FirstList, P!Next
<1>3. CASE Watch
  BY <1>3 DEF Watch, Sync
<1>4. CASE LoopStep
  BY <1>4 DEF LoopStep, Read, ReadUnparsed, NoPodMatch, IdentifyOnly, Annotate,
    AnnotateOK, AnnotateFails, AnnotateLost, PatchError
<1>5. CASE LoopEnds
  BY <1>5 DEF LoopEnds, P!Next
<1>6. CASE Report
  BY <1>6, Zenon DEF Report, Kernel, KillInPod, KillOnHost, Emit
<1>7. CASE Pods
  BY <1>7 DEF Pods, CreatePod, StartContainer, DeletePod
<1>8. CASE Serve
  BY <1>8 DEF Serve, APIServer, ServePatch, LosePatch
<1>9. CASE UNCHANGED NodeVars
  BY <1>9 DEF NodeVars, vars
<1> QED BY <1>1, <1>2, <1>3, <1>4, <1>5, <1>6, <1>7, <1>8, <1>9 DEF NodeNext

(***************************************************************************)
(* The tracer on a node lives as Process says: the loop, which shares ctx  *)
(* and the reader with it, makes none of its steps otherwise.  What is     *)
(* proved of the process holds on the node.                                *)
(***************************************************************************)
THEOREM NodeRunsProcess == NodeSpec => P!Spec
<1>1. NodeInit => P!Init
  BY DEF NodeInit
<1> QED BY <1>1, NodeStepOfProcess, PTL DEF NodeSpec, P!Spec

-----------------------------------------------------------------------------
\* A step of the node is one of the process alone, or one that the tracer and its
\* environment can make, of which the first list fills the cache.
LEMMA OwnStep ==
  ASSUME [NodeNext]_NodeVars
  PROVE  \/ ProcessStep
         \/ [Next]_vars /\ UNCHANGED warm
         \/ [Next]_vars /\ cache' = api /\ UNCHANGED <<api, born>> /\ warm' = Len(born)
<1> USE DEF Next, Agent, Cluster
<1>2. CASE FirstList
  <2>1. /\ cache' = api /\ warm' = Len(born)
        /\ UNCHANGED <<born, api, kills, ring, agent, wire, reply, applied, ctx, rd>>
    BY <1>2 DEF FirstList, P!InformersSync, agent, lasting
  <2>2. Sync \/ UNCHANGED vars
    BY <2>1 DEF Sync, vars, agent
  <2> QED BY <2>1, <2>2
<1>3. CASE Watch
  BY <1>3 DEF Watch
<1>4. CASE LoopStep
  BY <1>4 DEF LoopStep
<1>5. CASE LoopEnds
  BY <1>5 DEF LoopEnds
<1>6. CASE Report
  BY <1>6 DEF Report
<1>7. CASE Pods
  BY <1>7 DEF Pods
<1>8. CASE Serve
  BY <1>8 DEF Serve
<1>9. CASE UNCHANGED NodeVars
  BY <1>9 DEF NodeVars
<1> QED BY <1>2, <1>3, <1>4, <1>5, <1>6, <1>7, <1>8, <1>9, Zenon DEF NodeNext

(***************************************************************************)
(* The store of the informers follows the pods that were there when it was *)
(* filled: a pod is changed in place or deleted, and one that gets its     *)
(* name is younger.  Nothing is claimed of a process that has no store.    *)
(***************************************************************************)
Warmed ==
  \A n \in PodName : api[n] # Nil /\ api[n].uid <= warm
    => cache[n] # Nil /\ cache[n].uid = api[n].uid

NodeInv ==
  /\ PP!IInv
  /\ TypeOK /\ Provenance /\ MarkedNameOfVictim
  /\ warm \in 0..Len(born) /\ Warmed

\* A pod keeps its UID, and a new one has the next.
UidsKept ==
  \A n \in PodName : api'[n] # Nil
    => \/ api[n] # Nil /\ api'[n].uid = api[n].uid
       \/ api'[n].uid = Len(born) + 1

\* The cache is left alone, or becomes what the server has.
Follows == cache' = cache \/ (cache' = api /\ api' = api)

\* One pod is written.
LEMMA UpdateKeepsUid ==
  ASSUME TypeOK, NEW n \in PodName, NEW q,
         api' = [api EXCEPT ![n] = q], cache' = cache,
         q # Nil => (api[n] # Nil /\ q.uid = api[n].uid) \/ q.uid = Len(born) + 1
  PROVE  UidsKept /\ Follows
<1> SUFFICES ASSUME NEW m \in PodName, api'[m] # Nil
             PROVE  \/ api[m] # Nil /\ api'[m].uid = api[m].uid
                    \/ api'[m].uid = Len(born) + 1
  BY DEF UidsKept, Follows
<1>1. api'[m] = IF m = n THEN q ELSE api[m]
  BY DEF TypeOK
<1>2. CASE m = n
  BY <1>1, <1>2
<1>3. CASE m # n
  BY <1>1, <1>3
<1> QED BY <1>2, <1>3

\* No operation of the cluster, and no Patch, changes a pod's UID.
LEMMA StepKeepsUids ==
  ASSUME TypeOK, [Next]_vars
  PROVE  UidsKept /\ Follows
<1> USE DEF cluster
<1>1. CASE UNCHANGED <<api, cache>>
  BY <1>1 DEF UidsKept, Follows
<1>2. CASE Agent
  BY <1>1, <1>2 DEF Agent, Read, ReadUnparsed, ReadClosed, ListFails, NoPodMatch,
    IdentifyOnly, Annotate, AnnotateOK, AnnotateFails, AnnotateLost, PatchError
<1>3. ASSUME NEW w \in wire, ServePatch(w) PROVE UidsKept /\ Follows
  <2>1. CASE api' = api
    BY <1>1, <1>3, <2>1 DEF ServePatch
  <2>2. CASE api[w.name] # Nil /\ api' = [api EXCEPT ![w.name].ann = "mark"]
    <3> DEFINE q == [api[w.name] EXCEPT !.ann = "mark"]
    <3>1. w.name \in PodName /\ q.uid = api[w.name].uid
      BY <2>2 DEF TypeOK, Pod
    <3>2. api' = [api EXCEPT ![w.name] = q]
      BY <2>2, Zenon
    <3> HIDE DEF q
    <3> QED BY <1>3, <2>2, <3>1, <3>2, UpdateKeepsUid, Zenon DEF ServePatch
  <2> QED BY <1>3, <2>1, <2>2 DEF ServePatch
<1>4. ASSUME NEW w \in wire, LosePatch(w) PROVE UidsKept /\ Follows
  BY <1>1, <1>4 DEF LosePatch
<1>5. ASSUME NEW n \in PodName, NEW a \in {"none", "other"}, CreatePod(n, a)
      PROVE  UidsKept /\ Follows
  <2>1. PICK q : q = [name |-> n, uid |-> Len(born) + 1, cids |-> {},
                      started |-> 0, active |-> TRUE, ann |-> a]
    OBVIOUS
  <2>2. api' = [api EXCEPT ![n] = q] /\ cache' = cache /\ q.uid = Len(born) + 1
    BY <1>5, <2>1 DEF CreatePod
  <2> QED BY <2>2, UpdateKeepsUid, Zenon
<1>6. ASSUME NEW n \in PodName,
             OwnerAnnotates(n) \/ StartContainer(n) \/ EndPod(n) \/ DeletePod(n)
      PROVE  UidsKept /\ Follows
  <2>1. api[n] # Nil /\ api[n] \in Pod /\ cache' = cache
    BY <1>6 DEF TypeOK, OwnerAnnotates, StartContainer, EndPod, DeletePod
  <2>2. PICK q : api' = [api EXCEPT ![n] = q] /\ (q # Nil => q.uid = api[n].uid)
    <3>1. CASE OwnerAnnotates(n)
      <4> DEFINE r == [api[n] EXCEPT !.ann = "other"]
      <4>1. r.uid = api[n].uid
        BY <2>1 DEF Pod
      <4>2. api' = [api EXCEPT ![n] = r]
        BY <3>1, Zenon DEF OwnerAnnotates
      <4> QED BY <4>1, <4>2, Zenon
    <3>2. CASE StartContainer(n)
      <4> DEFINE r == [api[n] EXCEPT !.started = api[n].started + 1,
                         !.cids = {<<api[n].uid, api[n].started + 1>>}]
      <4>1. r.uid = api[n].uid
        BY <2>1 DEF Pod
      <4>2. api' = [api EXCEPT ![n] = r]
        BY <3>2, Zenon DEF StartContainer
      <4> QED BY <4>1, <4>2, Zenon
    <3>3. CASE EndPod(n)
      <4> DEFINE r == [api[n] EXCEPT !.active = FALSE]
      <4>1. r.uid = api[n].uid
        BY <2>1 DEF Pod
      <4>2. api' = [api EXCEPT ![n] = r]
        BY <3>3, Zenon DEF EndPod
      <4> QED BY <4>1, <4>2, Zenon
    <3>4. CASE DeletePod(n)
      BY <3>4, Zenon DEF DeletePod
    <3> QED BY <1>6, <3>1, <3>2, <3>3, <3>4
  <2> QED BY <2>1, <2>2, UpdateKeepsUid, Zenon
<1>7. CASE Sync
  BY <1>7 DEF Sync, UidsKept, Follows
<1>8. CASE Kernel
  BY <1>1, <1>8, Zenon DEF Kernel, KillInPod, KillOnHost, Emit
<1>9. CASE Signal \/ CloseReader \/ UNCHANGED vars
  BY <1>1, <1>9 DEF Signal, CloseReader, vars
<1> QED BY <1>2, <1>3, <1>4, <1>5, <1>6, <1>7, <1>8, <1>9
  DEF Next, APIServer, Cluster

\* At the start there are no pods.
LEMMA NodeInitOK == NodeInit => NodeInv
<1> SUFFICES ASSUME NodeInit PROVE NodeInv
  OBVIOUS
<1>1. PP!IInv
  <2>1. PP!Init
    BY DEF NodeInit, P!Init, PP!Init, P!Flags, PP!Flags
  <2> QED BY <2>1, PP!InitOK
<1>2. TypeOK
  BY ConfigAssumption DEF NodeInit, P!Init, TypeOK, Nothing
<1>3. Provenance /\ MarkedNameOfVictim
  BY DEF NodeInit, Nothing, Provenance, PodsTruthful, EventsTruthful,
    PatchesWarranted, MarkedNameOfVictim
<1>4. warm \in 0..Len(born) /\ Warmed
  BY DEF NodeInit, Nothing, Warmed
<1> QED BY <1>1, <1>2, <1>3, <1>4 DEF NodeInv

\* A process that starts, ends or is killed takes its memory with it, and
\* neither pods nor the patches it sent.
LEMMA ProcessStepOK ==
  ASSUME NodeInv, ProcessStep, PP!TypeOK'
  PROVE  (TypeOK /\ Provenance /\ MarkedNameOfVictim /\ warm \in 0..Len(born) /\ Warmed)'
<1>0. /\ TypeOK /\ Provenance /\ MarkedNameOfVictim /\ warm \in 0..Len(born) /\ Warmed
      /\ UNCHANGED <<born, api, kills, applied>>
      /\ ctx' \in {"live", "done"} /\ rd' \in {"open", "closed"}
  BY DEF NodeInv, ProcessStep, lasting, PP!TypeOK
<1>1. Grows
  BY <1>0 DEF Grows, Uids
<1>2. MarkedNameOfVictim'
  BY <1>0, <1>1, StillTrue DEF MarkedNameOfVictim, Grows
<1>3. CASE Forget
  <2>1. wire' \subseteq [seq: Nat, name: PodName, uid: Nat]
    <3> SUFFICES ASSUME NEW w \in wire
                 PROVE  [w EXCEPT !.seq = @ + MaxKills + 1] \in [seq: Nat, name: PodName, uid: Nat]
      BY <1>3 DEF Forget
    <3>1. w \in [seq: Nat, name: PodName, uid: Nat] /\ w.seq + MaxKills + 1 \in Nat
      BY <1>0, ConfigAssumption DEF TypeOK
    <3> QED BY <3>1
  <2>2. TypeOK'
    BY <1>0, <1>3, <2>1, ConfigAssumption DEF TypeOK, Forget, Nothing
  <2>3. PatchesWarranted'
    <3> SUFFICES ASSUME NEW x \in wire'
                 PROVE  x.uid \in Uids' /\ born'[x.uid] = x.name /\ Warranted(x.uid)'
      BY DEF PatchesWarranted
    <3>1. PICK w \in wire : x = [w EXCEPT !.seq = @ + MaxKills + 1]
      BY <1>3 DEF Forget
    <3>2. x.uid = w.uid /\ x.name = w.name
      BY <1>0, <3>1 DEF TypeOK
    <3>3. w.uid \in Uids /\ born[w.uid] = w.name /\ Warranted(w.uid)
      BY <1>0 DEF Provenance, PatchesWarranted
    <3> QED BY <1>1, <3>2, <3>3, StillTrue DEF Grows
  <2>4. PodsTruthful' /\ EventsTruthful'
    BY <1>0, <1>1, <1>3, StillTrue DEF Forget, Nothing, Provenance, PodsTruthful,
      EventsTruthful
  <2>5. warm' \in 0..Len(born') /\ Warmed'
    <3>1. \A n \in PodName : api[n] # Nil => api[n].uid > 0
      BY <1>0 DEF Provenance, PodsTruthful, PodTruthful, Uids, TypeOK
    <3> QED BY <1>0, <1>3, <3>1 DEF Forget, Warmed, TypeOK, Pod
  <2> QED BY <1>2, <2>2, <2>3, <2>4, <2>5 DEF Provenance
<1>4. CASE UNCHANGED <<cache, ring, pc, ev, reply, count, wire, warm>>
  <2>1. TypeOK'
    BY <1>0, <1>4 DEF TypeOK
  <2>2. Provenance'
    BY <1>0, <1>1, <1>4, PodsFrame, EventsFrame, PatchesFrame DEF Provenance
  <2> QED BY <1>0, <1>2, <1>4, <2>1, <2>2 DEF Warmed
<1> QED BY <1>3, <1>4 DEF ProcessStep, volatile

\* Every step of the node keeps the invariant.
LEMMA NodeStepOK == NodeInv /\ [NodeNext]_NodeVars => NodeInv'
<1> SUFFICES ASSUME NodeInv, [NodeNext]_NodeVars PROVE NodeInv'
  OBVIOUS
<1>1. PP!IInv'
  <2>1. [PP!Next]_(PP!vars)
    BY NodeStepOfProcess, SameMain, SameEnvironment DEF P!Next, PP!Next, P!vars,
      PP!vars, P!LoopReturns, PP!LoopReturns, P!LoopFails, PP!LoopFails, P!Ends,
      PP!Ends, P!CloseReader, PP!CloseReader, P!InformersSync, PP!InformersSync
  <2> QED BY <2>1, PP!StepOK DEF NodeInv
<1>2. CASE ProcessStep
  <2>1. PP!TypeOK'
    BY <1>1 DEF PP!IInv
  <2> QED BY <1>1, <1>2, <2>1, ProcessStepOK DEF NodeInv
<1>3. ASSUME [Next]_vars
      PROVE  /\ TypeOK' /\ Provenance' /\ MarkedNameOfVictim'
             /\ UidsKept /\ Follows
             /\ Len(born) \in Nat /\ Len(born') \in Nat /\ Len(born) <= Len(born')
  <2>1. TypeOK' /\ Provenance' /\ MarkedNameOfVictim'
    BY <1>3, TypeStep, ProvenanceStep, MarksNameStep DEF NodeInv
  <2>2. UidsKept /\ Follows
    BY <1>3, StepKeepsUids DEF NodeInv
  <2>3. Len(born) \in Nat /\ Len(born') \in Nat
    BY <2>1 DEF NodeInv, TypeOK
  <2>4. Uids \subseteq Uids'
    BY <1>3, StepGrows DEF NodeInv, Grows
  <2> QED BY <2>1, <2>2, <2>3, <2>4 DEF Uids
<1>4. CASE [Next]_vars /\ UNCHANGED warm
  <2>1. warm' \in 0..Len(born')
    BY <1>3, <1>4 DEF NodeInv
  <2>2. Warmed'
    <3> SUFFICES ASSUME NEW n \in PodName, api'[n] # Nil, api'[n].uid <= warm
                 PROVE  cache'[n] # Nil /\ cache'[n].uid = api'[n].uid
      BY <1>4 DEF Warmed
    <3>1. api[n] # Nil /\ api'[n].uid = api[n].uid
      BY <1>3, <1>4 DEF UidsKept, NodeInv
    <3> QED BY <1>3, <1>4, <3>1 DEF Follows, NodeInv, Warmed
  <2> QED BY <1>1, <1>3, <1>4, <2>1, <2>2 DEF NodeInv
<1>5. CASE [Next]_vars /\ cache' = api /\ UNCHANGED <<api, born>> /\ warm' = Len(born)
  <2>1. warm' \in 0..Len(born') /\ Warmed'
    BY <1>3, <1>5 DEF Warmed
  <2> QED BY <1>1, <1>3, <1>5, <2>1 DEF NodeInv
<1> QED BY <1>2, <1>4, <1>5, OwnStep

\* And so it holds always.
LEMMA NodeInvariance == NodeSpec => []NodeInv
BY NodeInitOK, NodeStepOK, PTL DEF NodeSpec

(***************************************************************************)
(* A loop that is not being shut down knows every pod that was there when  *)
(* its process filled its caches (k8s.go:54), in every life of the process.*)
(***************************************************************************)
THEOREM CacheIsWarm == NodeSpec => []WarmCache
<1>1. NodeInv => WarmCache
  BY DEF NodeInv, PP!IInv, PP!Warm, Warmed, WarmCache
<1> QED BY <1>1, NodeInvariance, PTL

(***************************************************************************)
(* Crashes and restarts do not lead to a wrong mark: a pod changed by a    *)
(* Patch of any of the processes has the name of a pod that lost a process *)
(* to an OOM kill the flags select.                                        *)
(***************************************************************************)
THEOREM MarksNameOverLives == NodeSpec => []MarkedNameOfVictim
<1>1. NodeInv => MarkedNameOfVictim
  BY DEF NodeInv
<1> QED BY <1>1, NodeInvariance, PTL

(***************************************************************************)
(* Where names are not reused, a pod changed by a Patch of any of the      *)
(* processes was itself such a victim, although a later life has forgotten *)
(* what the patches still under way were sent for.                         *)
(***************************************************************************)
THEOREM MarksVictimsOverLives == ~NamesReused => (NodeSpec => []MarkedOnlyVictims)
<1> SUFFICES ASSUME ~NamesReused PROVE NodeSpec => []MarkedOnlyVictims
  OBVIOUS
<1>1. NodeInit => NamesUnique
  BY DEF NodeInit, Nothing, NamesUnique, Uids
<1>2. NodeInv /\ NamesUnique /\ [NodeNext]_NodeVars => NamesUnique'
  <2> SUFFICES ASSUME NodeInv, NamesUnique, [NodeNext]_NodeVars PROVE NamesUnique'
    OBVIOUS
  <2>1. CASE ProcessStep
    BY <2>1 DEF ProcessStep, lasting, NamesUnique, Uids
  <2>2. CASE [Next]_vars
    BY <2>2, NamesUniqueStep DEF NodeInv
  <2> QED BY <2>1, <2>2, OwnStep
<1>3. NodeInv /\ NamesUnique => MarkedOnlyVictims
  BY NamesIdentify DEF NodeInv
<1> QED BY <1>1, <1>2, <1>3, NodeInvariance, PTL DEF NodeSpec

=============================================================================
