----------------------------- MODULE LookupLoop -----------------------------
(***************************************************************************)
(* The candidate loop of TraceKernelOOMKills and the loops of LookupPod    *)
(* that it calls (pkg/oomtracer/oomtracer.go), step by step: one step per  *)
(* candidate entered and per pod compared, over a list of pods whose order *)
(* is that of the informer's index, which is not fixed.  PodLookup!Identify*)
(* is what these loops are meant to compute.                               *)
(***************************************************************************)
EXTENDS PodLookup, Sequences, Functions

CONSTANTS
  Names,       \* the cgroup names that may be met
  Pods,        \* the pods that may be listed, [uid, container, init, ephemeral]
  MaxListed,   \* bound on the length of the list
  Nil

ASSUME ListAssumption == MaxListed \in Nat /\ Nil \notin Pods

VARIABLES
  candidates,  \* event.Names as strings
  pods,        \* what ListPodsOnANode returned
  pc,          \* "candidate", "pod", "done"
  s,           \* index of the current candidate
  j,           \* index of the pod LookupPod compares next
  id           \* the result

vars == <<candidates, pods, pc, s, j, id>>
-----------------------------------------------------------------------------
Cids(p) == p.container \cup p.init \cup p.ephemeral

\* A node lists a pod once, and no container is in two pods.
Lists == {l \in UNION {[1..n -> Pods] : n \in 0..MaxListed} :
            \A a, b \in DOMAIN l :
              a # b => l[a].uid # l[b].uid /\ Cids(l[a]) \cap Cids(l[b]) = {}}

Init ==
  /\ candidates \in [1..Depth -> Names]
  /\ pods \in Lists
  /\ pc = "candidate" /\ s = 1 /\ j = 1 /\ id = Nil

podUIDMatch      == podPattern(candidates[s])
containerIDMatch == cidPattern(candidates[s])

NextCandidate == pc' = "candidate" /\ s' = s + 1 /\ j' = 1

\* for _, s := range candidates: skip the empty string, and what neither
\* expression matches; otherwise LookupPod starts on the list.
Candidate ==
  /\ pc = "candidate" /\ s <= Depth
  /\ \/ /\ \/ candidates[s].kind = "empty"
           \/ podUIDMatch = NoMatch /\ containerIDMatch = NoMatch
        /\ NextCandidate
     \/ /\ candidates[s].kind # "empty"
        /\ podUIDMatch # NoMatch \/ containerIDMatch # NoMatch
        /\ pc' = "pod" /\ j' = 1 /\ UNCHANGED s
  /\ UNCHANGED <<candidates, pods, id>>

HasRunningContainer(pod, target) ==     \* Mutant: one list of the three.
  target \in pod.container

\* The three lists of statuses, one after the other.
HasContainer(pod, target) ==
  \/ target \in pod.container
  \/ target \in pod.init
  \/ target \in pod.ephemeral

IsVictim(pod) ==
  IF podUIDMatch # NoMatch
  THEN APISpelling(pod.uid) = ReplaceAll(podUIDMatch)
  ELSE HasContainer(pod, containerIDMatch)

Found ==
  /\ pc = "pod" /\ j <= Len(pods) /\ IsVictim(pods[j])
  /\ id' = pods[j] /\ pc' = "done"
  /\ UNCHANGED <<candidates, pods, s, j>>

NotThisPod ==
  /\ pc = "pod" /\ j <= Len(pods) /\ ~IsVictim(pods[j])
  /\ j' = j + 1
  /\ UNCHANGED <<candidates, pods, pc, s, id>>

\* LookupPod returns nil.
NoPod ==
  /\ pc = "pod" /\ j > Len(pods)
  /\ NextCandidate
  /\ UNCHANGED <<candidates, pods, id>>

NoMoreCandidates ==
  /\ pc = "candidate" /\ s > Depth
  /\ pc' = "done"
  /\ UNCHANGED <<candidates, pods, s, j, id>>

Next == Candidate \/ Found \/ NotThisPod \/ NoPod \/ NoMoreCandidates

Spec == Init /\ [][Next]_vars
-----------------------------------------------------------------------------
\* The listed pods as PodLookup sees them.
Listed == {[pod |-> p, uid |-> p.uid, cids |-> Cids(p)] : p \in Range(pods)}

(***************************************************************************)
(* The loops find the pod Identify finds, and nil exactly if it finds      *)
(* none, in whatever order the pods are listed (oomtracer.go:130-139 and   *)
(* 183-221): the steps of OOMTracer may use Identify in their place.       *)
(***************************************************************************)
LoopIsIdentify ==
  pc = "done" => {p.pod : p \in Identify(candidates, Listed)}
                   = IF id = Nil THEN {} ELSE {id}
=============================================================================
