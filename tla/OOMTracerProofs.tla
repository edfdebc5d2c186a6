-------------------------- MODULE OOMTracerProofs --------------------------
(***************************************************************************)
(* Proofs about OOMTracer, for every set of pod names and cgroup paths,    *)
(* every size of the ring buffer and every setting of the flags.           *)
(***************************************************************************)
EXTENDS OOMTracer, FiniteSetTheorems, TLAPS

(***************************************************************************)
(* A name in an event is well typed, and shows no UID and no container ID  *)
(* but the victim's (and the 0 that stands for no pod's).                  *)
(***************************************************************************)
LEMMA CgroupNameOfVictim ==
  ASSUME NEW k \in Kinds \cup {"static"}, NEW uid \in Nat, NEW cid \in Cid
  PROVE  /\ CgroupName(k, uid, cid) \in [kind: Kinds, uid: Nat, cid: Cid]
         /\ CgroupName(k, uid, cid).uid \in {0, uid}
         /\ CgroupName(k, uid, cid).cid[1] \in {0, cid[1]}
BY DEF CgroupName, Kinds, Cid

(***************************************************************************)
(* LookupPod finds by UID or by container ID only pods that own the UID or *)
(* the container: if all that a path shows belongs to victim v, no other   *)
(* pod can be identified.                                                  *)
(***************************************************************************)
LEMMA IdentifyIsVictim ==
  ASSUME NEW names \in [1..Depth -> [kind: Kinds, uid: Nat, cid: Cid]],
         NEW pods, NEW v \in Nat,
         \A i \in 1..Depth : names[i].uid \in {0, v} /\ names[i].cid[1] \in {0, v},
         NEW p \in Identify(names, pods),
         p.uid \in Nat \ {0}, \A c \in p.cids : c[1] = p.uid
  PROVE  p.uid = v
<1>1. PICK i \in 1..Depth : Matches(names[i], p)
  BY DEF Identify, LookupPod
<1>2. CASE ReplaceAll(podPattern(names[i])) = APISpelling(p.uid) /\ podPattern(names[i]) # NoMatch
  BY <1>2, Zenon DEF ReplaceAll, podPattern, APISpelling
<1>3. CASE cidPattern(names[i]) # NoMatch /\ cidPattern(names[i]) \in p.cids
  BY <1>3 DEF cidPattern
<1> QED BY <1>1, <1>2, <1>3 DEF Matches

(***************************************************************************)
(* The pods the listing returns are pods of the cache.                     *)
(***************************************************************************)
LEMMA IdentifiedIsListed ==
  ASSUME TypeOK, NEW names, NEW p \in Identify(names, ListPodsOnANode)
  PROVE  \E n \in PodName : p = cache[n] /\ cache[n] # Nil /\ p \in Pod
BY DEF Identify, ListPodsOnANode, TypeOK

\* What rd.Read takes from the ring buffer, and what is left.
LEMMA HeadTail ==
  ASSUME NEW S, NEW s \in Seq(S), s # <<>>
  PROVE  /\ Head(s) \in S /\ Head(s) = s[1]
         /\ Tail(s) \in Seq(S) /\ Len(Tail(s)) = Len(s) - 1
         /\ \A i \in 1..Len(Tail(s)) : Tail(s)[i] = s[i+1] /\ i + 1 \in 1..Len(s)
         /\ Len(s) \in Nat \ {0}
OBVIOUS

\* What a submitted event does to the ring buffer.
LEMMA AppendTo ==
  ASSUME NEW S, NEW s \in Seq(S), NEW x \in S
  PROVE  /\ Append(s, x) \in Seq(S) /\ Len(Append(s, x)) = Len(s) + 1
         /\ \A i \in 1..Len(s) : Append(s, x)[i] = s[i]
         /\ Append(s, x)[Len(s) + 1] = x
         /\ Len(s) \in Nat
OBVIOUS

\* The counters stay natural numbers.
LEMMA IncType ==
  ASSUME count \in [Counters -> Nat], NEW S
  PROVE  Inc(S) \in [Counters -> Nat]
BY DEF Inc

\* What StartContainer makes of a pod is a pod.
LEMMA StartedPodType ==
  ASSUME NEW p \in Pod, NEW S \in SUBSET Cid
  PROVE  [p EXCEPT !.started = p.started + 1, !.cids = S] \in Pod
<1>1. p.started + 1 \in Nat
  BY DEF Pod
<1> QED BY <1>1, Zenon DEF Pod

\* The probe's step keeps the types, and the ring within its size.
LEMMA EmitType ==
  ASSUME TypeOK, NEW uid \in Nat, NEW cid \in Cid,
         NEW path \in [1..Depth -> Kinds \cup {"static"}],
         NEW global \in BOOLEAN, Emit(uid, cid, path, global)
  PROVE  TypeOK'
<1> DEFINE e == [uid |-> uid, global |-> global,
                 names |-> [i \in 1..Depth |-> CgroupName(path[i], uid, cid)]]
<1>1. e \in Event
  BY CgroupNameOfVictim DEF Event
<1>2. ring' \in Seq(Event) /\ Len(ring') <= RingSize
  <2>1. ring' = IF Full THEN ring ELSE Append(ring, e)
    BY DEF Emit
  <2> HIDE DEF e
  <2> QED BY <1>1, <2>1, AppendTo, ConfigAssumption DEF TypeOK, Full
<1> QED BY <1>2 DEF TypeOK, Emit, cluster, agent

\* Every step keeps the types.
LEMMA TypeStep ==
  TypeOK /\ [Next]_vars => TypeOK'
<1> SUFFICES ASSUME TypeOK, [Next]_vars PROVE TypeOK'
  OBVIOUS
<1> USE DEF cluster, agent
<1>1. CASE Read
  <2>1. Head(ring) \in Event /\ Tail(ring) \in Seq(Event) /\ Len(Tail(ring)) <= RingSize
    BY <1>1, HeadTail, ConfigAssumption DEF TypeOK, Read
  <2> QED BY <1>1, <2>1, IncType DEF TypeOK, Read
<1>2. CASE ReadUnparsed
  <2>1. Tail(ring) \in Seq(Event) /\ Len(Tail(ring)) <= RingSize
    BY <1>2, HeadTail, ConfigAssumption DEF TypeOK, ReadUnparsed
  <2> QED BY <1>2, <2>1 DEF TypeOK, ReadUnparsed
<1>3. CASE ReadClosed
  BY <1>3 DEF TypeOK, ReadClosed
<1>4. CASE ListFails
  BY <1>4 DEF TypeOK, ListFails
<1>5. CASE NoPodMatch
  BY <1>5, IncType DEF TypeOK, NoPodMatch, Continue
<1>6. CASE IdentifyOnly
  BY <1>6, IncType DEF TypeOK, IdentifyOnly, Continue
<1>7. CASE Annotate
  <2>1. PICK p \in Identify(ev.names, ListPodsOnANode) :
          wire' = wire \cup
            {[seq |-> count["identified"] + 1, name |-> p.name, uid |-> p.uid]}
    BY <1>7 DEF Annotate, AnnotatePod
  <2>2. p \in Pod
    BY IdentifiedIsListed
  <2>3. wire' \subseteq [seq: Nat, name: PodName, uid: Nat]
    BY <2>1, <2>2 DEF TypeOK, Pod, Counters
  <2> QED BY <1>7, <2>3, IncType DEF TypeOK, Annotate
<1>8. CASE AnnotateOK
  BY <1>8, IncType DEF TypeOK, AnnotateOK, Continue
<1>9. CASE AnnotateFails \/ AnnotateLost
  BY <1>9, IncType, Zenon DEF TypeOK, AnnotateFails, AnnotateLost, PatchError, Continue
<1>10. ASSUME NEW w \in wire, ServePatch(w) PROVE TypeOK'
  <2>1. w.name \in PodName
    BY DEF TypeOK
  <2>2. CASE api[w.name] # Nil
    <3>1. api[w.name] \in Pod /\ api[w.name].uid \in Nat
      BY <2>1, <2>2 DEF TypeOK, Pod
    <3>2. [api EXCEPT ![w.name].ann = "mark"] \in [PodName -> Pod \cup {Nil}]
      BY <2>1, <3>1, Zenon DEF TypeOK, Pod
    <3> QED BY <1>10, <3>1, <3>2, Zenon DEF TypeOK, ServePatch, Answer
  <2>3. CASE api[w.name] = Nil
    BY <1>10, <2>3 DEF TypeOK, ServePatch, Answer
  <2> QED BY <2>2, <2>3
<1>11. ASSUME NEW w \in wire, LosePatch(w) PROVE TypeOK'
  BY <1>11 DEF TypeOK, LosePatch, Answer
<1>12. ASSUME NEW n \in PodName, NEW a \in {"none", "other"}, CreatePod(n, a)
       PROVE  TypeOK'
  <2>1. /\ api' \in [PodName -> Pod \cup {Nil}]
        /\ born' \in Seq(PodName) /\ Len(born') <= MaxPods
    BY <1>12, ConfigAssumption DEF TypeOK, CreatePod, Pod
  <2> QED BY <1>12, <2>1 DEF TypeOK, CreatePod
<1>13. ASSUME NEW n \in PodName,
              OwnerAnnotates(n) \/ StartContainer(n) \/ EndPod(n) \/ DeletePod(n)
       PROVE  TypeOK'
  <2>1. api' \in [PodName -> Pod \cup {Nil}]
    <3>1. api[n] # Nil /\ api[n] \in Pod /\ api \in [PodName -> Pod \cup {Nil}]
      BY <1>13 DEF TypeOK, OwnerAnnotates, StartContainer, EndPod, DeletePod
    <3>2. CASE OwnerAnnotates(n)
      BY <3>1, <3>2 DEF OwnerAnnotates, Pod
    <3>3. CASE StartContainer(n)
      <4> DEFINE S == {<<api[n].uid, api[n].started + 1>>}
                 q == [api[n] EXCEPT !.started = api[n].started + 1, !.cids = S]
      <4>1. S \in SUBSET Cid
        BY <3>1 DEF Pod, Cid
      <4>2. api' = [api EXCEPT ![n] = q]
        BY <3>3, Zenon DEF StartContainer
      <4>3. q \in Pod
        BY <3>1, <4>1, StartedPodType, Zenon
      <4> HIDE DEF q
      <4> QED BY <3>1, <4>2, <4>3
    <3>4. CASE EndPod(n)
      BY <3>1, <3>4, Zenon DEF EndPod, Pod
    <3>5. CASE DeletePod(n)
      BY <3>1, <3>5 DEF DeletePod
    <3> QED BY <1>13, <3>2, <3>3, <3>4, <3>5
  <2> QED BY <1>13, <2>1
    DEF TypeOK, OwnerAnnotates, StartContainer, EndPod, DeletePod
<1>14. CASE Sync
  BY <1>14 DEF TypeOK, Sync
<1>15. ASSUME NEW n \in PodName, NEW p \in Paths, NEW g \in BOOLEAN,
              KillInPod(n, p, g)
       PROVE  TypeOK'
  <2>1. PICK cid \in api[n].cids : Emit(api[n].uid, cid, p, g)
    BY <1>15 DEF KillInPod
  <2>2. api[n].uid \in Nat /\ cid \in Cid
    BY <1>15 DEF KillInPod, TypeOK, Pod
  <2> QED BY <2>1, <2>2, EmitType, PathAssumption
<1>16. ASSUME NEW p \in HostPaths, NEW g \in BOOLEAN, KillOnHost(p, g)
       PROVE  TypeOK'
  BY <1>16, EmitType, PathAssumption DEF KillOnHost, Cid
<1>17. CASE Signal \/ CloseReader
  BY <1>17, Zenon DEF TypeOK, Signal, CloseReader
<1>18. CASE UNCHANGED vars
  BY <1>18 DEF TypeOK, vars
<1> QED BY <1>1, <1>2, <1>3, <1>4, <1>5, <1>6, <1>7, <1>8, <1>9, <1>10, <1>11,
           <1>12, <1>13, <1>14, <1>15, <1>16, <1>17, <1>18
        DEF Next, Agent, APIServer, Cluster, Kernel

(***************************************************************************)
(* Type correctness of the tracer and its surroundings; it includes that   *)
(* the ring buffer never holds more than it has room for.                  *)
(***************************************************************************)
THEOREM TypeCorrect == Spec => []TypeOK
<1>1. Init => TypeOK
  BY ConfigAssumption DEF Init, TypeOK
<1> QED BY <1>1, TypeStep, PTL DEF Spec

-----------------------------------------------------------------------------
(***************************************************************************)
(* What is known of a pod or an event stays true: UIDs keep their names    *)
(* and kills are never forgotten.                                          *)
(***************************************************************************)
Grows == /\ Uids \subseteq Uids'
         /\ \A u \in Uids : born'[u] = born[u]
         /\ kills \subseteq kills'

\* No step of the system forgets a kill or renames a UID.
LEMMA StepGrows ==
  ASSUME TypeOK, [Next]_vars
  PROVE  Grows
<1>1. ASSUME NEW n \in PodName, NEW a \in {"none", "other"}, CreatePod(n, a)
      PROVE  Grows
  BY <1>1, AppendTo DEF TypeOK, CreatePod, Grows, Uids
<1>2. ASSUME NEW uid, NEW cid, NEW path, NEW g, Emit(uid, cid, path, g)
      PROVE  Grows
  BY <1>2 DEF Emit, cluster, Grows, Uids
<1>3. CASE UNCHANGED <<born, kills>>
  BY <1>3 DEF Grows, Uids
<1>4. CASE Agent
  BY <1>4, <1>3 DEF Agent, Read, ReadUnparsed, ReadClosed, ListFails, NoPodMatch,
    IdentifyOnly, Annotate, AnnotateOK, AnnotateFails, AnnotateLost, PatchError,
    cluster
<1>5. CASE APIServer
  BY <1>5, <1>3 DEF APIServer, ServePatch, LosePatch, cluster
<1>6. CASE Cluster
  BY <1>6, <1>1, <1>3, Zenon DEF Cluster, OwnerAnnotates, StartContainer, EndPod,
    DeletePod, Sync
<1>7. CASE Kernel
  BY <1>7, <1>2 DEF Kernel, KillInPod, KillOnHost
<1>8. CASE Signal \/ CloseReader \/ UNCHANGED vars
  BY <1>8, <1>3 DEF Signal, CloseReader, cluster, vars
<1> QED BY <1>4, <1>5, <1>6, <1>7, <1>8 DEF Next

\* So what was truthful or warranted before a step is so after it.
LEMMA StillTrue ==
  ASSUME Grows
  PROVE  /\ \A n, p : PodTruthful(n, p) => PodTruthful(n, p)'
         /\ \A e : EventTruthful(e) => EventTruthful(e)'
         /\ \A u : Warranted(u) => Warranted(u)'
BY DEF Grows, PodTruthful, EventTruthful, Warranted

\* Pods that a step does not write stay truthful.
LEMMA PodsFrame ==
  ASSUME Grows, PodsTruthful, UNCHANGED <<api, cache>>
  PROVE  PodsTruthful'
BY StillTrue DEF PodsTruthful

\* The same for events, as long as the loop does not take a new one ...
LEMMA EventsFrame ==
  ASSUME Grows, EventsTruthful, UNCHANGED <<ring, ev>>, pc' = "list" => pc = "list"
  PROVE  EventsTruthful'
BY StillTrue DEF EventsTruthful, Skipped

\* ... and for patches, as long as none is sent.
LEMMA PatchesFrame ==
  ASSUME Grows, PatchesWarranted, wire' \subseteq wire
  PROVE  PatchesWarranted'
BY StillTrue DEF PatchesWarranted, Grows

\* A pod of which only the phase, the annotation or the containers changed.
LEMMA PodsUpdate ==
  ASSUME TypeOK, Grows, PodsTruthful, NEW n \in PodName, NEW q,
         api' = [api EXCEPT ![n] = q], q # Nil => PodTruthful(n, q)',
         cache' = cache
  PROVE  PodsTruthful'
<1> SUFFICES ASSUME NEW m \in PodName
             PROVE  /\ api'[m] # Nil => PodTruthful(m, api[m])'
                    /\ cache'[m] # Nil => PodTruthful(m, cache[m])'
  BY DEF PodsTruthful
<1>1. cache'[m] # Nil => PodTruthful(m, cache[m])'
  BY StillTrue DEF PodsTruthful
<1>2. CASE m = n
  BY <1>1, <1>2 DEF TypeOK
<1>3. CASE m # n
  BY <1>1, <1>3, StillTrue DEF TypeOK, PodsTruthful
<1> QED BY <1>2, <1>3

\* The event the probe submits for a victim names nobody else.
LEMMA EmitProvenance ==
  ASSUME TypeOK, Grows, Provenance, NEW uid \in Nat, NEW cid \in Cid, cid[1] = uid,
         NEW path \in [1..Depth -> Kinds \cup {"static"}],
         NEW global \in BOOLEAN, Emit(uid, cid, path, global)
  PROVE  Provenance'
<1> DEFINE e == [uid |-> uid, global |-> global,
                 names |-> [i \in 1..Depth |-> CgroupName(path[i], uid, cid)]]
<1> USE DEF Emit, cluster, agent
<1>1. e \in Event
  BY CgroupNameOfVictim DEF Event
<1>2. EventTruthful(e)'
  <2>1. [uid |-> uid, global |-> global] \in kills'
    OBVIOUS
  <2>2. \A i \in 1..Depth : /\ CgroupName(path[i], uid, cid).uid \in {0, uid}
                            /\ CgroupName(path[i], uid, cid).cid[1] \in {0, uid}
    BY CgroupNameOfVictim
  <2> QED BY <2>1, <2>2 DEF EventTruthful
<1>3. ring' = IF Full THEN ring ELSE Append(ring, e)
  OBVIOUS
<1> HIDE DEF e
<1>4. \A i \in 1..Len(ring') : EventTruthful(ring[i])'
  <2>1. \A i \in 1..Len(ring) : EventTruthful(ring[i])'
    BY StillTrue DEF Provenance, EventsTruthful
  <2> QED BY <1>1, <1>2, <1>3, <2>1, AppendTo DEF TypeOK
<1>5. pc' = "list" => (EventTruthful(ev) /\ ~Skipped(ev))'
  BY StillTrue DEF Provenance, EventsTruthful
<1>6. EventsTruthful'
  BY <1>4, <1>5 DEF EventsTruthful, Skipped
<1> QED BY <1>6, PodsFrame, PatchesFrame DEF Provenance

(***************************************************************************)
(* A Patch is only ever sent for the pod that lost the process: the pod    *)
(* identified from a truthful event is its victim, listed as it was born.  *)
(***************************************************************************)
LEMMA IdentifiedIsVictim ==
  ASSUME TypeOK, Provenance, pc = "list",
         NEW p \in Identify(ev.names, ListPodsOnANode)
  PROVE  /\ p \in Pod /\ p.uid \in Uids /\ born[p.uid] = p.name
         /\ annotate => Warranted(p.uid)
<1>1. PICK n \in PodName : p = cache[n] /\ cache[n] # Nil /\ p \in Pod
  BY IdentifiedIsListed
<1>2. PodTruthful(n, p) /\ p.uid \in Nat \ {0}
  BY <1>1 DEF Provenance, PodsTruthful, PodTruthful, Uids, TypeOK
<1>3. EventTruthful(ev) /\ ~Skipped(ev) /\ ev \in Event
  BY DEF Provenance, EventsTruthful, TypeOK
<1>4. p.uid = ev.uid
  <2>1. /\ ev.names \in [1..Depth -> [kind: Kinds, uid: Nat, cid: Cid]]
        /\ ev.uid \in Nat
    BY <1>3 DEF Event
  <2>2. \A i \in 1..Depth : /\ ev.names[i].uid \in {0, ev.uid}
                            /\ ev.names[i].cid[1] \in {0, ev.uid}
    BY <1>3 DEF EventTruthful
  <2>3. p.uid \in Nat \ {0} /\ \A c \in p.cids : c[1] = p.uid
    BY <1>2 DEF PodTruthful
  <2> QED BY <2>1, <2>2, <2>3, IdentifyIsVictim
<1>5. annotate => Warranted(p.uid)
  BY <1>3, <1>4 DEF Warranted, EventTruthful, Skipped
<1> QED BY <1>1, <1>2, <1>5 DEF PodTruthful

\* Every step keeps pods, events and patches what they say they are.
LEMMA ProvenanceStep ==
  TypeOK /\ Provenance /\ [Next]_vars => Provenance'
<1> SUFFICES ASSUME TypeOK, Provenance, [Next]_vars PROVE Provenance'
  OBVIOUS
<1> USE DEF cluster, agent
<1>0. Grows /\ PodsTruthful /\ EventsTruthful /\ PatchesWarranted
  BY StepGrows DEF Provenance
<1>1. CASE Read
  <2>1. ring \in Seq(Event) /\ ring # <<>> /\ ring' = Tail(ring)
    BY <1>1 DEF TypeOK, Read
  <2>2. \A i \in 1..Len(ring') : EventTruthful(ring[i])'
    BY <1>0, <2>1, StillTrue, HeadTail DEF EventsTruthful
  <2>3. 1 \in 1..Len(ring) /\ Head(ring) = ring[1]
    BY <2>1, HeadTail
  <2>4. pc' = "list" => (EventTruthful(ev) /\ ~Skipped(ev))'
    <3> SUFFICES ASSUME pc' = "list" PROVE (EventTruthful(ev) /\ ~Skipped(ev))'
      OBVIOUS
    <3>1. ev' = Head(ring) /\ ~Skipped(Head(ring))
      BY <1>1 DEF Read
    <3>2. EventTruthful(ring[1])
      BY <1>0, <2>3 DEF EventsTruthful
    <3> QED BY <1>0, <2>3, <3>1, <3>2, StillTrue DEF Skipped
  <2>5. EventsTruthful'
    BY <2>2, <2>4 DEF EventsTruthful
  <2> QED BY <1>0, <1>1, <2>5, PodsFrame, PatchesFrame DEF Read, Provenance
<1>2. CASE ReadUnparsed
  <2>1. ring \in Seq(Event) /\ ring # <<>> /\ ring' = Tail(ring)
    BY <1>2 DEF TypeOK, ReadUnparsed
  <2>2. \A i \in 1..Len(ring') : EventTruthful(ring[i])'
    BY <1>0, <2>1, StillTrue, HeadTail DEF EventsTruthful
  <2>3. EventsTruthful'
    BY <1>2, <2>2 DEF ReadUnparsed, EventsTruthful
  <2> QED BY <1>0, <1>2, <2>3, PodsFrame, PatchesFrame DEF ReadUnparsed, Provenance
<1>3. CASE ReadClosed \/ ListFails \/ NoPodMatch \/ IdentifyOnly \/ AnnotateOK
           \/ AnnotateFails \/ AnnotateLost
  <2>1. EventsTruthful'
    BY <1>0, <1>3, StillTrue DEF EventsTruthful, ReadClosed, ListFails, NoPodMatch,
      IdentifyOnly, AnnotateOK, AnnotateFails, AnnotateLost, PatchError, Continue
  <2> QED BY <1>0, <1>3, <2>1, PodsFrame, PatchesFrame DEF Provenance, ReadClosed,
    ListFails, NoPodMatch, IdentifyOnly, AnnotateOK, AnnotateFails, AnnotateLost,
    PatchError
<1>4. CASE Annotate
  <2>1. PICK p \in Identify(ev.names, ListPodsOnANode) :
          /\ annotate
          /\ wire' = wire \cup
               {[seq |-> count["identified"] + 1, name |-> p.name, uid |-> p.uid]}
    BY <1>4 DEF Annotate, AnnotatePod, Patchable
  <2>2. p.uid \in Uids /\ born[p.uid] = p.name /\ Warranted(p.uid)
    BY <1>4, <2>1, IdentifiedIsVictim DEF Annotate
  <2>3. PatchesWarranted'
    <3> SUFFICES ASSUME NEW w \in wire'
                 PROVE  w.uid \in Uids' /\ born'[w.uid] = w.name /\ Warranted(w.uid)'
      BY DEF PatchesWarranted
    <3>1. w.uid \in Uids /\ born[w.uid] = w.name /\ Warranted(w.uid)
      BY <1>0, <2>1, <2>2 DEF PatchesWarranted
    <3>2. Warranted(w.uid)'
      BY <1>0, <3>1, StillTrue
    <3> QED BY <1>0, <3>1, <3>2 DEF Grows
  <2>4. EventsTruthful'
    BY <1>0, <1>4, StillTrue DEF EventsTruthful, Annotate
  <2> QED BY <1>0, <1>4, <2>3, <2>4, PodsFrame DEF Annotate, Provenance
<1>5. ASSUME NEW w \in wire, ServePatch(w) PROVE Provenance'
  <2>1. PodsTruthful'
    <3>1. CASE api' = api
      BY <1>0, <1>5, <3>1, PodsFrame DEF ServePatch
    <3>2. CASE api[w.name] # Nil /\ api' = [api EXCEPT ![w.name].ann = "mark"]
      <4> DEFINE q == [api[w.name] EXCEPT !.ann = "mark"]
      <4>1. w.name \in PodName /\ api[w.name] \in Pod
        BY <3>2 DEF TypeOK
      <4>2. PodTruthful(w.name, api[w.name])
        BY <1>0, <3>2, <4>1 DEF PodsTruthful
      <4>3. PodTruthful(w.name, q)
        BY <4>1, <4>2 DEF Pod, PodTruthful
      <4>4. api' = [api EXCEPT ![w.name] = q]
        BY <3>2, Zenon
      <4> HIDE DEF q
      <4> QED BY <1>0, <1>5, <4>1, <4>3, <4>4, StillTrue, PodsUpdate, Zenon DEF ServePatch
    <3> QED BY <1>5, <3>1, <3>2 DEF ServePatch
  <2> QED BY <1>0, <1>5, <2>1, EventsFrame, PatchesFrame DEF ServePatch, Provenance
<1>6. ASSUME NEW w \in wire, LosePatch(w) PROVE Provenance'
  BY <1>0, <1>6, PodsFrame, EventsFrame, PatchesFrame DEF LosePatch, Provenance
<1>7. ASSUME NEW n \in PodName, NEW a \in {"none", "other"}, CreatePod(n, a)
      PROVE  Provenance'
  <2>1. Len(born) + 1 \in Uids' /\ born'[Len(born) + 1] = n
    <3>1. born \in Seq(PodName) /\ born' = Append(born, n)
      BY <1>7 DEF CreatePod, TypeOK
    <3> QED BY <3>1, AppendTo DEF Uids
  <2>2. PICK q : q = [name |-> n, uid |-> Len(born) + 1, cids |-> {},
                      started |-> 0, active |-> TRUE, ann |-> a]
    BY Zenon
  <2>3. PodTruthful(n, q)'
    BY <2>1, <2>2 DEF PodTruthful
  <2>4. PodsTruthful'
    <3>1. api' = [api EXCEPT ![n] = q] /\ cache' = cache
      BY <1>7, <2>2 DEF CreatePod
    <3> QED BY <1>0, <2>3, <3>1, PodsUpdate, Zenon
  <2> QED BY <1>0, <1>7, <2>4, EventsFrame, PatchesFrame DEF CreatePod, Provenance
<1>8. ASSUME NEW n \in PodName,
             OwnerAnnotates(n) \/ StartContainer(n) \/ EndPod(n) \/ DeletePod(n)
      PROVE  Provenance'
  <2>1. PICK q : api' = [api EXCEPT ![n] = q] /\ (q # Nil => PodTruthful(n, q))
    <3>1. api[n] # Nil /\ api[n] \in Pod /\ PodTruthful(n, api[n])
      BY <1>0, <1>8 DEF TypeOK, PodsTruthful, OwnerAnnotates, StartContainer,
        EndPod, DeletePod
    <3>2. CASE OwnerAnnotates(n)
      <4> DEFINE r == [api[n] EXCEPT !.ann = "other"]
      <4>1. PodTruthful(n, r)
        BY <3>1 DEF Pod, PodTruthful
      <4>2. api' = [api EXCEPT ![n] = r]
        BY <3>2, Zenon DEF OwnerAnnotates
      <4> QED BY <4>1, <4>2, Zenon
    <3>3. CASE StartContainer(n)
      <4> DEFINE r == [api[n] EXCEPT !.started = api[n].started + 1,
                         !.cids = {<<api[n].uid, api[n].started + 1>>}]
      <4>1. PodTruthful(n, r)
        BY <3>1 DEF Pod, PodTruthful
      <4>2. api' = [api EXCEPT ![n] = r]
        BY <3>3, Zenon DEF StartContainer
      <4> QED BY <4>1, <4>2, Zenon
    <3>4. CASE EndPod(n)
      <4> DEFINE r == [api[n] EXCEPT !.active = FALSE]
      <4>1. PodTruthful(n, r)
        BY <3>1 DEF Pod, PodTruthful
      <4>2. api' = [api EXCEPT ![n] = r]
        BY <3>4, Zenon DEF EndPod
      <4> QED BY <4>1, <4>2, Zenon
    <3>5. CASE DeletePod(n)
      BY <3>5, Zenon DEF DeletePod
    <3> QED BY <1>8, <3>2, <3>3, <3>4, <3>5
  <2>2. PodsTruthful'
    <3>1. cache' = cache
      BY <1>8 DEF OwnerAnnotates, StartContainer, EndPod, DeletePod
    <3> QED BY <1>0, <2>1, <3>1, StillTrue, PodsUpdate, Zenon
  <2> QED BY <1>0, <1>8, <2>2, EventsFrame, PatchesFrame
    DEF OwnerAnnotates, StartContainer, EndPod, DeletePod, Provenance
<1>9. CASE Sync
  <2>1. PodsTruthful'
    BY <1>0, <1>9, StillTrue DEF Sync, PodsTruthful
  <2> QED BY <1>0, <1>9, <2>1, EventsFrame, PatchesFrame DEF Sync, Provenance
<1>10. ASSUME NEW n \in PodName, NEW p \in Paths, NEW g \in BOOLEAN,
              KillInPod(n, p, g)
       PROVE  Provenance'
  <2>1. PICK cid \in api[n].cids : Emit(api[n].uid, cid, p, g)
    BY <1>10 DEF KillInPod
  <2>2. api[n] # Nil /\ api[n] \in Pod /\ p \in [1..Depth -> Kinds \cup {"static"}]
    BY <1>0, <1>10, PathAssumption DEF KillInPod, TypeOK
  <2>3. api[n].uid \in Nat /\ cid \in Cid
    BY <2>1, <2>2 DEF Pod
  <2>4. cid[1] = api[n].uid
    BY <1>0, <2>1, <2>2 DEF PodsTruthful, PodTruthful
  <2> QED BY <1>0, <2>1, <2>2, <2>3, <2>4, EmitProvenance
<1>11. ASSUME NEW p \in HostPaths, NEW g \in BOOLEAN, KillOnHost(p, g)
       PROVE  Provenance'
  <2>1. <<0, 0>> \in Cid /\ <<0, 0>>[1] = 0
    BY DEF Cid
  <2> QED BY <1>0, <1>11, <2>1, EmitProvenance, PathAssumption DEF KillOnHost
<1>12. CASE Signal \/ CloseReader \/ UNCHANGED vars
  BY <1>0, <1>12, PodsFrame, EventsFrame, PatchesFrame
    DEF Signal, CloseReader, vars, Provenance
<1> QED BY <1>1, <1>2, <1>3, <1>4, <1>5, <1>6, <1>7, <1>8, <1>9, <1>10, <1>11, <1>12
        DEF Next, Agent, APIServer, Cluster, Kernel

(***************************************************************************)
(* Provenance holds in every reachable state: pods, events and patches are *)
(* what they say they are, however the cache lags and whatever is lost.    *)
(***************************************************************************)
THEOREM ProvenanceHolds == Spec => []Provenance
<1>1. Init => Provenance
  BY DEF Init, Provenance, PodsTruthful, EventsTruthful, PatchesWarranted
<1> QED BY <1>1, ProvenanceStep, TypeCorrect, PTL DEF Spec

\* A Patch that is served marks a pod with the name of one that warrants it.
LEMMA MarksNameStep ==
  TypeOK /\ Provenance /\ MarkedNameOfVictim /\ [Next]_vars => MarkedNameOfVictim'
<1> SUFFICES ASSUME TypeOK, Provenance, MarkedNameOfVictim, [Next]_vars
             PROVE  MarkedNameOfVictim'
  OBVIOUS
<1>1. Grows
  BY StepGrows
<1>2. CASE applied' = applied
  BY <1>1, <1>2, StillTrue DEF MarkedNameOfVictim, Grows
<1>3. ASSUME NEW w \in wire, ServePatch(w) PROVE MarkedNameOfVictim'
  <2>1. CASE api[w.name] # Nil /\ applied' = applied \cup {api[w.name].uid}
    <3>1. api[w.name].uid \in Uids /\ born[api[w.name].uid] = w.name
      BY <2>1 DEF TypeOK, Provenance, PodsTruthful, PodTruthful
    <3>2. w.uid \in Uids /\ born[w.uid] = w.name /\ Warranted(w.uid)
      BY DEF Provenance, PatchesWarranted
    <3>3. \A u \in applied' : u \in applied \/ u = api[w.name].uid
      BY <2>1
    <3>4. /\ Uids \subseteq Uids' /\ \A u \in Uids : born'[u] = born[u]
          /\ \A u \in Uids : Warranted(u) => Warranted(u)'
      BY <1>1, StillTrue DEF Grows
    <3> QED BY <3>1, <3>2, <3>3, <3>4 DEF MarkedNameOfVictim
  <2> QED BY <1>2, <1>3, <2>1 DEF ServePatch
<1> QED BY <1>2, <1>3, Zenon DEF Next, Agent, APIServer, Cluster, Kernel, vars, Read,
  ReadUnparsed, ReadClosed, ListFails, NoPodMatch, IdentifyOnly, Annotate,
  AnnotateOK, AnnotateFails, AnnotateLost, PatchError, LosePatch, CreatePod,
  OwnerAnnotates, StartContainer, EndPod, DeletePod, Sync, KillInPod, KillOnHost,
  Emit, Signal, CloseReader

(***************************************************************************)
(* A pod changed by a Patch of the tracer has the name of a pod that lost  *)
(* a process to an OOM kill the flags select, names reused or not.         *)
(***************************************************************************)
THEOREM MarksName == Spec => []MarkedNameOfVictim
<1>1. Init => MarkedNameOfVictim
  BY DEF Init, MarkedNameOfVictim
<1> QED BY <1>1, MarksNameStep, TypeCorrect, ProvenanceHolds, PTL DEF Spec

(***************************************************************************)
(* Where names are not reused, a name is a pod: no UID shares another's.   *)
(***************************************************************************)
NamesUnique ==
  ~NamesReused => \A u \in Uids, v \in Uids : born[u] = born[v] => u = v

\* CreatePod keeps names unique if it may not reuse one.
LEMMA NamesUniqueStep == TypeOK /\ NamesUnique /\ [Next]_vars => NamesUnique'
<1> SUFFICES ASSUME TypeOK, NamesUnique, [Next]_vars PROVE NamesUnique'
  OBVIOUS
<1>1. CASE born' = born
  BY <1>1 DEF NamesUnique, Uids
<1>2. ASSUME NEW n \in PodName, NEW a \in {"none", "other"}, CreatePod(n, a)
      PROVE  NamesUnique'
  <2>1. /\ born \in Seq(PodName) /\ born' = Append(born, n)
        /\ NamesReused \/ \A u \in Uids : born[u] # n
    BY <1>2 DEF CreatePod, TypeOK
  <2>2. /\ Len(born) \in Nat /\ Len(born') = Len(born) + 1 /\ born'[Len(born) + 1] = n
        /\ \A u \in 1..Len(born) : born'[u] = born[u]
    BY <2>1, AppendTo
  <2>3. \A u \in 1..(Len(born) + 1) : u \in 1..Len(born) \/ u = Len(born) + 1
    BY <2>2
  <2>4. CASE NamesReused
    BY <2>4 DEF NamesUnique
  <2>5. CASE ~NamesReused
    <3>1. \A u \in 1..Len(born) : born'[u] # n
      BY <2>1, <2>2, <2>5 DEF Uids
    <3>2. \A u, v \in 1..Len(born) : born'[u] = born'[v] => u = v
      BY <2>2, <2>5 DEF NamesUnique, Uids
    <3> QED BY <2>2, <2>3, <3>1, <3>2, Zenon DEF NamesUnique, Uids
  <2> QED BY <2>4, <2>5
<1> QED BY <1>1, <1>2, Zenon DEF Next, Agent, APIServer, Cluster, Kernel, vars, cluster,
  Read, ReadUnparsed, ReadClosed, ListFails, NoPodMatch, IdentifyOnly, Annotate,
  AnnotateOK, AnnotateFails, AnnotateLost, PatchError, ServePatch, LosePatch,
  OwnerAnnotates, StartContainer, EndPod, DeletePod, Sync, KillInPod, KillOnHost,
  Emit, Signal, CloseReader

\* And so they stay unique.
LEMMA NamesStayUnique == Spec => []NamesUnique
<1>1. Init => NamesUnique
  BY DEF Init, NamesUnique, Uids
<1> QED BY <1>1, NamesUniqueStep, TypeCorrect, PTL DEF Spec

\* The name of a victim is then the victim.
LEMMA NamesIdentify ==
  ASSUME ~NamesReused, NamesUnique, MarkedNameOfVictim
  PROVE  MarkedOnlyVictims
BY DEF NamesUnique, MarkedNameOfVictim, MarkedOnlyVictims

(***************************************************************************)
(* Where names are not reused, every pod changed by a Patch of the tracer  *)
(* was itself the victim of an OOM kill the flags select: whatever the lag *)
(* of the cache, lost answers or events, and late patches.                 *)
(***************************************************************************)
THEOREM MarksVictims == ~NamesReused => (Spec => []MarkedOnlyVictims)
<1> SUFFICES ASSUME ~NamesReused PROVE Spec => []MarkedOnlyVictims
  OBVIOUS
<1>1. NamesUnique /\ MarkedNameOfVictim => MarkedOnlyVictims
  BY NamesIdentify
<1> QED BY <1>1, NamesStayUnique, MarksName, PTL

-----------------------------------------------------------------------------
\* An event in hand is at the front of what is pending.
LEMMA InFront ==
  ASSUME NEW S, NEW s \in Seq(S), NEW x \in S
  PROVE  /\ <<x>> \o s \in Seq(S) /\ Len(<<x>> \o s) = Len(s) + 1
         /\ <<x>> \o s # <<>> /\ Tail(<<x>> \o s) = s
         /\ \A y \in S : <<x>> \o Append(s, y) = Append(<<x>> \o s, y)
OBVIOUS

\* Taking an event from the ring changes nothing in what is pending.
LEMMA TakenStaysInFront ==
  ASSUME NEW S, NEW s \in Seq(S), s # <<>>
  PROVE  <<Head(s)>> \o Tail(s) = s
OBVIOUS

\* What is pending is a sequence, not longer than the ring by more than one.
LEMMA PendingType ==
  ASSUME TypeOK
  PROVE  /\ ring \in Seq(Event \cup {Nil}) /\ ev \in Event \cup {Nil}
         /\ Pending \in Seq(Event \cup {Nil})
         /\ Len(Pending) <= Len(ring) + 1
<1>1. ring \in Seq(Event \cup {Nil}) /\ ev \in Event \cup {Nil}
  BY DEF TypeOK
<1>2. Len(ring) \in Nat
  BY <1>1
<1>3. CASE pc \in {"list", "fatal"}
  <2>1. Pending = <<ev>> \o ring
    BY <1>3, Zenon DEF Pending
  <2>2. /\ <<ev>> \o ring \in Seq(Event \cup {Nil})
        /\ Len(<<ev>> \o ring) = Len(ring) + 1
    BY <1>1, InFront, Zenon
  <2>3. Len(Pending) <= Len(ring) + 1
    <3> DEFINE n == Len(Pending)
    <3>1. n = Len(ring) + 1
      BY <2>1, <2>2, Zenon
    <3> HIDE DEF n
    <3>2. n <= Len(ring) + 1
      BY <1>2, <3>1
    <3> QED BY <3>2 DEF n
  <2> QED BY <1>1, <2>1, <2>2, <2>3, Zenon
<1>4. CASE pc \notin {"list", "fatal"}
  <2>1. Pending = ring
    BY <1>4, Zenon DEF Pending
  <2> QED BY <1>1, <1>2, <2>1
<1> QED BY <1>3, <1>4, Zenon

\* The probe's step puts an event into the abstract queue, or loses it.
LEMMA EmitPuts ==
  ASSUME TypeOK, NEW uid \in Nat, NEW cid \in Cid,
         NEW path \in [1..Depth -> Kinds \cup {"static"}],
         NEW global \in BOOLEAN, Emit(uid, cid, path, global)
  PROVE  Queue!Put \/ Pending' = Pending
<1> DEFINE x == [uid |-> uid, global |-> global,
                 names |-> [k \in 1..Depth |-> CgroupName(path[k], uid, cid)]]
<1>1. x \in Event
  BY CgroupNameOfVictim DEF Event
<1>2. /\ ring' = IF Full THEN ring ELSE Append(ring, x)
      /\ pc' = pc /\ ev' = ev
  BY DEF Emit, agent
<1> HIDE DEF x
<1>3. CASE Full
  BY <1>2, <1>3 DEF Pending
<1>4. CASE ~Full
  <2>1. ring' = Append(ring, x) /\ Len(ring) < RingSize
    BY <1>2, <1>4, ConfigAssumption DEF Full, TypeOK
  <2>2. Pending' = Append(Pending, x)
    BY <1>1, <1>2, <2>1, PendingType, InFront DEF Pending
  <2>3. Len(Pending) < RingSize + 1
    BY <2>1, PendingType, ConfigAssumption DEF TypeOK
  <2>4. Len(Pending') = Len(Pending) + 1 /\ Pending'[Len(Pending) + 1] = x
    BY <1>1, <2>2, PendingType, AppendTo
  <2> QED BY <1>1, <2>2, <2>3, <2>4, Zenon DEF Queue!Put
<1> QED BY <1>3, <1>4

\* The loop takes the event at the front, and is done with it later.
LEMMA LoopGets ==
  ASSUME TypeOK, Agent
  PROVE  Queue!Get \/ Pending' = Pending
<1>1. CASE Read
  <2>1. /\ pc = "read" /\ ring # <<>> /\ ring' = Tail(ring)
        /\ pc' = "read" \/ (pc' = "list" /\ ev' = Head(ring))
    BY <1>1 DEF Read
  <2>2. Pending = ring
    BY <2>1 DEF Pending
  <2>3. CASE pc' = "read"
    BY <2>1, <2>2, <2>3 DEF Pending, Queue!Get
  <2>4. CASE pc' = "list" /\ ev' = Head(ring)
    BY <2>1, <2>2, <2>4, PendingType, TakenStaysInFront DEF Pending
  <2> QED BY <2>1, <2>3, <2>4
<1>2. CASE ReadUnparsed
  BY <1>2 DEF ReadUnparsed, agent, Pending, Queue!Get
<1>3. CASE NoPodMatch \/ IdentifyOnly \/ Annotate
  <2>1. pc = "list" /\ ring' = ring /\ pc' \in {"read", "patch"}
    BY <1>3 DEF NoPodMatch, IdentifyOnly, Annotate, Continue
  <2>2. Pending = <<ev>> \o ring /\ Pending' = ring
    BY <2>1 DEF Pending
  <2> QED BY <2>2, PendingType, InFront DEF Queue!Get
<1>4. CASE ListFails
  BY <1>4 DEF ListFails, Pending
<1>5. CASE ReadClosed \/ AnnotateOK \/ AnnotateFails \/ AnnotateLost
  <2>1. ring' = ring /\ pc \in {"read", "patch"} /\ pc' \in {"read", "returned"}
    BY <1>5 DEF ReadClosed, AnnotateOK, AnnotateFails, AnnotateLost, PatchError, Continue
  <2> QED BY <2>1 DEF Pending
<1> QED BY <1>1, <1>2, <1>3, <1>4, <1>5 DEF Agent

(***************************************************************************)
(* The events in the ring and the one in hand implement the bounded lossy  *)
(* queue: only the probe's step adds to it, at the back, and only the loop *)
(* takes from it, the event at the front, once it is done with that event. *)
(***************************************************************************)
THEOREM HandlesInOrder == Spec => HandledInOrder
<1>1. Init => Queue!Init
  BY DEF Init, Pending, Queue!Init
<1>2. TypeOK /\ [Next]_vars => [Queue!Put \/ Queue!Get]_Pending
  <2> SUFFICES ASSUME TypeOK, [Next]_vars
               PROVE  Queue!Put \/ Queue!Get \/ Pending' = Pending
    OBVIOUS
  <2>1. CASE Agent
    BY <2>1, LoopGets
  <2>2. CASE Kernel
    <3>1. ASSUME NEW n \in PodName, NEW p \in Paths, NEW g \in BOOLEAN,
                 KillInPod(n, p, g)
          PROVE  Queue!Put \/ Pending' = Pending
      <4>1. PICK cid \in api[n].cids : Emit(api[n].uid, cid, p, g)
        BY <3>1 DEF KillInPod
      <4>2. api[n].uid \in Nat /\ cid \in Cid
        BY <3>1 DEF KillInPod, TypeOK, Pod
      <4> QED BY <4>1, <4>2, EmitPuts, PathAssumption
    <3>2. ASSUME NEW p \in HostPaths, NEW g \in BOOLEAN, KillOnHost(p, g)
          PROVE  Queue!Put \/ Pending' = Pending
      BY <3>2, EmitPuts, PathAssumption DEF KillOnHost, Cid
    <3> QED BY <2>2, <3>1, <3>2 DEF Kernel
  <2>3. CASE APIServer \/ Cluster \/ Signal \/ CloseReader \/ UNCHANGED vars
    <3>1. ring' = ring /\ pc' = pc /\ ev' = ev
      BY <2>3, Zenon DEF APIServer, Cluster, vars, agent, ServePatch, LosePatch, CreatePod,
        OwnerAnnotates, StartContainer, EndPod, DeletePod, Sync, Signal, CloseReader
    <3> QED BY <3>1 DEF Pending
  <2> QED BY <2>1, <2>2, <2>3 DEF Next
<1> QED BY <1>1, <1>2, TypeCorrect, PTL DEF Spec, HandledInOrder, Queue!Spec

-----------------------------------------------------------------------------
\* What a step adds to the counters, in the order of Counters.
Adds(o, g, n, i, f, a, x) ==
  /\ count'["observed"] = count["observed"] + o
  /\ count'["non_or_ignored_global_oom"] = count["non_or_ignored_global_oom"] + g
  /\ count'["no_pod_match"] = count["no_pod_match"] + n
  /\ count'["identified"] = count["identified"] + i
  /\ count'["annotation_failed"] = count["annotation_failed"] + f
  /\ count'["annotation_applied"] = count["annotation_applied"] + a
  /\ count'["annotation_exists"] = count["annotation_exists"] + x

\* The counters are numbers.
LEMMA CountersType == ASSUME TypeOK PROVE \A c \in Counters : count[c] \in Nat
BY DEF TypeOK

\* Inc counts each of the counters it is given, and no other.
LEMMA IncIs ==
  ASSUME TypeOK, NEW S, count' = Inc(S)
  PROVE  \A c \in Counters : /\ c \in S => count'[c] = count[c] + 1
                             /\ c \notin S => count'[c] = count[c] + 0
BY CountersType DEF Inc

\* The sets of counters the loop increments.
LEMMA IncCounts ==
  ASSUME TypeOK
  PROVE  /\ count' = Inc({"observed"}) => Adds(1, 0, 0, 0, 0, 0, 0)
         /\ count' = Inc({"observed", "non_or_ignored_global_oom"})
              => Adds(1, 1, 0, 0, 0, 0, 0)
         /\ count' = Inc({"no_pod_match"}) => Adds(0, 0, 1, 0, 0, 0, 0)
         /\ count' = Inc({"identified"}) => Adds(0, 0, 0, 1, 0, 0, 0)
         /\ count' = Inc({"identified", "annotation_exists"})
              => Adds(0, 0, 0, 1, 0, 0, 1)
         /\ count' = Inc({"annotation_failed"}) => Adds(0, 0, 0, 0, 1, 0, 0)
         /\ count' = Inc({"annotation_applied"}) => Adds(0, 0, 0, 0, 0, 1, 0)
<1>0. /\ "observed" \in Counters /\ "non_or_ignored_global_oom" \in Counters
      /\ "no_pod_match" \in Counters /\ "identified" \in Counters
      /\ "annotation_failed" \in Counters /\ "annotation_applied" \in Counters
      /\ "annotation_exists" \in Counters
  BY DEF Counters
<1>1. ASSUME count' = Inc({"observed"}) PROVE Adds(1, 0, 0, 0, 0, 0, 0)
  <2> DEFINE S == {"observed"}
  <2>1. /\ "observed" \in S
        /\ "non_or_ignored_global_oom" \notin S /\ "no_pod_match" \notin S /\ "identified" \notin S
        /\ "annotation_failed" \notin S /\ "annotation_applied" \notin S /\ "annotation_exists" \notin S
    OBVIOUS
  <2>2. count' = Inc(S)
    BY <1>1
  <2> HIDE DEF S
  <2>3. \A c \in Counters : /\ c \in S => count'[c] = count[c] + 1
                            /\ c \notin S => count'[c] = count[c] + 0
    BY <2>2, IncIs
  <2> QED BY <1>0, <2>1, <2>3, Zenon DEF Adds
<1>2. ASSUME count' = Inc({"observed", "non_or_ignored_global_oom"})
      PROVE  Adds(1, 1, 0, 0, 0, 0, 0)
  <2> DEFINE S == {"observed", "non_or_ignored_global_oom"}
  <2>1. /\ "observed" \in S /\ "non_or_ignored_global_oom" \in S
        /\ "no_pod_match" \notin S /\ "identified" \notin S /\ "annotation_failed" \notin S
        /\ "annotation_applied" \notin S /\ "annotation_exists" \notin S
    OBVIOUS
  <2>2. count' = Inc(S)
    BY <1>2
  <2> HIDE DEF S
  <2>3. \A c \in Counters : /\ c \in S => count'[c] = count[c] + 1
                            /\ c \notin S => count'[c] = count[c] + 0
    BY <2>2, IncIs
  <2> QED BY <1>0, <2>1, <2>3, Zenon DEF Adds
<1>3. ASSUME count' = Inc({"no_pod_match"}) PROVE Adds(0, 0, 1, 0, 0, 0, 0)
  <2> DEFINE S == {"no_pod_match"}
  <2>1. /\ "no_pod_match" \in S
        /\ "observed" \notin S /\ "non_or_ignored_global_oom" \notin S /\ "identified" \notin S
        /\ "annotation_failed" \notin S /\ "annotation_applied" \notin S /\ "annotation_exists" \notin S
    OBVIOUS
  <2>2. count' = Inc(S)
    BY <1>3
  <2> HIDE DEF S
  <2>3. \A c \in Counters : /\ c \in S => count'[c] = count[c] + 1
                            /\ c \notin S => count'[c] = count[c] + 0
    BY <2>2, IncIs
  <2> QED BY <1>0, <2>1, <2>3, Zenon DEF Adds
<1>4. ASSUME count' = Inc({"identified"}) PROVE Adds(0, 0, 0, 1, 0, 0, 0)
  <2> DEFINE S == {"identified"}
  <2>1. /\ "identified" \in S
        /\ "observed" \notin S /\ "non_or_ignored_global_oom" \notin S /\ "no_pod_match" \notin S
        /\ "annotation_failed" \notin S /\ "annotation_applied" \notin S /\ "annotation_exists" \notin S
    OBVIOUS
  <2>2. count' = Inc(S)
    BY <1>4
  <2> HIDE DEF S
  <2>3. \A c \in Counters : /\ c \in S => count'[c] = count[c] + 1
                            /\ c \notin S => count'[c] = count[c] + 0
    BY <2>2, IncIs
  <2> QED BY <1>0, <2>1, <2>3, Zenon DEF Adds
<1>5. ASSUME count' = Inc({"identified", "annotation_exists"})
      PROVE  Adds(0, 0, 0, 1, 0, 0, 1)
  <2> DEFINE S == {"identified", "annotation_exists"}
  <2>1. /\ "identified" \in S /\ "annotation_exists" \in S
        /\ "observed" \notin S /\ "non_or_ignored_global_oom" \notin S /\ "no_pod_match" \notin S
        /\ "annotation_failed" \notin S /\ "annotation_applied" \notin S
    OBVIOUS
  <2>2. count' = Inc(S)
    BY <1>5
  <2> HIDE DEF S
  <2>3. \A c \in Counters : /\ c \in S => count'[c] = count[c] + 1
                            /\ c \notin S => count'[c] = count[c] + 0
    BY <2>2, IncIs
  <2> QED BY <1>0, <2>1, <2>3, Zenon DEF Adds
<1>6. ASSUME count' = Inc({"annotation_failed"}) PROVE Adds(0, 0, 0, 0, 1, 0, 0)
  <2> DEFINE S == {"annotation_failed"}
  <2>1. /\ "annotation_failed" \in S
        /\ "observed" \notin S /\ "non_or_ignored_global_oom" \notin S /\ "no_pod_match" \notin S
        /\ "identified" \notin S /\ "annotation_applied" \notin S /\ "annotation_exists" \notin S
    OBVIOUS
  <2>2. count' = Inc(S)
    BY <1>6
  <2> HIDE DEF S
  <2>3. \A c \in Counters : /\ c \in S => count'[c] = count[c] + 1
                            /\ c \notin S => count'[c] = count[c] + 0
    BY <2>2, IncIs
  <2> QED BY <1>0, <2>1, <2>3, Zenon DEF Adds
<1>7. ASSUME count' = Inc({"annotation_applied"}) PROVE Adds(0, 0, 0, 0, 0, 1, 0)
  <2> DEFINE S == {"annotation_applied"}
  <2>1. /\ "annotation_applied" \in S
        /\ "observed" \notin S /\ "non_or_ignored_global_oom" \notin S /\ "no_pod_match" \notin S
        /\ "identified" \notin S /\ "annotation_failed" \notin S /\ "annotation_exists" \notin S
    OBVIOUS
  <2>2. count' = Inc(S)
    BY <1>7
  <2> HIDE DEF S
  <2>3. \A c \in Counters : /\ c \in S => count'[c] = count[c] + 1
                            /\ c \notin S => count'[c] = count[c] + 0
    BY <2>2, IncIs
  <2> QED BY <1>0, <2>1, <2>3, Zenon DEF Adds
<1> QED BY <1>1, <1>2, <1>3, <1>4, <1>5, <1>6, <1>7, Zenon

(***************************************************************************)
(* The counters add up in every reachable state: no path through the loop  *)
(* leaves an event it read uncounted or counts it twice.                   *)
(***************************************************************************)
THEOREM CountersAddUp == Spec => []Accounting
<1>1. Init => Accounting
  BY DEF Init, Accounting, InLoop, Counters
<1>2. TypeOK /\ Accounting /\ [Next]_vars => Accounting'
  <2> SUFFICES ASSUME TypeOK, Accounting, [Next]_vars PROVE Accounting'
    OBVIOUS
  <2>0. /\ count["observed"] \in Nat
        /\ count["non_or_ignored_global_oom"] \in Nat
        /\ count["no_pod_match"] \in Nat
        /\ count["identified"] \in Nat
        /\ count["annotation_failed"] \in Nat
        /\ count["annotation_applied"] \in Nat
        /\ count["annotation_exists"] \in Nat
    BY DEF TypeOK, Counters
  <2>1. CASE UNCHANGED <<pc, count>>
    BY <2>1 DEF Accounting, InLoop
  <2>2. CASE Read
    <3>1. CASE Skipped(Head(ring))
      <4>1. pc = "read" /\ pc' = "read" /\ Adds(1, 1, 0, 0, 0, 0, 0)
        BY <2>2, <3>1, IncCounts DEF Read
      <4>2. /\ InLoop("list") = 0 /\ InLoop("fatal") = 0 /\ InLoop("patch") = 0
            /\ InLoop("list")' = 0 /\ InLoop("fatal")' = 0 /\ InLoop("patch")' = 0
        BY <4>1 DEF InLoop
      <4>3. (annotate => count["identified"] = count["annotation_exists"]
              + count["annotation_applied"] + count["annotation_failed"] + InLoop("patch"))'
        BY <2>0, <4>1, <4>2, SMTT(40) DEF Adds, Accounting
      <4>4. (count["observed"] = count["non_or_ignored_global_oom"]
              + count["no_pod_match"] + count["identified"] + InLoop("list") + InLoop("fatal"))'
        BY <2>0, <4>1, <4>2, SMTT(40) DEF Adds, Accounting
      <4> QED BY <4>3, <4>4 DEF Accounting
    <3>2. CASE ~Skipped(Head(ring))
      <4>1. pc = "read" /\ pc' = "list" /\ Adds(1, 0, 0, 0, 0, 0, 0)
        BY <2>2, <3>2, IncCounts DEF Read
      <4>2. /\ InLoop("list") = 0 /\ InLoop("fatal") = 0 /\ InLoop("patch") = 0
            /\ InLoop("list")' = 1 /\ InLoop("fatal")' = 0 /\ InLoop("patch")' = 0
        BY <4>1 DEF InLoop
      <4>3. (annotate => count["identified"] = count["annotation_exists"]
              + count["annotation_applied"] + count["annotation_failed"] + InLoop("patch"))'
        BY <2>0, <4>1, <4>2, SMTT(40) DEF Adds, Accounting
      <4>4. (count["observed"] = count["non_or_ignored_global_oom"]
              + count["no_pod_match"] + count["identified"] + InLoop("list") + InLoop("fatal"))'
        BY <2>0, <4>1, <4>2, SMTT(40) DEF Adds, Accounting
      <4> QED BY <4>3, <4>4 DEF Accounting
    <3> QED BY <3>1, <3>2
  <2>3. CASE ReadClosed \/ ListFails
    BY <2>0, <2>3 DEF ReadClosed, ListFails, Accounting, InLoop
  <2>4. CASE NoPodMatch
    <3>1. pc = "list" /\ pc' = "read" /\ Adds(0, 0, 1, 0, 0, 0, 0)
      BY <2>4, IncCounts DEF NoPodMatch, Continue
    <3>2. /\ InLoop("list") = 1 /\ InLoop("fatal") = 0 /\ InLoop("patch") = 0
          /\ InLoop("list")' = 0 /\ InLoop("fatal")' = 0 /\ InLoop("patch")' = 0
      BY <3>1 DEF InLoop
    <3>3. (annotate => count["identified"] = count["annotation_exists"]
            + count["annotation_applied"] + count["annotation_failed"] + InLoop("patch"))'
      BY <2>0, <3>1, <3>2, SMTT(40) DEF Adds, Accounting
    <3>4. (count["observed"] = count["non_or_ignored_global_oom"]
            + count["no_pod_match"] + count["identified"] + InLoop("list") + InLoop("fatal"))'
      BY <2>0, <3>1, <3>2, SMTT(40) DEF Adds, Accounting
    <3> QED BY <3>3, <3>4 DEF Accounting
  <2>5. CASE IdentifyOnly
    <3>1. pc = "list" /\ pc' = "read"
      BY <2>5 DEF IdentifyOnly, Continue
    <3>2. CASE annotate
      <4>1. count' = Inc({"identified", "annotation_exists"})
        <5>1. {"identified"} \cup {"annotation_exists"} = {"identified", "annotation_exists"}
          OBVIOUS
        <5> QED BY <2>5, <3>2, <5>1 DEF IdentifyOnly
      <4>2. Adds(0, 0, 0, 1, 0, 0, 1)
        BY <4>1, IncCounts
      <4>3. /\ InLoop("list") = 1 /\ InLoop("fatal") = 0 /\ InLoop("patch") = 0
            /\ InLoop("list")' = 0 /\ InLoop("fatal")' = 0 /\ InLoop("patch")' = 0
        BY <3>1 DEF InLoop
      <4>4. (annotate => count["identified"] = count["annotation_exists"]
              + count["annotation_applied"] + count["annotation_failed"] + InLoop("patch"))'
        BY <2>0, <4>2, <4>3, SMTT(40) DEF Adds, Accounting
      <4>5. (count["observed"] = count["non_or_ignored_global_oom"]
              + count["no_pod_match"] + count["identified"] + InLoop("list") + InLoop("fatal"))'
        BY <2>0, <4>2, <4>3, SMTT(40) DEF Adds, Accounting
      <4> QED BY <4>4, <4>5 DEF Accounting
    <3>3. CASE ~annotate
      <4>1. count' = Inc({"identified"})
        <5>1. {"identified"} \cup {} = {"identified"}
          OBVIOUS
        <5> QED BY <2>5, <3>3, <5>1 DEF IdentifyOnly
      <4>2. Adds(0, 0, 0, 1, 0, 0, 0)
        BY <4>1, IncCounts
      <4>3. /\ InLoop("list") = 1 /\ InLoop("fatal") = 0 /\ InLoop("patch") = 0
            /\ InLoop("list")' = 0 /\ InLoop("fatal")' = 0 /\ InLoop("patch")' = 0
        BY <3>1 DEF InLoop
      <4>4. (annotate => count["identified"] = count["annotation_exists"]
              + count["annotation_applied"] + count["annotation_failed"] + InLoop("patch"))'
        BY <2>0, <3>1, <3>3, <4>2, <4>3, SMTT(40) DEF Adds, Accounting
      <4>5. (count["observed"] = count["non_or_ignored_global_oom"]
              + count["no_pod_match"] + count["identified"] + InLoop("list") + InLoop("fatal"))'
        BY <2>0, <3>1, <3>3, <4>2, <4>3, SMTT(40) DEF Adds, Accounting
      <4> QED BY <4>4, <4>5 DEF Accounting
    <3> QED BY <3>2, <3>3
  <2>6. CASE Annotate
    <3>1. pc = "list" /\ pc' = "patch" /\ Adds(0, 0, 0, 1, 0, 0, 0)
      BY <2>6, IncCounts DEF Annotate
    <3>2. /\ InLoop("list") = 1 /\ InLoop("fatal") = 0 /\ InLoop("patch") = 0
          /\ InLoop("list")' = 0 /\ InLoop("fatal")' = 0 /\ InLoop("patch")' = 1
      BY <3>1 DEF InLoop
    <3>3. (annotate => count["identified"] = count["annotation_exists"]
            + count["annotation_applied"] + count["annotation_failed"] + InLoop("patch"))'
      BY <2>0, <3>1, <3>2, SMTT(40) DEF Adds, Accounting
    <3>4. (count["observed"] = count["non_or_ignored_global_oom"]
            + count["no_pod_match"] + count["identified"] + InLoop("list") + InLoop("fatal"))'
      BY <2>0, <3>1, <3>2, SMTT(40) DEF Adds, Accounting
    <3> QED BY <3>3, <3>4 DEF Accounting
  <2>7. CASE AnnotateOK
    <3>1. pc = "patch" /\ pc' = "read" /\ Adds(0, 0, 0, 0, 0, 1, 0)
      BY <2>7, IncCounts DEF AnnotateOK, Continue
    <3>2. /\ InLoop("list") = 0 /\ InLoop("fatal") = 0 /\ InLoop("patch") = 1
          /\ InLoop("list")' = 0 /\ InLoop("fatal")' = 0 /\ InLoop("patch")' = 0
      BY <3>1 DEF InLoop
    <3>3. (annotate => count["identified"] = count["annotation_exists"]
            + count["annotation_applied"] + count["annotation_failed"] + InLoop("patch"))'
      BY <2>0, <3>1, <3>2, SMTT(40) DEF Adds, Accounting
    <3>4. (count["observed"] = count["non_or_ignored_global_oom"]
            + count["no_pod_match"] + count["identified"] + InLoop("list") + InLoop("fatal"))'
      BY <2>0, <3>1, <3>2, SMTT(40) DEF Adds, Accounting
    <3> QED BY <3>3, <3>4 DEF Accounting
  <2>8. CASE AnnotateFails \/ AnnotateLost
    <3>1. pc = "patch" /\ pc' = "read" /\ Adds(0, 0, 0, 0, 1, 0, 0)
      BY <2>8, IncCounts DEF AnnotateFails, AnnotateLost, PatchError, Continue
    <3>2. /\ InLoop("list") = 0 /\ InLoop("fatal") = 0 /\ InLoop("patch") = 1
          /\ InLoop("list")' = 0 /\ InLoop("fatal")' = 0 /\ InLoop("patch")' = 0
      BY <3>1 DEF InLoop
    <3>3. (annotate => count["identified"] = count["annotation_exists"]
            + count["annotation_applied"] + count["annotation_failed"] + InLoop("patch"))'
      BY <2>0, <3>1, <3>2, SMTT(40) DEF Adds, Accounting
    <3>4. (count["observed"] = count["non_or_ignored_global_oom"]
            + count["no_pod_match"] + count["identified"] + InLoop("list") + InLoop("fatal"))'
      BY <2>0, <3>1, <3>2, SMTT(40) DEF Adds, Accounting
    <3> QED BY <3>3, <3>4 DEF Accounting
  <2> QED BY <2>1, <2>2, <2>3, <2>4, <2>5, <2>6, <2>7, <2>8, Zenon
    DEF Next, Agent, APIServer, Cluster, Kernel, vars, agent, ReadUnparsed, ServePatch,
      LosePatch, CreatePod, OwnerAnnotates, StartContainer, EndPod, DeletePod, Sync,
      KillInPod, KillOnHost, Emit, Signal, CloseReader
<1> QED BY <1>1, <1>2, TypeCorrect, PTL DEF Spec

(***************************************************************************)
(* TraceKernelOOMKills returns without an error only after a signal: the   *)
(* reader is closed by none but the goroutine that waits for ctx.          *)
(***************************************************************************)
THEOREM CleanReturn == Spec => []ReturnsOnlyOnSignal
<1> DEFINE ClosedOnSignal == rd = "closed" => ctx = "done"
<1>1. Init => ReturnsOnlyOnSignal /\ ClosedOnSignal
  BY DEF Init, ReturnsOnlyOnSignal
<1>2. ReturnsOnlyOnSignal /\ ClosedOnSignal /\ [Next]_vars
        => (ReturnsOnlyOnSignal /\ ClosedOnSignal)'
  BY Zenon DEF ReturnsOnlyOnSignal, Next, Agent, APIServer, Cluster, Kernel, vars, agent,
    Read, ReadUnparsed, ReadClosed, ListFails, NoPodMatch, IdentifyOnly, Annotate,
    AnnotateOK, AnnotateFails, AnnotateLost, PatchError, Continue, ServePatch,
    LosePatch, CreatePod, OwnerAnnotates, StartContainer, EndPod, DeletePod, Sync,
    KillInPod, KillOnHost, Emit, Signal, CloseReader
<1> QED BY <1>1, <1>2, PTL DEF Spec
-----------------------------------------------------------------------------
\* Inc leaves the other counters alone.
LEMMA IncKeeps ==
  ASSUME NEW S, NEW c \in Counters \ S
  PROVE  Inc(S)[c] = count[c]
BY DEF Inc

(***************************************************************************)
(* A Patch is paid for before it can change anything: the pods changed and *)
(* the patches under way are together at most as many as the patches       *)
(* reported as applied or failed, plus the one the loop waits for.         *)
(***************************************************************************)
PatchesPaidFor ==
  /\ IsFiniteSet(applied) /\ IsFiniteSet(wire)
  /\ Cardinality(applied) + Cardinality(wire)
       <= count["annotation_applied"] + count["annotation_failed"] + InLoop("patch")

\* A set grows by at most the element that is added.
LEMMA GrowsByOne ==
  ASSUME NEW S, IsFiniteSet(S), NEW x
  PROVE  /\ IsFiniteSet(S \cup {x}) /\ Cardinality(S \cup {x}) \in Nat
         /\ Cardinality(S \cup {x}) <= Cardinality(S) + 1
<1>1. Cardinality(S) \in Nat
  BY FS_CardinalityType
<1>2. /\ IsFiniteSet(S \cup {x})
      /\ Cardinality(S \cup {x}) = IF x \in S THEN Cardinality(S) ELSE Cardinality(S) + 1
  BY FS_AddElement
<1> QED BY <1>1, <1>2

\* And it shrinks by the element that is taken from it.
LEMMA ShrinksByOne ==
  ASSUME NEW S, IsFiniteSet(S), NEW x \in S
  PROVE  /\ IsFiniteSet(S \ {x}) /\ Cardinality(S \ {x}) \in Nat
         /\ Cardinality(S \ {x}) = Cardinality(S) - 1 /\ Cardinality(S) \in Nat
<1>1. Cardinality(S) \in Nat /\ IsFiniteSet(S \ {x})
  BY FS_CardinalityType, FS_RemoveElement
<1>2. Cardinality(S \ {x}) = Cardinality(S) - 1 /\ Cardinality(S \ {x}) \in Nat
  BY <1>1, FS_RemoveElement, FS_CardinalityType
<1> QED BY <1>1, <1>2

(***************************************************************************)
(* No pod is marked without a trace in the counters, although answers get  *)
(* lost and cancelled patches are carried out later.                       *)
(***************************************************************************)
THEOREM MarksReported == Spec => []NoSilentMark
<1>1. Init => PatchesPaidFor
  <2>1. Cardinality({}) = 0 /\ IsFiniteSet({})
    BY FS_EmptySet
  <2> QED BY <2>1 DEF Init, PatchesPaidFor, InLoop, Counters
<1>2. TypeOK /\ PatchesPaidFor /\ [Next]_vars => PatchesPaidFor'
  <2> SUFFICES ASSUME TypeOK, PatchesPaidFor, [Next]_vars PROVE PatchesPaidFor'
    OBVIOUS
  <2>0. /\ count["annotation_failed"] \in Nat /\ count["annotation_applied"] \in Nat
        /\ Cardinality(applied) \in Nat /\ Cardinality(wire) \in Nat
    BY FS_CardinalityType DEF TypeOK, Counters, PatchesPaidFor
  <2>1. CASE UNCHANGED <<applied, wire, pc, count>>
    BY <2>1 DEF PatchesPaidFor, InLoop
  <2>2. CASE Read
    <3>1. PICK S : count' = Inc(S) /\ S \subseteq {"observed", "non_or_ignored_global_oom"}
      BY <2>2 DEF Read
    <3>2. pc = "read" /\ pc' # "patch" /\ UNCHANGED <<applied, wire>>
      BY <2>2 DEF Read
    <3>3. /\ count'["annotation_applied"] = count["annotation_applied"]
          /\ count'["annotation_failed"] = count["annotation_failed"]
      BY <3>1, IncKeeps DEF Counters
    <3> QED BY <2>0, <3>2, <3>3 DEF PatchesPaidFor, InLoop
  <2>3. CASE ReadClosed \/ ListFails
    BY <2>0, <2>3 DEF ReadClosed, ListFails, PatchesPaidFor, InLoop
  <2>4. CASE NoPodMatch
    <3>1. /\ pc = "list" /\ pc' = "read" /\ UNCHANGED <<applied, wire>>
          /\ Adds(0, 0, 1, 0, 0, 0, 0)
      BY <2>4, IncCounts DEF NoPodMatch, Continue
    <3> QED BY <2>0, <3>1 DEF Adds, PatchesPaidFor, InLoop
  <2>5. CASE IdentifyOnly
    <3>1. PICK S : count' = Inc(S) /\ S \subseteq {"identified", "annotation_exists"}
      BY <2>5 DEF IdentifyOnly
    <3>2. pc = "list" /\ pc' = "read" /\ UNCHANGED <<applied, wire>>
      BY <2>5 DEF IdentifyOnly, Continue
    <3>3. /\ count'["annotation_applied"] = count["annotation_applied"]
          /\ count'["annotation_failed"] = count["annotation_failed"]
      BY <3>1, IncKeeps DEF Counters
    <3> QED BY <2>0, <3>2, <3>3 DEF PatchesPaidFor, InLoop
  <2>6. CASE Annotate
    <3>1. PICK w : wire' = wire \cup {w}
      BY <2>6, Zenon DEF Annotate, AnnotatePod
    <3>2. IsFiniteSet(wire') /\ Cardinality(wire') \in Nat
          /\ Cardinality(wire') <= Cardinality(wire) + 1
      BY <3>1, GrowsByOne, Zenon DEF PatchesPaidFor
    <3>3. /\ count'["annotation_applied"] = count["annotation_applied"]
          /\ count'["annotation_failed"] = count["annotation_failed"]
      BY <2>6, IncKeeps DEF Annotate, Counters
    <3> QED BY <2>0, <2>6, <3>2, <3>3 DEF Annotate, PatchesPaidFor, InLoop
  <2>7. CASE AnnotateOK
    <3>1. /\ pc = "patch" /\ pc' = "read" /\ UNCHANGED <<applied, wire>>
          /\ Adds(0, 0, 0, 0, 0, 1, 0)
      BY <2>7, IncCounts DEF AnnotateOK, Continue
    <3> QED BY <2>0, <3>1 DEF Adds, PatchesPaidFor, InLoop
  <2>8. CASE AnnotateFails \/ AnnotateLost
    <3>1. /\ pc = "patch" /\ pc' = "read" /\ UNCHANGED <<applied, wire>>
          /\ Adds(0, 0, 0, 0, 1, 0, 0)
      BY <2>8, IncCounts DEF AnnotateFails, AnnotateLost, PatchError, Continue
    <3> QED BY <2>0, <3>1 DEF Adds, PatchesPaidFor, InLoop
  <2>9. ASSUME NEW w \in wire, ServePatch(w) \/ LosePatch(w) PROVE PatchesPaidFor'
    <3>1. wire' = wire \ {w} /\ UNCHANGED <<pc, count>>
      BY <2>9 DEF ServePatch, LosePatch, agent
    <3>2. /\ IsFiniteSet(wire') /\ Cardinality(wire') \in Nat
          /\ Cardinality(wire') = Cardinality(wire) - 1
      BY <3>1, ShrinksByOne DEF PatchesPaidFor
    <3>3. /\ IsFiniteSet(applied') /\ Cardinality(applied') \in Nat
          /\ Cardinality(applied') <= Cardinality(applied) + 1
      <4>1. CASE applied' = applied
        BY <2>0, <4>1 DEF PatchesPaidFor
      <4>2. ASSUME NEW u, applied' = applied \cup {u}
            PROVE  /\ IsFiniteSet(applied') /\ Cardinality(applied') \in Nat
                   /\ Cardinality(applied') <= Cardinality(applied) + 1
        BY <4>2, GrowsByOne DEF PatchesPaidFor
      <4> QED BY <2>9, <4>1, <4>2, Zenon DEF ServePatch, LosePatch
    <3> QED BY <2>0, <3>1, <3>2, <3>3 DEF PatchesPaidFor, InLoop
  <2> QED BY <2>1, <2>2, <2>3, <2>4, <2>5, <2>6, <2>7, <2>8, <2>9, Zenon
    DEF Next, Agent, APIServer, Cluster, Kernel, vars, agent, ReadUnparsed,
      CreatePod, OwnerAnnotates, StartContainer, EndPod, DeletePod, Sync,
      KillInPod, KillOnHost, Emit, Signal, CloseReader
<1>3. TypeOK /\ PatchesPaidFor => NoSilentMark
  <2> SUFFICES ASSUME TypeOK, PatchesPaidFor PROVE NoSilentMark
    OBVIOUS
  <2>1. /\ count["annotation_failed"] \in Nat /\ count["annotation_applied"] \in Nat
        /\ Cardinality(applied) \in Nat /\ Cardinality(wire) \in Nat
    BY FS_CardinalityType DEF TypeOK, Counters, PatchesPaidFor
  <2> QED BY <2>1 DEF PatchesPaidFor, NoSilentMark, InLoop
<1> QED BY <1>1, <1>2, <1>3, TypeCorrect, PTL DEF Spec

-----------------------------------------------------------------------------
(***************************************************************************)
(* If some name of a path finds a pod of the list, one is identified: the  *)
(* first name that finds any decides.                                      *)
(***************************************************************************)
LEMMA SomeNameIdentifies ==
  ASSUME NEW names, NEW pods, NEW i \in 1..Depth, names[i].kind # "empty",
         LookupPod(names[i], pods) # {}
  PROVE  Identify(names, pods) # {}
<1> DEFINE Finds(k) == names[k].kind # "empty" /\ LookupPod(names[k], pods) # {}
<1>1. PICK k \in 1..Depth : Finds(k) /\ \A m \in 1..(k-1) : ~Finds(m)
  <2>0. Finds(i) /\ i \in 1..4 /\ Depth = 4
    BY DEF Depth
  <2> HIDE DEF Finds
  <2>1. CASE Finds(1)
    BY <2>0, <2>1
  <2>2. CASE ~Finds(1) /\ Finds(2)
    BY <2>0, <2>2
  <2>3. CASE ~Finds(1) /\ ~Finds(2) /\ Finds(3)
    BY <2>0, <2>3
  <2>4. CASE ~Finds(1) /\ ~Finds(2) /\ ~Finds(3)
    BY <2>0, <2>4
  <2> QED BY <2>1, <2>2, <2>3, <2>4
<1>2. PICK p \in pods : p \in LookupPod(names[k], pods)
  BY <1>1 DEF LookupPod
<1>3. \A m \in 1..(k-1) : names[m].kind # "empty" => LookupPod(names[m], pods) = {}
  BY <1>1
<1> QED BY <1>1, <1>2, <1>3 DEF Identify

\* A slice or directory that shows a pod's UID finds the pod, however spelled.
LEMMA UidFinds ==
  ASSUME NEW n \in [kind: Kinds, uid: Nat, cid: Cid], n.kind \in {"slice", "dir"},
         NEW pods, NEW p \in pods, p.uid = n.uid
  PROVE  LookupPod(n, pods) # {}
<1>1. podPattern(n) \in [uid: Nat, sep: {"_", "-"}] /\ podPattern(n).uid = n.uid
  BY Zenon DEF podPattern
<1>2. ASSUME NEW m \in [uid: Nat, sep: {"_", "-"}]
      PROVE  [m EXCEPT !.sep = "-"] = [uid |-> m.uid, sep |-> "-"]
  <2> DEFINE q == [m EXCEPT !.sep = "-"]
  <2>1. q \in [uid: Nat, sep: {"_", "-"}] /\ q.uid = m.uid /\ q.sep = "-"
    BY Zenon
  <2> HIDE DEF q
  <2>2. q = [uid |-> m.uid, sep |-> "-"]
    BY <2>1, Zenon
  <2> QED BY <2>2, Zenon DEF q
<1>3. ReplaceAll(podPattern(n)) = APISpelling(p.uid)
  BY <1>1, <1>2, Zenon DEF ReplaceAll, APISpelling
<1>4. podPattern(n) # NoMatch
  BY <1>1, NoMatchAssumption, Zenon
<1>5. Matches(n, p)
  BY <1>3, <1>4 DEF Matches
<1> QED BY <1>5 DEF LookupPod

(***************************************************************************)
(* A step counts an event that shows its pod as unmatched only if the pod  *)
(* is not listed.                                                          *)
(***************************************************************************)
THEOREM UnmatchedOnlyIfUnlisted == Spec => UnmatchedIsUnlisted
<1> DEFINE A == count'["no_pod_match"] > count["no_pod_match"] /\ ShowsPod(ev)
                  => \A p \in ListPodsOnANode : p.uid # ev.uid
<1>1. TypeOK /\ [Next]_vars => [A]_vars
  <2> SUFFICES ASSUME TypeOK, [Next]_vars,
                      count'["no_pod_match"] > count["no_pod_match"], ShowsPod(ev),
                      NEW p \in ListPodsOnANode, p.uid = ev.uid
               PROVE  FALSE
    OBVIOUS
  <2>0. count["no_pod_match"] \in Nat
    BY DEF TypeOK, Counters
  <2>1. CASE count'["no_pod_match"] = count["no_pod_match"]
    BY <2>0, <2>1
  <2>2. CASE NoPodMatch
    <3>1. pc = "list" /\ ev \in Event /\ Identify(ev.names, ListPodsOnANode) = {}
      BY <2>2 DEF NoPodMatch, TypeOK
    <3>2. PICK i \in 1..Depth : ev.names[i].kind \in {"slice", "dir"} /\ ev.names[i].uid = ev.uid
      BY DEF ShowsPod
    <3>3. LookupPod(ev.names[i], ListPodsOnANode) # {}
      BY <3>1, <3>2, UidFinds, Zenon DEF Event
    <3> QED BY <3>1, <3>2, <3>3, SomeNameIdentifies
  <2>3. CASE Read
    <3>1. PICK S : count' = Inc(S) /\ S \subseteq {"observed", "non_or_ignored_global_oom"}
      BY <2>3 DEF Read
    <3> QED BY <2>1, <3>1, IncKeeps DEF Counters
  <2>4. CASE IdentifyOnly
    <3>1. PICK S : count' = Inc(S) /\ S \subseteq {"identified", "annotation_exists"}
      BY <2>4 DEF IdentifyOnly
    <3> QED BY <2>1, <3>1, IncKeeps DEF Counters
  <2>5. CASE Annotate \/ AnnotateOK \/ AnnotateFails \/ AnnotateLost
    <3>1. PICK S : /\ count' = Inc(S)
                   /\ S \in {{"identified"}, {"annotation_applied"}, {"annotation_failed"}}
      BY <2>5 DEF Annotate, AnnotateOK, AnnotateFails, AnnotateLost, PatchError
    <3> QED BY <2>1, <3>1, IncKeeps DEF Counters
  <2> QED BY <2>1, <2>2, <2>3, <2>4, <2>5, Zenon
    DEF Next, Agent, APIServer, Cluster, Kernel, vars, agent, ReadUnparsed, ReadClosed,
      ListFails, ServePatch, LosePatch, CreatePod, OwnerAnnotates, StartContainer,
      EndPod, DeletePod, Sync, KillInPod, KillOnHost, Emit, Signal, CloseReader
<1> QED BY <1>1, TypeCorrect, PTL DEF Spec, UnmatchedIsUnlisted

-----------------------------------------------------------------------------
(***************************************************************************)
(* The loop never overwrites an annotation of the owner that the cache     *)
(* shows and that no earlier patch threatens.                              *)
(***************************************************************************)
THEOREM OwnersAnnotationStays == Spec => OwnersValueKept
<1> DEFINE A == \A n \in PodName : OwnerSettled(n) => api'[n] = Nil \/ OwnerSettled(n)'
<1>1. TypeOK /\ Provenance /\ [Next]_vars => [A]_vars
  <2> SUFFICES ASSUME TypeOK, Provenance, [Next]_vars,
                      NEW n \in PodName, OwnerSettled(n), api'[n] # Nil
               PROVE  OwnerSettled(n)'
    OBVIOUS
  <2>0. /\ api \in [PodName -> Pod \cup {Nil}] /\ cache \in [PodName -> Pod \cup {Nil}]
        /\ api[n] \in Pod /\ cache[n] \in Pod
    BY DEF TypeOK, OwnerSettled
  <2>1. ASSUME UNCHANGED cache, wire' \subseteq wire,
               api'[n].uid = api[n].uid, api'[n].ann = api[n].ann
        PROVE  OwnerSettled(n)'
    BY <2>1 DEF OwnerSettled
  <2>2. CASE Annotate
    <3>1. PICK p \in Identify(ev.names, ListPodsOnANode) :
            /\ p.ann = "none"
            /\ wire' = wire \cup
                 {[seq |-> count["identified"] + 1, name |-> p.name, uid |-> p.uid]}
      BY <2>2 DEF Annotate, AnnotatePod, Patchable
    <3>2. PICK m \in PodName : p = cache[m] /\ cache[m] # Nil
      BY IdentifiedIsListed
    <3>3. p.name = m
      BY <3>2 DEF Provenance, PodsTruthful, PodTruthful
    <3>4. m # n
      BY <3>1, <3>2 DEF OwnerSettled
    <3>5. \A w \in wire' : w.name # n
      <4>1. \A w \in wire : w.name # n
        BY DEF OwnerSettled
      <4>2. \A w \in wire' : w \in wire \/ w.name = p.name
        BY <3>1
      <4> QED BY <3>3, <3>4, <4>1, <4>2
    <3>6. UNCHANGED <<api, cache>>
      BY <2>2 DEF Annotate, cluster
    <3> QED BY <3>5, <3>6 DEF OwnerSettled
  <2>3. CASE Agent /\ ~Annotate
    BY <2>1, <2>3 DEF Agent, Read, ReadUnparsed, ReadClosed, ListFails, NoPodMatch,
      IdentifyOnly, AnnotateOK, AnnotateFails, AnnotateLost, PatchError, cluster
  <2>4. ASSUME NEW w \in wire, ServePatch(w) \/ LosePatch(w) PROVE OwnerSettled(n)'
    <3>1. w.name # n /\ w.name \in PodName
      BY DEF OwnerSettled, TypeOK
    <3>2. api'[n] = api[n] /\ wire' \subseteq wire /\ cache' = cache
      BY <2>0, <2>4, <3>1 DEF ServePatch, LosePatch, cluster
    <3> QED BY <2>1, <3>2
  <2>5. ASSUME NEW m \in PodName, NEW a \in {"none", "other"}, CreatePod(m, a)
        PROVE  OwnerSettled(n)'
    <3>1. m # n /\ api'[n] = api[n]
      BY <2>0, <2>5 DEF CreatePod, OwnerSettled
    <3> QED BY <2>1, <2>5, <3>1 DEF CreatePod
  <2>6. ASSUME NEW m \in PodName,
               OwnerAnnotates(m) \/ StartContainer(m) \/ EndPod(m) \/ DeletePod(m)
        PROVE  OwnerSettled(n)'
    <3>1. UNCHANGED <<cache, wire>>
      BY <2>6 DEF OwnerAnnotates, StartContainer, EndPod, DeletePod
    <3>2. CASE m # n
      <4>1. api'[n] = api[n]
        BY <2>0, <2>6, <3>2 DEF OwnerAnnotates, StartContainer, EndPod, DeletePod
      <4> QED BY <2>1, <3>1, <4>1
    <3>3. CASE m = n
      <4>1. api'[n].uid = api[n].uid /\ api'[n].ann = api[n].ann
        <5>1. CASE OwnerAnnotates(n)
          BY <5>1 DEF OwnerAnnotates, OwnerSettled
        <5>2. CASE StartContainer(n)
          BY <2>0, <5>2 DEF StartContainer, Pod
        <5>3. CASE EndPod(n)
          BY <2>0, <5>3 DEF EndPod, Pod
        <5>4. CASE DeletePod(n)
          BY <2>0, <5>4 DEF DeletePod
        <5> QED BY <2>6, <3>3, <5>1, <5>2, <5>3, <5>4
      <4> QED BY <2>1, <3>1, <4>1
    <3> QED BY <3>2, <3>3
  <2>7. CASE Sync
    BY <2>7 DEF Sync, OwnerSettled
  <2>8. CASE Kernel \/ Signal \/ CloseReader \/ UNCHANGED vars
    BY <2>1, <2>8, Zenon DEF Kernel, KillInPod, KillOnHost, Emit, Signal, CloseReader, vars,
      cluster
  <2> QED BY <2>2, <2>3, <2>4, <2>5, <2>6, <2>7, <2>8 DEF Next, APIServer, Cluster
<1> QED BY <1>1, TypeCorrect, ProvenanceHolds, PTL DEF Spec, OwnersValueKept
=============================================================================
