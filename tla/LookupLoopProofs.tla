-------------------------- MODULE LookupLoopProofs --------------------------
(***************************************************************************)
(* The loops of the source compute Identify, for lists of every length, in *)
(* every order, and for all names and pods.                                *)
(***************************************************************************)
EXTENDS LookupLoop, TLAPS

\* A listed pod as PodLookup sees it.
AsListed(p) == [pod |-> p, uid |-> p.uid, cids |-> Cids(p)]

\* The candidate with index t finds the pod with index k.
Hits(t, k) == candidates[t].kind # "empty" /\ Matches(candidates[t], AsListed(pods[k]))

\* No candidate before the one with index t finds any pod.
NoneBefore(t) == \A u \in 1..(t-1), k \in 1..Len(pods) : ~Hits(u, k)

(***************************************************************************)
(* What the loops know: no earlier candidate found a pod, and the current  *)
(* one none of the pods before j.                                          *)
(***************************************************************************)
IInv ==
  /\ candidates \in [1..Depth -> Names] /\ pods \in Lists
  /\ pc \in {"candidate", "pod", "done"}
  /\ s \in 1..(Depth + 1) /\ j \in 1..(Len(pods) + 1)
  /\ NoneBefore(s)
  /\ pc = "candidate" => id = Nil
  /\ pc = "pod" => /\ id = Nil /\ s <= Depth /\ candidates[s].kind # "empty"
                   /\ podUIDMatch # NoMatch \/ containerIDMatch # NoMatch
                   /\ \A k \in 1..(j-1) : ~Hits(s, k)
  /\ pc = "done" => \/ id = Nil /\ s = Depth + 1
                    \/ s <= Depth /\ j <= Len(pods) /\ id = pods[j] /\ Hits(s, j)

\* A list is a sequence of pods, without duplicates.
LEMMA ListType ==
  ASSUME NEW l \in Lists
  PROVE  /\ l \in Seq(Pods) /\ Len(l) \in Nat /\ DOMAIN l = 1..Len(l)
         /\ \A a, b \in 1..Len(l) :
              a # b => l[a].uid # l[b].uid /\ Cids(l[a]) \cap Cids(l[b]) = {}
<1>1. PICK n \in 0..MaxListed : l \in [1..n -> Pods]
  BY DEF Lists
<1>2. n \in Nat
  BY ListAssumption
<1>3. l \in Seq(Pods) /\ Len(l) = n
  BY <1>1, <1>2
<1> QED BY <1>1, <1>2, <1>3 DEF Lists

(***************************************************************************)
(* The comparison LookupPod makes, given that an expression has matched,   *)
(* is Matches.                                                             *)
(***************************************************************************)
LEMMA VictimMatches ==
  ASSUME podUIDMatch # NoMatch \/ containerIDMatch # NoMatch, NEW p
  PROVE  IsVictim(p) <=> Matches(candidates[s], AsListed(p))
BY DEF IsVictim, Matches, HasContainer, AsListed, Cids, podUIDMatch, containerIDMatch

\* A name that neither expression matches finds nothing.
LEMMA UnmatchedFindsNone ==
  ASSUME podUIDMatch = NoMatch, containerIDMatch = NoMatch, NEW p
  PROVE  ~Matches(candidates[s], AsListed(p))
BY DEF Matches, podUIDMatch, containerIDMatch

\* No name finds two pods of a list: they share neither UID nor container.
LEMMA AtMostOne ==
  ASSUME NEW l \in Lists, NEW n, NEW a \in 1..Len(l), NEW b \in 1..Len(l),
         Matches(n, AsListed(l[a])), Matches(n, AsListed(l[b]))
  PROVE  a = b
<1> SUFFICES l[a].uid = l[b].uid \/ Cids(l[a]) \cap Cids(l[b]) # {}
  BY ListType
<1>1. CASE podPattern(n) # NoMatch
  <2>1. APISpelling(l[a].uid) = APISpelling(l[b].uid)
    BY <1>1 DEF Matches, AsListed
  <2> QED BY <2>1 DEF APISpelling
<1>2. CASE podPattern(n) = NoMatch
  BY <1>2 DEF Matches, AsListed
<1> QED BY <1>1, <1>2

\* The loops have gone through one more candidate without finding a pod.
LEMMA NextNone ==
  ASSUME IInv, s <= Depth, \A k \in 1..Len(pods) : ~Hits(s, k),
         NextCandidate, UNCHANGED <<candidates, pods, id>>, id = Nil
  PROVE  IInv'
<1>1. NoneBefore(s)'
  BY DEF IInv, NextCandidate, NoneBefore, Hits, Depth
<1>2. 1 \in 1..(Len(pods) + 1)
  BY ListType DEF IInv
<1> QED BY <1>1, <1>2 DEF IInv, NextCandidate, Depth

\* Before the first candidate no pod has been found.
LEMMA InitOK == Init => IInv
<1> SUFFICES ASSUME Init PROVE IInv
  OBVIOUS
<1>1. 1 \in 1..(Len(pods) + 1)
  BY ListType DEF Init
<1> QED BY <1>1 DEF Init, IInv, NoneBefore, Depth

\* Every step of the loops keeps the invariant.
LEMMA StepOK == IInv /\ [Next]_vars => IInv'
<1> SUFFICES ASSUME IInv, [Next]_vars PROVE IInv'
  OBVIOUS
<1>0. Len(pods) \in Nat
  BY ListType DEF IInv
<1>1. CASE Candidate
  <2>1. CASE NextCandidate
    <3>1. \A k \in 1..Len(pods) : ~Hits(s, k)
      BY <1>1, <2>1, UnmatchedFindsNone DEF Candidate, NextCandidate, Hits
    <3> QED BY <1>1, <2>1, <3>1, NextNone DEF Candidate, IInv
  <2>2. CASE pc' = "pod"
    <3>1. UNCHANGED <<candidates, pods, id, s>> /\ j' = 1
      BY <1>1, <2>2 DEF Candidate, NextCandidate
    <3> QED BY <1>0, <1>1, <2>2, <3>1
      DEF Candidate, NextCandidate, IInv, NoneBefore, Hits, podUIDMatch, containerIDMatch
  <2> QED BY <1>1, <2>1, <2>2 DEF Candidate
<1>2. CASE Found
  <2>1. Hits(s, j)
    BY <1>2, VictimMatches DEF Found, IInv, Hits
  <2> QED BY <1>2, <2>1 DEF Found, IInv, NoneBefore, Hits
<1>3. CASE NotThisPod
  <2>1. ~Hits(s, j)
    BY <1>3, VictimMatches DEF NotThisPod, IInv, Hits
  <2>2. \A k \in 1..(j'-1) : ~Hits(s, k)
    BY <1>3, <2>1 DEF NotThisPod, IInv
  <2> QED BY <1>0, <1>3, <2>2
    DEF NotThisPod, IInv, NoneBefore, Hits, podUIDMatch, containerIDMatch
<1>4. CASE NoPod
  <2>1. \A k \in 1..Len(pods) : ~Hits(s, k)
    BY <1>0, <1>4 DEF NoPod, IInv
  <2> QED BY <1>4, <2>1, NextNone DEF NoPod, IInv
<1>5. CASE NoMoreCandidates
  BY <1>5 DEF NoMoreCandidates, IInv, NoneBefore, Hits, Depth
<1>6. CASE UNCHANGED vars
  BY <1>6 DEF vars, IInv, NoneBefore, Hits, podUIDMatch, containerIDMatch
<1> QED BY <1>1, <1>2, <1>3, <1>4, <1>5, <1>6 DEF Next

\* Listed holds the pods of the list, as PodLookup sees them.
LEMMA ListedIs ==
  ASSUME IInv
  PROVE  /\ \A k \in 1..Len(pods) : AsListed(pods[k]) \in Listed
         /\ \A q \in Listed : \E k \in 1..Len(pods) : q = AsListed(pods[k])
BY ListType DEF IInv, Listed, AsListed, Range

\* Identify spelled out over the list.
LEMMA IdentifyHits ==
  ASSUME IInv, NEW q
  PROVE  q \in Identify(candidates, Listed) <=>
           \E t \in 1..Depth, k \in 1..Len(pods) :
             q = AsListed(pods[k]) /\ Hits(t, k) /\ NoneBefore(t)
<1>1. ASSUME q \in Identify(candidates, Listed)
      PROVE  \E t \in 1..Depth, k \in 1..Len(pods) :
               q = AsListed(pods[k]) /\ Hits(t, k) /\ NoneBefore(t)
  <2>1. PICK t \in 1..Depth :
          /\ candidates[t].kind # "empty"
          /\ q \in LookupPod(candidates[t], Listed)
          /\ \A u \in 1..(t-1) :
               candidates[u].kind # "empty" => LookupPod(candidates[u], Listed) = {}
    BY <1>1 DEF Identify
  <2>2. q \in Listed /\ Matches(candidates[t], q)
    BY <2>1 DEF LookupPod
  <2>3. PICK k \in 1..Len(pods) : q = AsListed(pods[k])
    BY <2>2, ListedIs
  <2>4. Hits(t, k)
    BY <2>1, <2>2, <2>3 DEF Hits
  <2>5. NoneBefore(t)
    BY <2>1, ListedIs DEF NoneBefore, Hits, LookupPod
  <2> QED BY <2>3, <2>4, <2>5
<1>2. ASSUME NEW t \in 1..Depth, NEW k \in 1..Len(pods),
             q = AsListed(pods[k]), Hits(t, k), NoneBefore(t)
      PROVE  q \in Identify(candidates, Listed)
  <2>1. q \in Listed /\ q \in LookupPod(candidates[t], Listed)
    BY <1>2, ListedIs DEF Hits, LookupPod
  <2>2. \A u \in 1..(t-1) :
          candidates[u].kind # "empty" => LookupPod(candidates[u], Listed) = {}
    BY <1>2, ListedIs DEF NoneBefore, Hits, LookupPod
  <2> QED BY <1>2, <2>1, <2>2 DEF Identify, Hits
<1> QED BY <1>1, <1>2

(***************************************************************************)
(* The pod the loops end with is the one Identify names, or nil if there   *)
(* is none, for every list in every order: OOMTracer may use Identify.     *)
(***************************************************************************)
THEOREM LoopComputesIdentify == Spec => []LoopIsIdentify
<1>1. IInv => LoopIsIdentify
  <2> SUFFICES ASSUME IInv, pc = "done"
               PROVE  {p.pod : p \in Identify(candidates, Listed)}
                        = IF id = Nil THEN {} ELSE {id}
    BY DEF LoopIsIdentify
  <2>1. CASE id = Nil /\ s = Depth + 1
    <3>1. Identify(candidates, Listed) = {}
      BY <2>1, IdentifyHits DEF IInv, NoneBefore, Depth
    <3> QED BY <2>1, <3>1
  <2>2. CASE s <= Depth /\ j <= Len(pods) /\ id = pods[j] /\ Hits(s, j)
    <3>1. s \in 1..Depth /\ j \in 1..Len(pods) /\ id # Nil
      BY <2>2, ListType, ListAssumption DEF IInv, Depth
    <3>2. AsListed(id) \in Identify(candidates, Listed)
      BY <2>2, <3>1, IdentifyHits DEF IInv
    <3>3. ASSUME NEW q \in Identify(candidates, Listed) PROVE q = AsListed(id)
      <4>1. PICK t \in 1..Depth, k \in 1..Len(pods) :
              q = AsListed(pods[k]) /\ Hits(t, k) /\ NoneBefore(t)
        BY <3>3, IdentifyHits
      <4>2. t = s
        BY <2>2, <3>1, <4>1 DEF IInv, NoneBefore, Depth
      <4>3. k = j
        BY <2>2, <3>1, <4>1, <4>2, AtMostOne DEF IInv, Hits
      <4> QED BY <2>2, <4>1, <4>3
    <3>4. Identify(candidates, Listed) = {AsListed(id)}
      BY <3>2, <3>3
    <3> QED BY <3>1, <3>4 DEF AsListed
  <2> QED BY <2>1, <2>2 DEF IInv
<1> QED BY <1>1, InitOK, StepOK, PTL DEF Spec
=============================================================================
