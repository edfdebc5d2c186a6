----------------------------- MODULE PodLookup -----------------------------
(***************************************************************************)
(* LookupPod and the loop over candidate cgroup names that calls it        *)
(* (pkg/oomtracer/oomtracer.go), as operators without state.               *)
(*                                                                         *)
(* A cgroup name is kept as a record [kind, uid, cid].  Its kind says how  *)
(* the kubelet or the container runtime spelled it, which is all that the  *)
(* two regular expressions of the source can tell:                         *)
(*   "scope"   cri-containerd-<cid>.scope, or the bare <cid>               *)
(*   "slice"   kubepods-<qos>-pod<uid>.slice, where systemd forced every   *)
(*             "-" of the UID to be written "_"                            *)
(*   "dir"     pod<uid>, the spelling of the cgroupfs driver               *)
(*   "libpod"  libpod-<cid>.scope, a container that podman started         *)
(*   "plain"   a name that neither expression matches: kubepods.slice,     *)
(*             system.slice, a service, a cgroup made inside a container   *)
(*   "empty"   the empty string: a names[] cell the probe left zeroed      *)
(***************************************************************************)
EXTENDS Naturals

CONSTANT NoMatch       \* FindStringSubmatch returned nil

ASSUME NoMatchAssumption == NoMatch \notin [uid: Nat, sep: {"_", "-"}]

Kinds == {"scope", "slice", "dir", "libpod", "plain", "empty"}

Depth == 4             \* cells of event.names

(***************************************************************************)
(* The submatch of podPattern is a UID with the separator it is spelled    *)
(* with.  UID 0 stands for text that is no pod's UID: "libpod-<cid>" also  *)
(* matches pod([a-f0-9_-]+), and what it captures is "-<cid>".             *)
(***************************************************************************)
podPattern(s) ==
  CASE s.kind = "slice"  -> [uid |-> s.uid, sep |-> "_"]
    [] s.kind = "dir"    -> [uid |-> s.uid, sep |-> "-"]
    [] s.kind = "libpod" -> [uid |-> 0, sep |-> "-"]
    [] OTHER             -> NoMatch

cidPattern(s) == IF s.kind \in {"scope", "libpod"} THEN s.cid ELSE NoMatch

ReplaceAllSkipped(m) == m      \* Mutant: compared as it is spelled.

\* strings.ReplaceAll(m, "_", "-")
ReplaceAll(m) == [m EXCEPT !.sep = "-"]

\* The UID as the API server spells it.
APISpelling(uid) == [uid |-> uid, sep |-> "-"]

(***************************************************************************)
(* The body of LookupPod's loop for one pod.  pod.cids are the container   *)
(* IDs of its container, init container and ephemeral container statuses,  *)
(* which the source scans with the same test one list after the other.  A  *)
(* name that matches podPattern is never tried as a container ID.          *)
(***************************************************************************)
MatchesUnchecked(s, pod) ==      \* Mutant: any name is tried as an ID.
  \/ podPattern(s) = NoMatch
  \/ ReplaceAll(podPattern(s)) = APISpelling(pod.uid)

Matches(s, pod) ==
  \/ /\ podPattern(s) # NoMatch
     /\ ReplaceAll(podPattern(s)) = APISpelling(pod.uid)
  \/ /\ podPattern(s) = NoMatch
     /\ cidPattern(s) # NoMatch
     /\ cidPattern(s) \in pod.cids

\* The pods LookupPod(s, pods) may return, over all orders of the list.
LookupPod(s, pods) == {p \in pods : Matches(s, p)}

(***************************************************************************)
(* The candidate loop: names[1] is the victim's own cgroup, names[2] its   *)
(* parent and so on; the first name that finds a pod decides.  An empty    *)
(* set of answers is the nil id.                                           *)
(***************************************************************************)
Identify(names, pods) ==
  {p \in pods : \E i \in 1..Depth :
      /\ names[i].kind # "empty"
      /\ p \in LookupPod(names[i], pods)
      /\ \A j \in 1..(i-1) :
           names[j].kind # "empty" => LookupPod(names[j], pods) = {}}
=============================================================================
