------------------------------ MODULE OOMKill ------------------------------
(***************************************************************************)
(* The kprobe on oom_kill_process (pkg/ebpf/bpf/oomkill.c) on every CPU,   *)
(* the ring buffer map it shares with the agent, and the agent's side of   *)
(* it, rd.Read (pkg/oomtracer/oomtracer.go).                               *)
(*                                                                         *)
(* The ring is kept as the sequence of all records ever reserved; records  *)
(* up to cons have been read and their room is free again.  A record is    *)
(* busy from its reservation to its submission.  The reader looks again    *)
(* and again at a busy record, and sleeps at the end of the ring until a   *)
(* submission notifies it.  Reserved memory holds what an earlier record   *)
(* left there: Junk, which no field of a proper event equals.              *)
(*                                                                         *)
(* A kernfs node is the sequence of its own name and those of its          *)
(* ancestors; NoName is a name pointer that is NULL.                       *)
(***************************************************************************)
EXTENDS Naturals, Sequences

CONSTANTS
  CPU,
  Nodes,          \* kernfs nodes of the cgroups, non-empty sequences of names
  Calls,          \* the oom_controls the probe may be called with
  Capacity,       \* records the ring has room for
  MaxKills,       \* bound on the calls of oom_kill_process
  NULL,           \* the null pointer, and the empty string
  Aborted,        \* the pointer -1, chosen by a scan that was given up
  NoName, Junk

ASSUME BoundAssumption == Capacity \in Nat /\ MaxKills \in Nat

VARIABLES
  at,      \* at[c]: the step of the probe CPU c is at
  oc,      \* oc[c]: the probe's argument, [chosen, memcg]
  e,       \* e[c]: the position of its record
  kn, i,   \* kn[c], i[c]: the node its walk has come to, and the round
  buf,     \* the records, [busy, event]
  log,     \* history: the oom_control each record was reserved for
  cons,    \* records read so far
  reader,  \* "awake", or "asleep" in epoll_wait
  got,     \* history: the events the agent read
  lost     \* history: calls that found no room

probe == <<oc, e, kn, i>>
vars  == <<at, oc, e, kn, i, buf, log, cons, reader, got, lost>>
-----------------------------------------------------------------------------
Depth == 4

\* What the probe follows pointers to: a task with its cgroup in the default
\* hierarchy, a memory cgroup, and the probe's argument.
Cgroup    == [kn: Nodes] \cup {NULL}
Task      == [cgroups: [dfl_cgrp: Cgroup]]
MemCgroup == [css_cgroup: Cgroup]

OomControl == [chosen: Task \cup {NULL, Aborted}, memcg: MemCgroup \cup {NULL}]

ASSUME CallsAssumption == Calls \subseteq OomControl

Names == UNION {{n[k] : k \in 1..Len(n)} : n \in Nodes}

ASSUME NodesAssumption == Nodes \subseteq Seq(Names) \ {<<>>}

\* NULL and -1 point to nothing: not to a task, a css_set, a cgroup, a memory
\* cgroup, a node or an ancestor of one.
ASSUME PointerAssumption ==
  /\ NULL # Aborted
  /\ \A p \in {NULL, Aborted} :
       p \notin Task \cup [dfl_cgrp: Cgroup] \cup [kn: Nodes] \cup MemCgroup
  /\ \A n \in Nodes : \A k \in 1..Len(n) : SubSeq(n, k, Len(n)) # NULL

\* bpf_core_read: at an address that cannot be read, bpf_probe_read_kernel
\* fails and clears what it would have filled.
ReadField(p, f) == IF p \in {NULL, Aborted} THEN NULL ELSE p[f]

\* BPF_CORE_READ: the fields of a path, each read through the pointer the
\* one before it held.
CoreRead(p, path) ==
  LET t[k \in 0..Len(path)] == IF k = 0 THEN p ELSE ReadField(t[k - 1], path[k])
  IN  t[Len(path)]

Event == [victim: Task \cup {NULL, Junk}, global_oom: BOOLEAN \cup {Junk},
          names: [1..Depth -> Names \cup {NULL, Junk}]]

Blank(x, b) == [victim |-> x, global_oom |-> b, names |-> [k \in 1..Depth |-> x]]

Init ==
  /\ at = [c \in CPU |-> "idle"]
  /\ oc = [c \in CPU |-> NULL] /\ e = [c \in CPU |-> 0]
  /\ kn = [c \in CPU |-> NULL] /\ i = [c \in CPU |-> 1]
  /\ buf = <<>> /\ log = <<>> /\ cons = 0 /\ reader = "awake"
  /\ got = <<>> /\ lost = 0

Goto(c, l) == at' = [at EXCEPT ![c] = l]

HasRoomForOneMore == Len(buf) - cons <= Capacity    \* Mutant: off by one.

HasRoom == Len(buf) - cons < Capacity

\* bpf_ringbuf_reserve: a record, or none and the probe returns.
Reserve(c, o) ==
  /\ at[c] = "idle" /\ Len(buf) + lost < MaxKills
  /\ \/ /\ HasRoom
        /\ buf' = Append(buf, [busy |-> TRUE, event |-> Blank(Junk, Junk)])
        /\ log' = Append(log, o)
        /\ oc' = [oc EXCEPT ![c] = o]
        /\ e' = [e EXCEPT ![c] = Len(buf) + 1]
        /\ Goto(c, "clear")
        /\ UNCHANGED lost
     \/ /\ ~HasRoom
        /\ lost' = lost + 1
        /\ UNCHANGED <<at, oc, e, buf, log>>
  /\ UNCHANGED <<kn, i, cons, reader, got>>

Clear(c) ==
  /\ at[c] = "clear" /\ Goto(c, "fill")
  /\ buf' = [buf EXCEPT ![e[c]].event = Blank(NULL, FALSE)]
  /\ UNCHANGED <<probe, log, cons, reader, got, lost>>

StartNodeElseMemcg(o) ==     \* Mutant: falls back on memcg if dcg is NULL.
  LET dcg == CoreRead(o.chosen, <<"cgroups", "dfl_cgrp">>)
  IN  CoreRead(IF dcg # NULL THEN dcg ELSE CoreRead(o.memcg, <<"css_cgroup">>), <<"kn">>)

(***************************************************************************)
(* The walk starts at the victim's cgroup in the default hierarchy, or at  *)
(* the memory cgroup if there is no victim; the pointer -1 is a victim.    *)
(***************************************************************************)
StartNode(o) ==
  LET cg == IF o.chosen # NULL THEN CoreRead(o.chosen, <<"cgroups", "dfl_cgrp">>)
            ELSE CoreRead(o.memcg, <<"css_cgroup">>)
  IN  CoreRead(cg, <<"kn">>)

\* Trigger, victim and global_oom, and the start of the walk.
Fill(c) ==
  /\ at[c] = "fill" /\ Goto(c, "walk")
  /\ buf' = [buf EXCEPT
       ![e[c]].event.victim = IF oc[c].chosen = Aborted THEN @ ELSE oc[c].chosen,
       ![e[c]].event.global_oom = (oc[c].memcg = NULL)]
  /\ kn' = [kn EXCEPT ![c] = StartNode(oc[c])]
  /\ i' = [i EXCEPT ![c] = 1]
  /\ UNCHANGED <<oc, e, log, cons, reader, got, lost>>

Parent(node) == IF Len(node) = 1 THEN NULL ELSE Tail(node)

\* One round of the unrolled loop.
Walk(c) ==
  /\ at[c] = "walk"
  /\ kn[c] # NULL /\ i[c] <= Depth
  /\ buf' = [buf EXCEPT ![e[c]].event.names[i[c]] =
               IF Head(kn[c]) = NoName THEN @ ELSE Head(kn[c])]
  /\ kn' = [kn EXCEPT ![c] = Parent(kn[c])]
  /\ i' = [i EXCEPT ![c] = @ + 1]
  /\ UNCHANGED <<at, oc, e, log, cons, reader, got, lost>>

\* The loop is left, past the root or after four names.
Leaves(c) == kn[c] = NULL \/ i[c] > Depth

SubmitSilently(c) ==        \* Mutant: submits with BPF_RB_NO_WAKEUP.
  /\ at[c] = "walk" /\ Leaves(c) /\ Goto(c, "idle")
  /\ buf' = [buf EXCEPT ![e[c]].busy = FALSE]
  /\ UNCHANGED <<probe, log, cons, reader, got, lost>>

(***************************************************************************)
(* bpf_ringbuf_submit with flags 0: an adaptive notification, which is     *)
(* sent only if the reader has consumed all that comes before the record.  *)
(***************************************************************************)
Submit(c) ==
  /\ at[c] = "walk" /\ Leaves(c) /\ Goto(c, "idle")
  /\ buf' = [buf EXCEPT ![e[c]].busy = FALSE]
  /\ reader' = IF e[c] = cons + 1 THEN "awake" ELSE reader
  /\ UNCHANGED <<probe, log, cons, got, lost>>

\* rd.Read: the oldest record, once it is submitted.
Read ==
  /\ reader = "awake" /\ cons < Len(buf) /\ ~buf[cons + 1].busy
  /\ got' = Append(got, buf[cons + 1].event)
  /\ cons' = cons + 1
  /\ UNCHANGED <<at, probe, buf, log, reader, lost>>

\* rd.Read at the end of the ring: epoll_wait finds no record and blocks.
Sleep ==
  /\ reader = "awake" /\ reader' = "asleep"
  /\ cons = Len(buf)
  /\ UNCHANGED <<at, probe, buf, log, cons, got, lost>>

Probe(c) == Clear(c) \/ Fill(c) \/ Walk(c) \/ Submit(c)

Next == \/ \E c \in CPU : Probe(c) \/ \E o \in Calls : Reserve(c, o)
        \/ Read \/ Sleep

Spec == Init /\ [][Next]_vars

\* A probe that runs ends (it cannot sleep or loop), and the agent reads on.
FairSpec == Spec /\ (\A c \in CPU : WF_vars(Probe(c))) /\ WF_vars(Read)
-----------------------------------------------------------------------------
TypeOK ==
  /\ at \in [CPU -> {"idle", "clear", "fill", "walk"}]
  /\ oc \in [CPU -> OomControl \cup {NULL}]
  /\ e \in [CPU -> 0..Len(buf)] /\ i \in [CPU -> 1..(Depth + 1)]
  /\ buf \in Seq([busy: BOOLEAN, event: Event])
  /\ log \in Seq(OomControl) /\ Len(log) = Len(buf)
  /\ cons \in 0..Len(buf) /\ Len(buf) - cons <= Capacity
  /\ reader \in {"awake", "asleep"}
  /\ got \in Seq(Event) /\ lost \in Nat

(***************************************************************************)
(* The event a kill should be reported with: the names of the victim's     *)
(* cgroup and its first three ancestors, and empty strings past the root.  *)
(***************************************************************************)
NamesOf(node) == [k \in 1..Depth |->
  IF node = NULL \/ k > Len(node) \/ node[k] = NoName THEN NULL ELSE node[k]]

\* The cgroup to blame: the victim's if there is one, else the one at its limit.
Culprit(o) ==
  CASE o.chosen \in Task -> o.chosen.cgroups.dfl_cgrp
    [] o.chosen = NULL /\ o.memcg # NULL -> o.memcg.css_cgroup
    [] OTHER -> NULL

Reported(o) ==
  [victim     |-> IF o.chosen \in Task THEN o.chosen ELSE NULL,
   global_oom |-> o.memcg = NULL,
   names      |-> NamesOf(IF Culprit(o) = NULL THEN NULL ELSE Culprit(o).kn)]

(***************************************************************************)
(* The agent reads the events of the kills for which there was room, in    *)
(* the order in which the probes reserved them, each complete and with     *)
(* nothing of an earlier one in it (oomkill.c:32-79).                      *)
(***************************************************************************)
ReadsWhatHappened ==
  Len(got) = cons /\ \A k \in 1..cons : got[k] = Reported(log[k])

(***************************************************************************)
(* The ring buffer is a bounded queue to which a kill is added the moment  *)
(* its record is reserved, whenever it is submitted.                       *)
(***************************************************************************)
Queue == INSTANCE EventQueue WITH
  Events <- {Reported(o) : o \in OomControl},
  queue  <- [k \in 1..(Len(buf) - cons) |-> Reported(log[cons + k])]

IsEventQueue == Queue!Spec

(***************************************************************************)
(* Every record reserved is read in the end (oomkill.c:32, 79).  No CPU    *)
(* leaves a busy record behind, and none is left to a reader that sleeps:  *)
(* CPUs may submit in another order than they reserve, and a submission    *)
(* ahead of the oldest busy record notifies nobody; the one that wakes the *)
(* reader is that of the record it has come to.                            *)
(***************************************************************************)
AllRead == \A k \in 1..MaxKills : Len(buf) >= k ~> cons >= k
=============================================================================
