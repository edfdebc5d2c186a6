--------------------------- MODULE OOMKillProofs ---------------------------
(***************************************************************************)
(* Proofs about OOMKill, for every number of CPUs, every size of the ring  *)
(* buffer and every set of cgroups.                                        *)
(***************************************************************************)
EXTENDS OOMKill, TLAPS

\* BPF_CORE_READ of one field.
LEMMA CoreReadOne ==
  ASSUME NEW p, NEW a
  PROVE  CoreRead(p, <<a>>) = ReadField(p, a)
<1> DEFINE F(f) == [k \in 0..1 |-> IF k = 0 THEN p ELSE ReadField(f[k - 1], <<a>>[k])]
           g == [k \in 0..1 |-> IF k = 0 THEN p ELSE ReadField(p, a)]
           t == CHOOSE f : f = F(f)
<1>1. CoreRead(p, <<a>>) = t[1]
  BY DEF CoreRead
<1>2. g = F(g)
  OBVIOUS
<1>3. t = F(t)
  <2> HIDE DEF F, g
  <2> QED BY <1>2
<1> HIDE DEF t
<1>4. t[0] = p /\ t[1] = ReadField(t[0], a)
  BY <1>3
<1> QED BY <1>1, <1>4

\* BPF_CORE_READ of a path of two fields, as from a task to its cgroup.
LEMMA CoreReadTwo ==
  ASSUME NEW p, NEW a, NEW b
  PROVE  CoreRead(p, <<a, b>>) = ReadField(ReadField(p, a), b)
<1> DEFINE F(f) == [k \in 0..2 |-> IF k = 0 THEN p ELSE ReadField(f[k - 1], <<a, b>>[k])]
           g == [k \in 0..2 |-> IF k = 0 THEN p
                                ELSE IF k = 1 THEN ReadField(p, a)
                                ELSE ReadField(ReadField(p, a), b)]
           t == CHOOSE f : f = F(f)
<1>1. CoreRead(p, <<a, b>>) = t[2]
  BY DEF CoreRead
<1>2. g = F(g)
  OBVIOUS
<1>3. t = F(t)
  <2> HIDE DEF F, g
  <2> QED BY <1>2
<1> HIDE DEF t
<1>4. t[0] = p /\ t[1] = ReadField(t[0], a) /\ t[2] = ReadField(t[1], b)
  BY <1>3
<1> QED BY <1>1, <1>4

-----------------------------------------------------------------------------
\* Where the walk starts, and where it is in round j.
StartOf(o) == IF Culprit(o) = NULL THEN NULL ELSE Culprit(o).kn

Ancestor(node, j) ==
  IF node = NULL \/ j > Len(node) THEN NULL ELSE SubSeq(node, j, Len(node))

\* The event before round j of the walk.
Partly(o, j) ==
  [victim     |-> Reported(o).victim,
   global_oom |-> Reported(o).global_oom,
   names      |-> [k \in 1..Depth |-> IF k < j THEN Reported(o).names[k] ELSE NULL]]

(***************************************************************************)
(* The inductive invariant.  A CPU in the probe owns a busy record that no *)
(* other CPU writes and the reader has not come to; what is in the record  *)
(* is what the probe's step says; and a record that is not busy is         *)
(* complete.                                                               *)
(***************************************************************************)
Owns(c) ==
  /\ e[c] \in (cons + 1)..Len(buf)
  /\ buf[e[c]].busy /\ oc[c] \in OomControl /\ log[e[c]] = oc[c]

Progress(c) ==
  /\ at[c] = "fill" => buf[e[c]].event = Blank(NULL, FALSE)
  /\ at[c] = "walk" => /\ buf[e[c]].event = Partly(oc[c], i[c])
                       /\ kn[c] = Ancestor(StartOf(oc[c]), i[c])

Apart == \A c \in CPU, d \in CPU :
  at[c] # "idle" /\ at[d] # "idle" /\ e[c] = e[d] => c = d

Complete == \A k \in 1..Len(buf) : ~buf[k].busy => buf[k].event = Reported(log[k])

IInv ==
  /\ TypeOK /\ kn \in [CPU -> {NULL} \cup Seq(Names)]
  /\ \A c \in CPU : at[c] # "idle" => Owns(c) /\ Progress(c)
  /\ Apart /\ Complete
  /\ \A k \in 1..cons : ~buf[k].busy
  /\ ReadsWhatHappened

\* The walk starts at the node of the cgroup to blame, through whichever
\* pointers the probe follows to it.
LEMMA StartsAtCulprit ==
  ASSUME NEW o \in OomControl
  PROVE  StartNode(o) = StartOf(o) /\ StartOf(o) \in Nodes \cup {NULL}
<1>1. StartNode(o) =
        IF o.chosen # NULL
        THEN ReadField(ReadField(ReadField(o.chosen, "cgroups"), "dfl_cgrp"), "kn")
        ELSE ReadField(ReadField(o.memcg, "css_cgroup"), "kn")
  BY CoreReadOne, CoreReadTwo DEF StartNode
<1>2. ASSUME NEW cg \in Cgroup
      PROVE  /\ ReadField(cg, "kn") = IF cg = NULL THEN NULL ELSE cg.kn
             /\ ReadField(cg, "kn") \in Nodes \cup {NULL}
  BY PointerAssumption DEF ReadField, Cgroup
<1>3. CASE o.chosen \in Task
  <2>1. /\ o.chosen # NULL /\ o.chosen.cgroups.dfl_cgrp \in Cgroup
        /\ ReadField(ReadField(o.chosen, "cgroups"), "dfl_cgrp") = o.chosen.cgroups.dfl_cgrp
    BY <1>3, PointerAssumption DEF ReadField, Task
  <2>2. Culprit(o) = o.chosen.cgroups.dfl_cgrp
    BY <1>3, <2>1 DEF Culprit
  <2> QED BY <1>1, <1>2, <2>1, <2>2 DEF StartOf
<1>4. CASE o.chosen = NULL /\ o.memcg # NULL
  <2>1. /\ o.memcg \in MemCgroup /\ o.memcg.css_cgroup \in Cgroup
        /\ ReadField(o.memcg, "css_cgroup") = o.memcg.css_cgroup
    BY <1>4, PointerAssumption DEF ReadField, OomControl, MemCgroup
  <2>2. Culprit(o) = o.memcg.css_cgroup
    BY <1>4, PointerAssumption DEF Culprit
  <2> QED BY <1>1, <1>2, <1>4, <2>1, <2>2 DEF StartOf
<1>5. CASE o.chosen = NULL /\ o.memcg = NULL
  <2>1. Culprit(o) = NULL
    BY <1>5, PointerAssumption DEF Culprit
  <2> QED BY <1>1, <1>5, <2>1 DEF StartOf, ReadField
<1>6. CASE o.chosen = Aborted
  <2>1. Culprit(o) = NULL
    BY <1>6, PointerAssumption DEF Culprit
  <2> QED BY <1>1, <1>6, <2>1, PointerAssumption DEF StartOf, ReadField
<1> QED BY <1>3, <1>4, <1>5, <1>6 DEF OomControl

\* What the node of a cgroup and its ancestors are named.
LEMMA NamesOfType ==
  ASSUME NEW node \in Nodes \cup {NULL}
  PROVE  NamesOf(node) \in [1..Depth -> Names \cup {NULL}]
<1>1. ASSUME NEW k \in 1..Depth, node # NULL, k <= Len(node)
      PROVE  node[k] \in Names
  BY <1>1, NodesAssumption DEF Depth
<1> QED BY <1>1 DEF NamesOf

\* The event of a kill is an event, with nothing of an earlier one in it.
LEMMA ReportedType ==
  ASSUME NEW o \in OomControl
  PROVE  /\ Reported(o) \in Event
         /\ Reported(o).victim = IF o.chosen \in Task THEN o.chosen ELSE NULL
         /\ Reported(o).global_oom = (o.memcg = NULL)
         /\ Reported(o).names = NamesOf(StartOf(o))
<1>1. NamesOf(StartOf(o)) \in [1..Depth -> Names \cup {NULL, Junk}]
  BY StartsAtCulprit, NamesOfType
<1>2. Reported(o) = [victim |-> IF o.chosen \in Task THEN o.chosen ELSE NULL,
                     global_oom |-> o.memcg = NULL, names |-> NamesOf(StartOf(o))]
  BY DEF Reported, StartOf
<1> QED BY <1>1, <1>2 DEF Event

Record == [busy: BOOLEAN, event: Event]

\* The record a probe owns.
LEMMA OwnRecord ==
  ASSUME IInv, NEW c \in CPU, at[c] # "idle"
  PROVE  /\ TypeOK /\ Progress(c)
         /\ e[c] \in 1..Len(buf) /\ e[c] > cons
         /\ buf[e[c]] \in Record /\ buf[e[c]].busy
         /\ oc[c] \in OomControl /\ log[e[c]] = oc[c]
         /\ i[c] \in 1..(Depth + 1)
<1>1. TypeOK /\ Owns(c) /\ Progress(c)
  BY DEF IInv
<1>2. e[c] \in 1..Len(buf) /\ e[c] > cons
  BY <1>1 DEF Owns, TypeOK
<1>3. buf \in Seq(Record)
  BY <1>1 DEF TypeOK, Record
<1>4. buf[e[c]] \in Record
  BY <1>2, <1>3
<1>5. i[c] \in 1..(Depth + 1)
  BY <1>1 DEF TypeOK
<1> QED BY <1>1, <1>2, <1>4, <1>5 DEF Owns

\* What a probe writes to its record is nobody else's business.
LEMMA Written ==
  ASSUME IInv, NEW c \in CPU, at[c] # "idle", NEW r \in Record,
         buf' = [buf EXCEPT ![e[c]] = r],
         NEW l \in {"idle", "clear", "fill", "walk"}, at' = [at EXCEPT ![c] = l],
         UNCHANGED <<oc, e, log, cons, got, lost>>, reader' \in {"awake", "asleep"},
         i' \in [CPU -> 1..(Depth + 1)], kn' \in [CPU -> {NULL} \cup Seq(Names)],
         \A d \in CPU : d # c => kn'[d] = kn[d] /\ i'[d] = i[d],
         IF l = "idle" THEN ~r.busy /\ r.event = Reported(oc[c]) ELSE r.busy,
         l = "fill" => r.event = Blank(NULL, FALSE),
         l = "walk" => /\ r.event = Partly(oc[c], i'[c])
                       /\ kn'[c] = Ancestor(StartOf(oc[c]), i'[c])
  PROVE  IInv'
<1>1. /\ TypeOK /\ Apart /\ Complete /\ ReadsWhatHappened
      /\ \A d \in CPU : at[d] # "idle" => Owns(d) /\ Progress(d)
      /\ \A k \in 1..cons : ~buf[k].busy
  BY DEF IInv
<1>2. /\ e[c] \in (cons + 1)..Len(buf) /\ e[c] \in 1..Len(buf)
      /\ oc[c] \in OomControl /\ log[e[c]] = oc[c]
  BY <1>1 DEF Owns, TypeOK
<1>3. /\ buf' \in Seq(Record) /\ Len(buf') = Len(buf)
      /\ \A k \in 1..Len(buf) : buf'[k] = IF k = e[c] THEN r ELSE buf[k]
  BY <1>1, <1>2 DEF TypeOK, Record
<1>4. at' \in [CPU -> {"idle", "clear", "fill", "walk"}]
      /\ \A d \in CPU : at'[d] = IF d = c THEN l ELSE at[d]
  BY <1>1 DEF TypeOK
<1>5. TypeOK'
  BY <1>1, <1>3, <1>4 DEF TypeOK, Record
<1>6. ASSUME NEW d \in CPU, at'[d] # "idle" PROVE (Owns(d) /\ Progress(d))'
  <2>1. CASE d = c
    <3>1. buf'[e[c]] = r /\ at'[c] = l /\ l # "idle" /\ r.busy
      BY <1>2, <1>3, <1>4, <1>6, <2>1
    <3>2. Owns(c)'
      BY <1>2, <1>3, <3>1 DEF Owns
    <3>3. Progress(c)'
      BY <3>1, Zenon DEF Progress
    <3> QED BY <2>1, <3>2, <3>3
  <2>2. CASE d # c
    <3>1. at'[d] = at[d] /\ at[d] # "idle" /\ kn'[d] = kn[d] /\ i'[d] = i[d]
      BY <1>4, <1>6, <2>2
    <3>2. Owns(d) /\ Progress(d) /\ e[d] # e[c]
      BY <1>1, <2>2, <3>1 DEF Apart
    <3>3. e[d] \in 1..Len(buf)
      BY <1>1, <3>2 DEF Owns, TypeOK
    <3>4. buf'[e[d]] = buf[e[d]]
      BY <1>3, <3>2, <3>3
    <3> QED BY <1>3, <3>1, <3>2, <3>4, Zenon DEF Owns, Progress
  <2> QED BY <2>1, <2>2
<1>7. Apart'
  <2> SUFFICES ASSUME NEW x \in CPU, NEW y \in CPU,
                      at'[x] # "idle", at'[y] # "idle", e[x] = e[y]
               PROVE  x = y
    BY DEF Apart
  <2>1. at[x] # "idle" /\ at[y] # "idle"
    BY <1>4
  <2> QED BY <1>1, <2>1 DEF Apart
<1>8. Complete'
  BY <1>1, <1>2, <1>3 DEF Complete
<1>9. \A k \in 1..cons' : ~buf'[k].busy
  BY <1>1, <1>2, <1>3 DEF TypeOK
<1>10. ReadsWhatHappened'
  BY <1>1 DEF ReadsWhatHappened
<1> QED BY <1>5, <1>6, <1>7, <1>8, <1>9, <1>10 DEF IInv

\* What memset leaves is an event: empty strings and zeroes.
LEMMA BlankType == Blank(NULL, FALSE) \in Event
BY DEF Blank, Event

\* memset leaves nothing in the record of what was there before.
LEMMA ClearOK ==
  ASSUME IInv, NEW c \in CPU, Clear(c)
  PROVE  IInv'
<1> DEFINE r == [buf[e[c]] EXCEPT !.event = Blank(NULL, FALSE)]
<1>1. at[c] # "idle"
  BY DEF Clear
<1>2. TypeOK /\ buf[e[c]] \in Record /\ buf[e[c]].busy
  BY <1>1, OwnRecord
<1>3. r \in Record /\ r.busy /\ r.event = Blank(NULL, FALSE)
  BY <1>2, BlankType, Zenon DEF Record
<1>4. buf' = [buf EXCEPT ![e[c]] = r]
  BY Zenon DEF Clear
<1>5. i' \in [CPU -> 1..(Depth + 1)] /\ kn' \in [CPU -> {NULL} \cup Seq(Names)]
      /\ reader' \in {"awake", "asleep"}
  BY <1>2 DEF Clear, probe, TypeOK, IInv
<1> HIDE DEF r
<1> QED BY <1>1, <1>3, <1>4, <1>5, Written, Zenon DEF Clear, Goto, probe

\* bpf_ringbuf_submit: when the walk is left, past the root or after four
\* names, the event in the record is the one to report.
LEMMA SubmitOK ==
  ASSUME IInv, NEW c \in CPU, Submit(c)
  PROVE  IInv'
<1> DEFINE r == [buf[e[c]] EXCEPT !.busy = FALSE]
<1>1. at[c] = "walk"
  BY DEF Submit
<1>2. /\ TypeOK /\ Progress(c) /\ buf[e[c]] \in Record
      /\ oc[c] \in OomControl /\ i[c] \in 1..(Depth + 1)
  BY <1>1, OwnRecord
<1>3. r \in Record /\ ~r.busy /\ r.event = Partly(oc[c], i[c])
  BY <1>1, <1>2, Zenon DEF Record, Progress
<1>4. Partly(oc[c], i[c]) = Reported(oc[c])
  <2> DEFINE o == oc[c]
             n == StartOf(o)
  <2>1. /\ Reported(o) \in Event /\ Reported(o).names = NamesOf(n)
        /\ n \in Nodes \cup {NULL}
    BY <1>2, ReportedType, StartsAtCulprit
  <2>2. \A k \in 1..Depth : k >= i[c] => NamesOf(n)[k] = NULL
    <3>1. CASE i[c] > Depth
      BY <1>2, <3>1 DEF Depth
    <3>2. CASE kn[c] = NULL
      <4>1. n = NULL \/ i[c] > Len(n)
        <5> SUFFICES ASSUME n # NULL, i[c] <= Len(n) PROVE FALSE
          BY <1>2, <2>1, NodesAssumption DEF Depth
        <5>1. n \in Nodes /\ i[c] \in 1..Len(n) /\ ~(n = NULL \/ i[c] > Len(n))
          BY <1>2, <2>1, NodesAssumption DEF Depth
        <5>2. kn[c] = Ancestor(n, i[c])
          BY <1>1, <1>2 DEF Progress
        <5>3. Ancestor(n, i[c]) = SubSeq(n, i[c], Len(n))
          BY <5>1, Zenon DEF Ancestor
        <5> QED BY <3>2, <5>1, <5>2, <5>3, PointerAssumption, Zenon
      <4>2. n # NULL => Len(n) \in Nat
        BY <2>1, NodesAssumption
      <4> QED BY <1>2, <4>1, <4>2 DEF NamesOf, Depth
    <3> QED BY <3>1, <3>2 DEF Submit, Leaves
  <2>3. \A k \in 1..Depth : Partly(o, i[c]).names[k] = Reported(o).names[k]
    BY <1>2, <2>1, <2>2 DEF Partly, Depth
  <2>4. Partly(o, i[c]).names = Reported(o).names
    BY <2>1, <2>3 DEF Partly, NamesOf
  <2> QED BY <2>1, <2>4, Zenon DEF Partly, Event
<1>5. buf' = [buf EXCEPT ![e[c]] = r]
  BY Zenon DEF Submit
<1>6. i' \in [CPU -> 1..(Depth + 1)] /\ kn' \in [CPU -> {NULL} \cup Seq(Names)]
      /\ reader' \in {"awake", "asleep"}
  BY <1>2 DEF Submit, probe, TypeOK, IInv
<1> HIDE DEF r
<1> QED BY <1>1, <1>3, <1>4, <1>5, <1>6, Written, Zenon DEF Submit, Goto, probe

\* Trigger, victim and global_oom are written beside names still cleared, and
\* the walk begins at the cgroup to blame.
LEMMA FillOK ==
  ASSUME IInv, NEW c \in CPU, Fill(c)
  PROVE  IInv'
<1> DEFINE b == buf[e[c]]
           o == oc[c]
           v == IF o.chosen = Aborted THEN b.event.victim ELSE o.chosen
           x == [b.event EXCEPT !.victim = v]
           y == [x EXCEPT !.global_oom = (o.memcg = NULL)]
           b1 == [b EXCEPT !.event = x]
           r == [b1 EXCEPT !.event = y]
<1>1. at[c] = "fill"
  BY DEF Fill
<1>2. /\ TypeOK /\ Progress(c) /\ b \in Record /\ b.busy /\ e[c] \in 1..Len(buf)
      /\ o \in OomControl
  BY <1>1, OwnRecord
<1>3. buf' = [buf EXCEPT ![e[c]] = r]
  <2>1. buf' = [[buf EXCEPT ![e[c]] = b1] EXCEPT ![e[c]] =
           [[buf EXCEPT ![e[c]] = b1][e[c]] EXCEPT !.event =
             [[buf EXCEPT ![e[c]] = b1][e[c]].event EXCEPT !.global_oom = (o.memcg = NULL)]]]
    BY DEF Fill
  <2> QED BY <1>2, <2>1, Zenon DEF TypeOK, Record
<1>4. r \in Record /\ r.busy /\ r.event = Partly(o, 1)
  <2>1. b.event = Blank(NULL, FALSE)
    BY <1>1, <1>2, Zenon DEF Progress
  <2>2. v = Reported(o).victim /\ (o.memcg = NULL) = Reported(o).global_oom
    BY <1>2, <2>1, ReportedType, PointerAssumption DEF Blank, OomControl
  <2>3. Reported(o).victim \in Task \cup {NULL, Junk} /\ Reported(o).global_oom \in BOOLEAN
    BY <1>2, ReportedType, Zenon
  <2>4. Blank(NULL, FALSE).names = Partly(o, 1).names
    BY DEF Blank, Partly, Depth
  <2>5. /\ Partly(o, 1) \in Event /\ Partly(o, 1).victim = v
        /\ Partly(o, 1).global_oom = (o.memcg = NULL)
        /\ Partly(o, 1).names = b.event.names
    BY <2>1, <2>2, <2>3, <2>4 DEF Partly, Blank, Event
  <2>6. b.event \in Event /\ v \in Task \cup {NULL, Junk} /\ (o.memcg = NULL) \in BOOLEAN
    BY <1>2, <2>2, <2>3 DEF Record
  <2> HIDE DEF v, b, o
  <2>7. /\ x \in Event /\ x.victim = v /\ x.names = b.event.names
    BY <2>6 DEF Event
  <2> HIDE DEF x
  <2>8. /\ y \in Event /\ y.victim = v /\ y.names = b.event.names
        /\ y.global_oom = (o.memcg = NULL)
    BY <2>6, <2>7, Zenon DEF Event
  <2> HIDE DEF y
  <2>9. y = Partly(o, 1)
    BY <2>5, <2>8 DEF Event
  <2>10. b1 \in Record /\ b1.busy = b.busy
    BY <1>2, <2>7, Zenon DEF Record
  <2> HIDE DEF b1
  <2> QED BY <1>2, <2>8, <2>9, <2>10, Zenon DEF Record
<1>5. StartNode(o) = Ancestor(StartOf(o), 1)
  <2>1. StartNode(o) = StartOf(o) /\ StartOf(o) \in Nodes \cup {NULL}
    BY <1>2, StartsAtCulprit
  <2>2. ASSUME NEW n \in Nodes PROVE Ancestor(n, 1) \in {n, NULL} /\ (n # NULL => Ancestor(n, 1) = n)
    BY NodesAssumption DEF Ancestor
  <2>3. Ancestor(NULL, 1) = NULL
    BY DEF Ancestor
  <2> QED BY <2>1, <2>2, <2>3
<1>6. /\ at' = [at EXCEPT ![c] = "walk"]
      /\ kn' = [kn EXCEPT ![c] = StartNode(o)] /\ i' = [i EXCEPT ![c] = 1]
      /\ UNCHANGED <<oc, e, log, cons, reader, got, lost>>
  BY DEF Fill, Goto
<1>7. StartNode(o) \in {NULL} \cup Seq(Names)
  BY <1>2, StartsAtCulprit, NodesAssumption
<1>8. /\ i' \in [CPU -> 1..(Depth + 1)] /\ kn' \in [CPU -> {NULL} \cup Seq(Names)]
      /\ \A d \in CPU : d # c => kn'[d] = kn[d] /\ i'[d] = i[d]
      /\ i'[c] = 1 /\ kn'[c] = StartNode(o) /\ reader' \in {"awake", "asleep"}
  BY <1>2, <1>6, <1>7 DEF TypeOK, IInv, Depth
<1> HIDE DEF r
<1> QED BY <1>1, <1>3, <1>4, <1>5, <1>6, <1>8, Written, Zenon

\* A round of the walk goes from a node to its parent, or past the root.
LEMMA WalkUp ==
  ASSUME NEW n \in Nodes, NEW j \in 1..Len(n)
  PROVE  /\ Ancestor(n, j) \in Seq(Names) /\ Head(Ancestor(n, j)) = n[j]
         /\ Parent(Ancestor(n, j)) = Ancestor(n, j + 1)
         /\ Ancestor(n, j + 1) \in {NULL} \cup Seq(Names)
<1>1. n \in Seq(Names) /\ Len(n) \in Nat
  BY NodesAssumption
<1>2. n # NULL
  <2>1. SubSeq(n, 1, Len(n)) = n /\ 1 \in 1..Len(n)
    BY <1>1
  <2> QED BY <2>1, PointerAssumption
<1>3. Ancestor(n, j) = SubSeq(n, j, Len(n))
  BY <1>1, <1>2 DEF Ancestor
<1>4. /\ SubSeq(n, j, Len(n)) \in Seq(Names) /\ Len(SubSeq(n, j, Len(n))) = Len(n) - j + 1
      /\ Head(SubSeq(n, j, Len(n))) = n[j]
  BY <1>1
<1>5. CASE j = Len(n)
  BY <1>1, <1>2, <1>3, <1>4, <1>5 DEF Parent, Ancestor
<1>6. CASE j < Len(n)
  <2>1. /\ Tail(SubSeq(n, j, Len(n))) = SubSeq(n, j + 1, Len(n))
        /\ SubSeq(n, j + 1, Len(n)) \in Seq(Names)
    BY <1>1, <1>6
  <2>2. Ancestor(n, j + 1) = SubSeq(n, j + 1, Len(n))
    BY <1>1, <1>2, <1>6 DEF Ancestor
  <2>3. Len(SubSeq(n, j, Len(n))) # 1
    BY <1>1, <1>4, <1>6
  <2>4. Parent(Ancestor(n, j)) = Ancestor(n, j + 1)
    BY <1>3, <2>1, <2>2, <2>3, Zenon DEF Parent
  <2> QED BY <1>3, <1>4, <2>1, <2>2, <2>4, Zenon
<1> QED BY <1>1, <1>5, <1>6

\* An event in the making is an event.
LEMMA PartlyType ==
  ASSUME NEW o \in OomControl, NEW j \in 1..(Depth + 1)
  PROVE  /\ Partly(o, j) \in Event
         /\ Partly(o, j).names = [k \in 1..Depth |-> IF k < j THEN NamesOf(StartOf(o))[k] ELSE NULL]
<1>1. /\ Reported(o) \in Event /\ Reported(o).names = NamesOf(StartOf(o))
  BY ReportedType
<1>2. \A k \in 1..Depth : Reported(o).names[k] \in Names \cup {NULL, Junk}
  BY <1>1, Zenon DEF Event
<1> QED BY <1>1, <1>2 DEF Partly, Event

\* A round of the walk adds the name of its node, and no more.
LEMMA WalkOK ==
  ASSUME IInv, NEW c \in CPU, Walk(c)
  PROVE  IInv'
<1> DEFINE b == buf[e[c]]
           o == oc[c]
           n == StartOf(o)
           j == i[c]
           nm == IF Head(kn[c]) = NoName THEN b.event.names[j] ELSE Head(kn[c])
           y == [b.event EXCEPT !.names = [b.event.names EXCEPT ![j] = nm]]
           r == [b EXCEPT !.event = y]
<1>1. at[c] = "walk" /\ kn[c] # NULL /\ i[c] <= Depth
  BY DEF Walk
<1>2. /\ TypeOK /\ Progress(c) /\ b \in Record /\ b.busy /\ e[c] \in 1..Len(buf)
      /\ o \in OomControl /\ j \in 1..(Depth + 1)
  BY <1>1, OwnRecord
<1>3. j \in 1..Depth /\ j + 1 \in 1..(Depth + 1)
  BY <1>1, <1>2 DEF Depth
<1>4. b.event = Partly(o, j) /\ kn[c] = Ancestor(n, j)
  BY <1>1, <1>2 DEF Progress
<1>5. n \in Nodes /\ n # NULL /\ j \in 1..Len(n)
  <2>1. n \in Nodes \cup {NULL}
    BY <1>2, StartsAtCulprit
  <2>2. ~(n = NULL \/ j > Len(n))
    BY <1>1, <1>4, Zenon DEF Ancestor
  <2> QED BY <1>3, <2>1, <2>2, NodesAssumption DEF Depth
<1>6. Head(kn[c]) = n[j] /\ Parent(kn[c]) = Ancestor(n, j + 1)
      /\ Ancestor(n, j + 1) \in {NULL} \cup Seq(Names)
  BY <1>4, <1>5, WalkUp
<1>7. buf' = [buf EXCEPT ![e[c]] = r]
  BY Zenon DEF Walk
<1>8. /\ kn' = [kn EXCEPT ![c] = Ancestor(n, j + 1)] /\ i' = [i EXCEPT ![c] = j + 1]
      /\ UNCHANGED <<at, oc, e, log, cons, reader, got, lost>>
  BY <1>6 DEF Walk
<1>9. at' = [at EXCEPT ![c] = "walk"]
  BY <1>1, <1>2, <1>8 DEF TypeOK
<1>10. /\ i' \in [CPU -> 1..(Depth + 1)] /\ kn' \in [CPU -> {NULL} \cup Seq(Names)]
       /\ \A d \in CPU : d # c => kn'[d] = kn[d] /\ i'[d] = i[d]
       /\ i'[c] = j + 1 /\ kn'[c] = Ancestor(n, j + 1) /\ reader' \in {"awake", "asleep"}
  BY <1>2, <1>3, <1>6, <1>8 DEF TypeOK, IInv
<1>11. y = Partly(o, j + 1)
  <2>1. /\ Partly(o, j) \in Event /\ Partly(o, j + 1) \in Event
        /\ Partly(o, j).names = [k \in 1..Depth |-> IF k < j THEN NamesOf(n)[k] ELSE NULL]
        /\ Partly(o, j + 1).names
             = [k \in 1..Depth |-> IF k < j + 1 THEN NamesOf(n)[k] ELSE NULL]
    BY <1>2, <1>3, PartlyType
  <2>2. nm = NamesOf(n)[j]
    <3>1. b.event.names[j] = NULL
      BY <1>3, <1>4, <2>1
    <3>2. NamesOf(n)[j] = IF n[j] = NoName THEN NULL ELSE n[j]
      BY <1>3, <1>5, NodesAssumption DEF NamesOf
    <3> QED BY <1>6, <3>1, <3>2
  <2>3. [b.event.names EXCEPT ![j] = nm] = Partly(o, j + 1).names
    <3> HIDE DEF nm, j
    <3> QED BY <1>3, <1>4, <2>1, <2>2 DEF Depth
  <2>4. /\ Partly(o, j + 1).victim = Partly(o, j).victim
        /\ Partly(o, j + 1).global_oom = Partly(o, j).global_oom
    BY DEF Partly
  <2>5. y = [Partly(o, j) EXCEPT !.names = Partly(o, j + 1).names]
    BY <1>4, <2>3
  <2>6. PICK p \in Event : p = Partly(o, j)
    BY <2>1
  <2>7. PICK q \in Event : q = Partly(o, j + 1)
    BY <2>1
  <2> HIDE DEF y
  <2> QED BY <2>4, <2>5, <2>6, <2>7 DEF Event
<1>12. r \in Record /\ r.busy /\ r.event = Partly(o, j + 1)
  <2>1. Partly(o, j + 1) \in Event
    BY <1>2, <1>3, PartlyType, Zenon
  <2> HIDE DEF y
  <2> QED BY <1>2, <1>11, <2>1 DEF Record
<1> HIDE DEF r
<1> QED BY <1>1, <1>7, <1>8, <1>9, <1>10, <1>12, Written, Zenon

\* bpf_ringbuf_reserve: a record of one's own, or none.
LEMMA ReserveOK ==
  ASSUME IInv, NEW c \in CPU, NEW o \in Calls, Reserve(c, o)
  PROVE  IInv'
<1> DEFINE r == [busy |-> TRUE, event |-> Blank(Junk, Junk)]
<1>1. /\ TypeOK /\ Apart /\ Complete /\ ReadsWhatHappened
      /\ kn \in [CPU -> {NULL} \cup Seq(Names)]
      /\ \A d \in CPU : at[d] # "idle" => Owns(d) /\ Progress(d)
      /\ \A k \in 1..cons : ~buf[k].busy
  BY DEF IInv
<1>2. UNCHANGED <<kn, i, cons, reader, got>>
  BY DEF Reserve
<1>3. CASE HasRoom
  <2>1. /\ buf' = Append(buf, r) /\ log' = Append(log, o)
        /\ oc' = [oc EXCEPT ![c] = o] /\ e' = [e EXCEPT ![c] = Len(buf) + 1]
        /\ at' = [at EXCEPT ![c] = "clear"] /\ UNCHANGED lost
    BY <1>3 DEF Reserve, Goto
  <2>2. r \in Record /\ r.busy /\ o \in OomControl
    BY CallsAssumption DEF Record, Event, Blank
  <2> HIDE DEF r
  <2>3. /\ buf \in Seq(Record) /\ Len(buf) \in Nat /\ Len(log) = Len(buf)
        /\ log \in Seq(OomControl) /\ cons \in 0..Len(buf)
    BY <1>1 DEF TypeOK, Record
  <2>4. /\ buf' \in Seq(Record) /\ Len(buf') = Len(buf) + 1
        /\ \A k \in 1..Len(buf) : buf'[k] = buf[k]
        /\ buf'[Len(buf) + 1] = r
    BY <2>1, <2>2, <2>3
  <2>5. /\ log' \in Seq(OomControl) /\ Len(log') = Len(buf')
        /\ \A k \in 1..Len(buf) : log'[k] = log[k]
        /\ log'[Len(buf) + 1] = o
    BY <2>1, <2>2, <2>3, <2>4
  <2>6. /\ at' \in [CPU -> {"idle", "clear", "fill", "walk"}]
        /\ oc' \in [CPU -> OomControl \cup {NULL}]
        /\ e' \in [CPU -> 0..Len(buf')]
        /\ at'[c] = "clear" /\ oc'[c] = o /\ e'[c] = Len(buf) + 1
        /\ \A d \in CPU : d # c => at'[d] = at[d] /\ oc'[d] = oc[d] /\ e'[d] = e[d]
    BY <1>1, <2>1, <2>2, <2>3, <2>4 DEF TypeOK
  <2>7. TypeOK'
    BY <1>1, <1>2, <1>3, <2>1, <2>3, <2>4, <2>5, <2>6, BoundAssumption
      DEF TypeOK, Record, HasRoom
  <2>8. \A d \in CPU : at[d] # "idle" => e[d] \in 1..Len(buf) /\ Owns(d) /\ Progress(d)
    BY <1>1, <2>3 DEF Owns
  <2>9. ASSUME NEW d \in CPU, at'[d] # "idle" PROVE (Owns(d) /\ Progress(d))'
    <3>1. CASE d = c
      <4>1. e'[d] \in (cons' + 1)..Len(buf')
        <5>1. cons' = cons /\ e'[c] = Len(buf) + 1 /\ Len(buf') = Len(buf) + 1
          BY <1>2, <2>4, <2>6
        <5> QED BY <2>3, <3>1, <5>1
      <4>2. /\ at'[d] = "clear" /\ oc'[d] = o /\ buf'[e'[d]] = r /\ log'[e'[d]] = o
        BY <2>4, <2>5, <2>6, <3>1
      <4> QED BY <2>2, <4>1, <4>2 DEF Owns, Progress
    <3>2. CASE d # c
      <4>1. /\ at'[d] = at[d] /\ oc'[d] = oc[d] /\ e'[d] = e[d]
            /\ e[d] \in 1..Len(buf) /\ Owns(d) /\ Progress(d)
        BY <2>6, <2>8, <2>9, <3>2
      <4>2. buf'[e[d]] = buf[e[d]] /\ log'[e[d]] = log[e[d]]
        BY <2>4, <2>5, <4>1
      <4>3. e[d] \in (cons' + 1)..Len(buf')
        <5>1. e[d] \in (cons + 1)..Len(buf)
          BY <4>1 DEF Owns
        <5>2. cons' = cons /\ cons \in Nat /\ Len(buf) \in Nat /\ Len(buf') = Len(buf) + 1
          BY <1>2, <2>3, <2>4
        <5> QED BY <5>1, <5>2
      <4>4. Owns(d)'
        BY <4>1, <4>2, <4>3 DEF Owns
      <4>5. Progress(d)'
        BY <1>2, <4>1, <4>2, Zenon DEF Progress
      <4> QED BY <4>4, <4>5
    <3> QED BY <3>1, <3>2
  <2>10. Apart'
    <3> SUFFICES ASSUME NEW x \in CPU, NEW y \in CPU,
                        at'[x] # "idle", at'[y] # "idle", e'[x] = e'[y]
                 PROVE  x = y
      BY DEF Apart
    <3>1. \A d \in CPU : d # c /\ at'[d] # "idle" => at[d] # "idle" /\ e'[d] < Len(buf) + 1
      BY <2>3, <2>6, <2>8
    <3>2. CASE x # c /\ y # c
      BY <1>1, <2>6, <3>1, <3>2 DEF Apart
    <3> QED BY <2>3, <2>6, <3>1, <3>2
  <2>11. Complete'
    <3> SUFFICES ASSUME NEW k \in 1..Len(buf'), ~buf'[k].busy
                 PROVE  buf'[k].event = Reported(log'[k])
      BY DEF Complete
    <3>1. k \in 1..Len(buf)
      BY <2>2, <2>3, <2>4
    <3>2. buf'[k] = buf[k] /\ log'[k] = log[k]
      BY <2>4, <2>5, <3>1
    <3> QED BY <1>1, <3>1, <3>2 DEF Complete
  <2>12. \A k \in 1..cons' : ~buf'[k].busy
    BY <1>1, <1>2, <2>3, <2>4
  <2>13. ReadsWhatHappened'
    BY <1>1, <1>2, <2>3, <2>5 DEF ReadsWhatHappened
  <2> QED BY <1>1, <1>2, <2>7, <2>9, <2>10, <2>11, <2>12, <2>13 DEF IInv
<1>4. CASE ~HasRoom
  <2>1. UNCHANGED <<at, oc, e, buf, log>> /\ lost' = lost + 1
    BY <1>4 DEF Reserve
  <2>2. TypeOK'
    BY <1>1, <1>2, <2>1 DEF TypeOK
  <2>3. Apart' /\ Complete' /\ ReadsWhatHappened' /\ (\A k \in 1..cons' : ~buf'[k].busy)
    BY <1>1, <1>2, <2>1 DEF Apart, Complete, ReadsWhatHappened
  <2>4. \A d \in CPU : at'[d] # "idle" => (Owns(d) /\ Progress(d))'
    BY <1>1, <1>2, <2>1, Zenon DEF Owns, Progress
  <2> QED BY <1>1, <1>2, <2>2, <2>3, <2>4 DEF IInv
<1> QED BY <1>3, <1>4

\* rd.Read takes a record that is complete and that no probe owns.
LEMMA ReadOK ==
  ASSUME IInv, Read
  PROVE  IInv'
<1>1. /\ TypeOK /\ Apart /\ Complete /\ ReadsWhatHappened
      /\ kn \in [CPU -> {NULL} \cup Seq(Names)]
      /\ \A d \in CPU : at[d] # "idle" => Owns(d) /\ Progress(d)
      /\ \A k \in 1..cons : ~buf[k].busy
  BY DEF IInv
<1>2. /\ cons + 1 \in 1..Len(buf) /\ ~buf[cons + 1].busy
      /\ got' = Append(got, buf[cons + 1].event) /\ cons' = cons + 1
      /\ UNCHANGED <<at, oc, e, kn, i, buf, log, reader, lost>>
  BY <1>1 DEF Read, TypeOK, probe
<1>3. buf[cons + 1].event \in Event /\ buf[cons + 1].event = Reported(log[cons + 1])
  <2>1. buf \in Seq(Record)
    BY <1>1 DEF TypeOK, Record
  <2>2. buf[cons + 1] \in Record
    BY <1>2, <2>1
  <2>3. buf[cons + 1].event = Reported(log[cons + 1])
    BY <1>1, <1>2 DEF Complete
  <2> QED BY <2>2, <2>3 DEF Record
<1>4. /\ got' \in Seq(Event) /\ Len(got') = cons + 1
      /\ got'[cons + 1] = Reported(log[cons + 1])
      /\ \A k \in 1..cons : got'[k] = got[k]
  BY <1>1, <1>2, <1>3 DEF TypeOK, ReadsWhatHappened
<1>5. TypeOK'
  <2>1. cons' \in 0..Len(buf) /\ Len(buf) - cons' <= Capacity
    BY <1>1, <1>2, BoundAssumption DEF TypeOK
  <2> QED BY <1>1, <1>2, <1>4, <2>1 DEF TypeOK
<1>6. ReadsWhatHappened'
  BY <1>1, <1>2, <1>4 DEF ReadsWhatHappened, TypeOK
<1>7. \A k \in 1..cons' : ~buf'[k].busy
  BY <1>1, <1>2 DEF TypeOK
<1>8. ASSUME NEW d \in CPU, at'[d] # "idle" PROVE (Owns(d) /\ Progress(d))'
  <2>1. Owns(d) /\ Progress(d) /\ e[d] # cons + 1
    BY <1>1, <1>2, <1>8 DEF Owns
  <2>2. e[d] \in (cons' + 1)..Len(buf)
    BY <1>1, <1>2, <2>1 DEF Owns, TypeOK
  <2>3. Owns(d)'
    BY <1>2, <2>1, <2>2 DEF Owns
  <2>4. Progress(d)'
    BY <1>2, <2>1, Zenon DEF Progress
  <2> QED BY <2>3, <2>4
<1>9. Apart' /\ Complete'
  BY <1>1, <1>2 DEF Apart, Complete
<1> QED BY <1>1, <1>2, <1>5, <1>6, <1>7, <1>8, <1>9 DEF IInv

\* To sleep is to change nothing of the ring.
LEMMA SleepOK ==
  ASSUME IInv, Sleep
  PROVE  IInv'
<1>1. UNCHANGED <<at, oc, e, kn, i, buf, log, cons, got, lost>> /\ reader' \in {"awake", "asleep"}
  BY DEF Sleep, probe
<1> QED BY <1>1, Zenon DEF IInv, TypeOK, Owns, Progress, Apart, Complete, ReadsWhatHappened

\* Every step of a probe or of the reader keeps the invariant.
LEMMA StepOK == IInv /\ [Next]_vars => IInv'
<1> SUFFICES ASSUME IInv, [Next]_vars PROVE IInv'
  OBVIOUS
<1>1. CASE UNCHANGED vars
  BY <1>1, Zenon DEF IInv, vars, TypeOK, Owns, Progress, Apart, Complete, ReadsWhatHappened
<1> QED BY <1>1, ClearOK, FillOK, WalkOK, SubmitOK, ReserveOK, ReadOK, SleepOK DEF Next, Probe

\* The ring starts empty, with no CPU in the probe.
LEMMA InitOK == Init => IInv
BY BoundAssumption DEF Init, IInv, TypeOK, Apart, Complete, ReadsWhatHappened, Depth

\* And so it holds always.
LEMMA Invariance == Spec => []IInv
BY InitOK, StepOK, PTL DEF Spec

(***************************************************************************)
(* The probes and the reader keep to the types, and the records between    *)
(* them never exceed the room in the ring, however many CPUs there are.    *)
(***************************************************************************)
THEOREM ProbeTypes == Spec => []TypeOK
<1>1. IInv => TypeOK
  BY DEF IInv
<1> QED BY <1>1, Invariance, PTL

(***************************************************************************)
(* For any number of CPUs in the probe at once, any size of the ring and   *)
(* any cgroups, the agent reads the kills for which there was room in the  *)
(* order of their reservation, each complete and unmixed (oomkill.c:32-79).*)
(***************************************************************************)
THEOREM ReadsKills == Spec => []ReadsWhatHappened
<1>1. IInv => ReadsWhatHappened
  BY DEF IInv
<1> QED BY <1>1, Invariance, PTL

-----------------------------------------------------------------------------
\* The queue that the ring buffer stands for: what was reserved, from the
\* first record on that has not been read.
Window(l, m) == [k \in 1..(Len(l) - m) |-> Reported(l[m + k])]

Kills == {Reported(o) : o \in OomControl}

\* Sequences are equal if they agree at every position.
LEMMA SameSeq ==
  ASSUME NEW S, NEW s \in Seq(S), NEW t \in Seq(S), Len(s) = Len(t),
         \A k \in 1..Len(s) : s[k] = t[k]
  PROVE  s = t
OBVIOUS

\* The queue holds an event for every record not read yet.
LEMMA WindowType ==
  ASSUME NEW l \in Seq(OomControl), NEW m \in 0..Len(l)
  PROVE  /\ Window(l, m) \in Seq(Kills) /\ Len(Window(l, m)) = Len(l) - m
         /\ \A k \in 1..(Len(l) - m) : Window(l, m)[k] = Reported(l[m + k])
<1>1. Len(l) - m \in Nat /\ m \in Nat /\ Len(l) \in Nat
  OBVIOUS
<1>2. ASSUME NEW k \in 1..(Len(l) - m) PROVE Reported(l[m + k]) \in Kills
  <2>1. m + k \in 1..Len(l)
    BY <1>1
  <2>2. l[m + k] \in OomControl
    BY <2>1
  <2> QED BY <2>2 DEF Kills
<1> QED BY <1>1, <1>2 DEF Window

\* A reservation appends to the queue ...
LEMMA WindowAppend ==
  ASSUME NEW l \in Seq(OomControl), NEW m \in 0..Len(l), NEW o \in OomControl
  PROVE  Window(Append(l, o), m) = Append(Window(l, m), Reported(o))
<1> DEFINE n == Append(l, o)
           w == Window(l, m)
           x == Window(n, m)
           y == Append(w, Reported(o))
<1>1. /\ n \in Seq(OomControl) /\ Len(n) = Len(l) + 1
      /\ m \in 0..Len(n) /\ m \in Nat /\ Len(l) \in Nat
      /\ \A k \in 1..Len(l) : n[k] = l[k]
      /\ n[Len(l) + 1] = o
  OBVIOUS
<1> HIDE DEF n
<1>2. /\ w \in Seq(Kills) /\ Len(w) = Len(l) - m
      /\ \A k \in 1..(Len(l) - m) : w[k] = Reported(l[m + k])
  BY WindowType
<1>3. /\ x \in Seq(Kills) /\ Len(x) = Len(n) - m
      /\ \A k \in 1..(Len(n) - m) : x[k] = Reported(n[m + k])
  BY <1>1, WindowType, Zenon
<1>4. Reported(o) \in Kills
  BY DEF Kills
<1> HIDE DEF w, x
<1>5. /\ y \in Seq(Kills) /\ Len(y) = Len(l) + 1 - m
      /\ \A k \in 1..(Len(l) - m) : y[k] = w[k]
      /\ y[Len(l) + 1 - m] = Reported(o)
  BY <1>1, <1>2, <1>4
<1> HIDE DEF y
<1>6. ASSUME NEW k \in 1..Len(x) PROVE x[k] = y[k]
  <2>1. CASE k \in 1..(Len(l) - m)
    <3>1. m + k \in 1..Len(l) /\ k \in 1..(Len(n) - m)
      BY <1>1, <2>1
    <3>2. n[m + k] = l[m + k]
      BY <1>1, <3>1
    <3>3. x[k] = Reported(n[m + k])
      BY <1>3, <3>1
    <3>4. y[k] = Reported(l[m + k])
      BY <1>2, <1>5, <2>1
    <3> QED BY <3>2, <3>3, <3>4
  <2>2. CASE k = Len(l) + 1 - m
    <3>1. m + k = Len(l) + 1
      BY <1>1, <2>2
    <3> QED BY <1>1, <1>3, <1>5, <2>2, <3>1
  <2> QED BY <1>1, <1>3, <2>1, <2>2
<1>7. Len(x) = Len(y)
  BY <1>1, <1>3, <1>5
<1>8. x = y
  BY <1>3, <1>5, <1>6, <1>7, SameSeq, Zenon
<1> QED BY <1>8 DEF n, w, x, y

\* ... and rd.Read takes its head.
LEMMA WindowTail ==
  ASSUME NEW l \in Seq(OomControl), NEW m \in 0..Len(l), m < Len(l)
  PROVE  Window(l, m) # <<>> /\ Window(l, m + 1) = Tail(Window(l, m))
<1> DEFINE w == Window(l, m)
           x == Window(l, m + 1)
           y == Tail(w)
<1>1. m + 1 \in 0..Len(l) /\ m \in Nat /\ Len(l) \in Nat
  OBVIOUS
<1>2. /\ w \in Seq(Kills) /\ Len(w) = Len(l) - m
      /\ \A k \in 1..(Len(l) - m) : w[k] = Reported(l[m + k])
  BY WindowType
<1>3. /\ x \in Seq(Kills) /\ Len(x) = Len(l) - (m + 1)
      /\ \A k \in 1..(Len(l) - (m + 1)) : x[k] = Reported(l[m + 1 + k])
  BY <1>1, WindowType
<1> HIDE DEF w, x
<1>4. /\ w # <<>> /\ y \in Seq(Kills) /\ Len(y) = Len(l) - (m + 1)
      /\ \A k \in 1..(Len(l) - (m + 1)) : y[k] = w[k + 1]
  BY <1>1, <1>2
<1> HIDE DEF y
<1>5. ASSUME NEW k \in 1..Len(x) PROVE x[k] = y[k]
  <2>1. k + 1 \in 1..(Len(l) - m) /\ m + (k + 1) = m + 1 + k
    BY <1>1, <1>3
  <2> QED BY <1>2, <1>3, <1>4, <2>1, Zenon
<1>6. x = y
  BY <1>3, <1>4, <1>5, SameSeq
<1> QED BY <1>4, <1>6 DEF w, x, y

(***************************************************************************)
(* The ring buffer implements the bounded first-in first-out queue, for    *)
(* any number of CPUs: a reservation is a Put, rd.Read a Get, and no other *)
(* step of a probe shows.                                                  *)
(***************************************************************************)
THEOREM ProbeRefinesQueue == Spec => IsEventQueue
<1> DEFINE q == [k \in 1..(Len(buf) - cons) |-> Reported(log[cons + k])]
<1>1. Init => Queue!Init
  BY DEF Init, Queue!Init
<1>2. IInv /\ IInv' /\ [Next]_vars => [Queue!Put \/ Queue!Get]_q
  <2> SUFFICES ASSUME IInv, IInv', [Next]_vars
               PROVE  Queue!Put \/ Queue!Get \/ q' = q
    OBVIOUS
  <2>0. /\ log \in Seq(OomControl) /\ cons \in 0..Len(log) /\ Len(log) = Len(buf)
        /\ Len(log') = Len(buf')
    BY DEF IInv, TypeOK
  <2>1. q = Window(log, cons) /\ q' = Window(log', cons')
    BY <2>0 DEF Window
  <2> HIDE DEF q
  <2>2. CASE UNCHANGED <<log, cons>>
    BY <2>1, <2>2
  <2>3. CASE Read
    <3>1. cons < Len(log) /\ log' = log /\ cons' = cons + 1
      BY <2>0, <2>3 DEF Read
    <3>2. q # <<>> /\ q' = Tail(q)
      BY <2>0, <2>1, <3>1, WindowTail
    <3> QED BY <3>2, Zenon DEF Queue!Get, q
  <2>4. ASSUME NEW c \in CPU, NEW o \in Calls, Reserve(c, o), HasRoom
        PROVE  Queue!Put
    <3>1. log' = Append(log, o) /\ cons' = cons /\ o \in OomControl
      BY <2>4, CallsAssumption DEF Reserve
    <3>2. /\ q' = Append(q, Reported(o)) /\ q \in Seq(Kills)
          /\ Len(q) = Len(buf) - cons
      BY <2>0, <2>1, <3>1, WindowAppend, WindowType
    <3>3. Reported(o) \in Kills /\ Len(q) < Capacity
      BY <2>4, <3>1, <3>2 DEF Kills, HasRoom
    <3>4. Len(q') = Len(q) + 1 /\ q'[Len(q) + 1] = Reported(o)
      BY <3>2, <3>3
    <3> QED BY <3>2, <3>3, <3>4, Zenon DEF Queue!Put, q, Kills
  <2>5. ASSUME NEW c \in CPU, NEW o \in Calls, Reserve(c, o), ~HasRoom
        PROVE  UNCHANGED <<log, cons>>
    BY <2>5 DEF Reserve
  <2>6. ASSUME NEW c \in CPU, Probe(c) PROVE UNCHANGED <<log, cons>>
    BY <2>6 DEF Probe, Clear, Fill, Walk, Submit
  <2>7. CASE Sleep
    BY <2>2, <2>7 DEF Sleep
  <2> QED BY <2>2, <2>3, <2>4, <2>5, <2>6, <2>7 DEF Next, vars
<1> QED BY <1>1, <1>2, Invariance, PTL DEF Spec, IsEventQueue, Queue!Spec

=============================================================================
