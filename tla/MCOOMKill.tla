----------------------------- MODULE MCOOMKill -----------------------------
(***************************************************************************)
(* Values of the constants of OOMKill for TLC.                             *)
(***************************************************************************)
EXTENDS OOMKill

Shallow == <<"a", NoName, "root">>
Deep    == <<"a", "b", "c", "d", "root">>

MCNodes == {Shallow, Deep}

TaskIn(cgroup)  == [cgroups |-> [dfl_cgrp |-> cgroup]]
MemCgOf(cgroup) == [css_cgroup |-> cgroup]

\* A victim in a cgroup deeper than the walk goes, with and without a memory
\* cgroup at its limit; one without a cgroup; none, with a memory cgroup that
\* has a nameless ancestor, with one that has no cgroup, with none; and the
\* scan that was given up.
MCCalls == {
  [chosen |-> TaskIn([kn |-> Deep]), memcg |-> NULL],
  [chosen |-> TaskIn([kn |-> Deep]), memcg |-> MemCgOf([kn |-> Shallow])],
  [chosen |-> TaskIn(NULL),          memcg |-> MemCgOf([kn |-> Shallow])],
  [chosen |-> NULL,                  memcg |-> MemCgOf([kn |-> Shallow])],
  [chosen |-> NULL,                  memcg |-> MemCgOf(NULL)],
  [chosen |-> NULL,                  memcg |-> NULL],
  [chosen |-> Aborted,               memcg |-> MemCgOf([kn |-> Shallow])] }
=============================================================================
