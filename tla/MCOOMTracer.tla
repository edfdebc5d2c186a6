---------------------------- MODULE MCOOMTracer ----------------------------
(***************************************************************************)
(* Values of the constants of OOMTracer for TLC.                           *)
(***************************************************************************)
EXTENDS OOMTracer, TLC

\* Leaf first.  The systemd driver, the cgroupfs driver with two levels made
\* inside the container, a static pod, and a process nested too deeply for
\* the pod to be among the four names.
MCPaths == { <<"scope", "slice", "plain", "plain">>,
             <<"libpod", "plain", "scope", "dir">>,
             <<"scope", "static", "plain", "plain">>,
             <<"plain", "plain", "plain", "plain">> }

\* One path is enough where the question is not the lookup.
MCOnePath == { <<"scope", "slice", "plain", "plain">> }

MCHostPaths == { <<"plain", "plain", "empty", "empty">> }

Symmetry == Permutations(PodName)
=============================================================================
