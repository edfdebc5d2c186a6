---------------------------- MODULE MCLookupLoop ----------------------------
(***************************************************************************)
(* Values of the constants of LookupLoop for TLC.                          *)
(***************************************************************************)
EXTENDS LookupLoop

Name(kind, uid) == [kind |-> kind, uid |-> uid, cid |-> <<uid, 1>>]

\* Names of two pods in each spelling, and names of neither.
MCNames == { Name("scope", 1), Name("slice", 1), Name("scope", 2), Name("dir", 2),
             Name("libpod", 2), Name("plain", 0), Name("empty", 0) }

\* A pod whose container is in one of the three lists of statuses, or not
\* in the status yet.
MCPods ==
  UNION {LET own == {<<u, 1>>} IN
    {[uid |-> u, container |-> own, init |-> {},  ephemeral |-> {}],
     [uid |-> u, container |-> {},  init |-> own, ephemeral |-> {}],
     [uid |-> u, container |-> {},  init |-> {},  ephemeral |-> own],
     [uid |-> u, container |-> {},  init |-> {},  ephemeral |-> {}]} : u \in 1..2}
=============================================================================
