--------------------------- MODULE ProcessProofs ---------------------------
(***************************************************************************)
(* What holds in every state of the process, from its first start over any *)
(* number of failures, signals and restarts.                               *)
(***************************************************************************)
EXTENDS Process, TLAPS

Starting == {"flags", "clients", "sync", "metrics", "tracer", "load"}

\* main gets past WaitForCacheSync with filled caches, or a cancelled context.
Warm ==
  stage \in {"metrics", "tracer", "load", "attach", "open", "loop"}
    => synced \/ ctx = "done"

(***************************************************************************)
(* The properties of Process made inductive.  OneProbe needs that nothing  *)
(* is held from the start on, DetachedAtShutdown that the link stays       *)
(* closed after CloseLink, SuccessExplained that the loop reports          *)
(* "canceled" only if its reader was closed, and the reader was closed     *)
(* only because ctx was done.                                              *)
(***************************************************************************)
IInv ==
  /\ TypeOK
  /\ Warm
  /\ stage \in Starting \cup {"exited"} => held = {} /\ rd = "closed" /\ closer = "none"
  /\ stage \in {"attach", "open"} => rd = "closed" /\ closer = "none"
  /\ stage \in {"close_reader", "shutdown"} => "link" \notin held
  /\ stage = "loop" /\ rd = "closed" => ctx = "done"
  /\ err = "canceled" => ctx = "done"
  /\ stage = "shutdown" => err = "canceled" /\ rd = "closed"
  /\ SuccessExplained

\* Before the first start of main nothing is loaded, cached or open.
LEMMA InitOK == Init => IInv
BY DEF Init, IInv, TypeOK, Stages, Objects, Starting, Warm,
  SuccessExplained, AsksToPrint

\* main, from flag.Parse to the loop.
LEMMA StartOK ==
  ASSUME IInv, StopsAtFlags \/ NotifyContext \/ CreateClients \/ WaitForCacheSync
               \/ ServeMux \/ NewOOMTracer \/ LoadObjects \/ Kprobe \/ NewReader
               \/ CallFails
  PROVE  IInv'
<1> USE DEF IInv, TypeOK, Stages, Objects, Starting, Warm,
  SuccessExplained, AsksToPrint, Goto
<1>1. CASE StopsAtFlags
  <2>1. CASE flags.parse = "help" /\ Exit("0")
    BY <2>1 DEF Exit
  <2>2. CASE flags.parse = "error" /\ Exit("2")
    BY <2>2 DEF Exit
  <2>3. CASE flags.parse = "ok" /\ flags.version /\ Exit("0")
    BY <2>3 DEF Exit
  <2>4. CASE Goto("fatal")
    BY <1>1, <2>4 DEF StopsAtFlags
  <2> QED BY <1>1, <2>1, <2>2, <2>3, <2>4 DEF StopsAtFlags
<1>2. CASE NotifyContext
  BY <1>2 DEF NotifyContext
<1>3. CASE CreateClients
  BY <1>3 DEF CreateClients
<1>4. CASE WaitForCacheSync
  BY <1>4 DEF WaitForCacheSync
<1>5. CASE ServeMux
  BY <1>5 DEF ServeMux
<1>6. CASE NewOOMTracer
  BY <1>6 DEF NewOOMTracer
<1>7. CASE LoadObjects
  BY <1>7 DEF LoadObjects, Holding
<1>8. CASE Kprobe
  BY <1>8 DEF Kprobe, Holding
<1>9. CASE NewReader
  BY <1>9 DEF NewReader
<1>10. CASE CallFails
  BY <1>10 DEF CallFails
<1> QED BY <1>1, <1>2, <1>3, <1>4, <1>5, <1>6, <1>7, <1>8, <1>9, <1>10

\* The loop ends, closeFn runs, main exits.
LEMMA StopOK ==
  ASSUME IInv, LoopReturns \/ LoopFails \/ CloseObjs \/ CloseLink \/ CloseFnReader
               \/ MainExits
  PROVE  IInv'
<1> USE DEF IInv, TypeOK, Stages, Objects, Starting, Warm,
  SuccessExplained, AsksToPrint
<1>1. CASE LoopReturns
  BY <1>1 DEF LoopReturns, Ends
<1>2. CASE LoopFails
  BY <1>2 DEF LoopFails, Ends
<1>3. CASE CloseObjs
  <2>1. held' \subseteq held
    BY <1>3 DEF CloseObjs
  <2> QED BY <1>3, <2>1 DEF CloseObjs
<1>4. CASE CloseLink
  BY <1>4 DEF CloseLink
<1>5. CASE CloseFnReader
  BY <1>5 DEF CloseFnReader
<1>6. CASE MainExits
  BY <1>6 DEF MainExits, Exit
<1> QED BY <1>1, <1>2, <1>3, <1>4, <1>5, <1>6

\* The goroutines, the informers, signals, the kernel and the kubelet.
LEMMA BesideOK ==
  ASSUME IInv, CloseReader \/ InformersSync \/ Environment
  PROVE  IInv'
<1> USE DEF IInv, TypeOK, Stages, Objects, Starting, Warm,
  SuccessExplained, AsksToPrint
<1>1. CASE CloseReader
  BY <1>1 DEF CloseReader
<1>2. CASE InformersSync
  BY <1>2 DEF InformersSync
<1>3. CASE ListenAndServe
  BY <1>3 DEF ListenAndServe
<1>4. CASE Signal
  <2>1. CASE stage = "flags"
    BY <1>4, <2>1 DEF Signal, Exit
  <2>2. CASE stage # "flags"
    <3>1. /\ ctx' = "done" /\ stage # "exited"
          /\ UNCHANGED <<flags, stage, err, synced, server, held, rd, closer, code>>
      BY <1>4, <2>2 DEF Signal
    <3> QED BY <3>1
  <2> QED BY <2>1, <2>2
<1>5. CASE Kill
  BY <1>5 DEF Kill, Exit
<1>6. CASE Restart
  BY <1>6 DEF Restart
<1> QED BY <1>1, <1>2, <1>3, <1>4, <1>5, <1>6 DEF Environment

\* Every step of main and of what runs beside it keeps the invariant.
LEMMA StepOK == IInv /\ [Next]_vars => IInv'
<1> SUFFICES ASSUME IInv, [Next]_vars PROVE IInv'
  OBVIOUS
<1>1. CASE UNCHANGED vars
  BY <1>1 DEF vars, IInv, TypeOK, Warm, SuccessExplained, AsksToPrint
<1> QED BY <1>1, StartOK, StopOK, BesideOK DEF Next, Main

\* And so it holds in every life of the process.
LEMMA Invariance == Spec => []IInv
BY InitOK, StepOK, PTL DEF Spec

(***************************************************************************)
(* Type correctness; it includes that the reader is open only in the loop  *)
(* and while closeFn runs.                                                 *)
(***************************************************************************)
THEOREM ProcessTypes == Spec => []TypeOK
<1>1. IInv => TypeOK
  BY DEF IInv
<1> QED BY <1>1, Invariance, PTL

(***************************************************************************)
(* LoadBPF never runs beside a probe of the same process.                  *)
(***************************************************************************)
THEOREM LoadsOneProbe == Spec => []OneProbe
<1>1. IInv => OneProbe
  BY DEF IInv, OneProbe, Starting
<1> QED BY <1>1, Invariance, PTL

(***************************************************************************)
(* When main reports its shutdown the probe is detached and the reader     *)
(* closed, even if objs.Close failed.                                      *)
(***************************************************************************)
THEOREM ShutsDownDetached == Spec => []DetachedAtShutdown
<1>1. IInv => DetachedAtShutdown
  BY DEF IInv, DetachedAtShutdown
<1> QED BY <1>1, Invariance, PTL

(***************************************************************************)
(* Exit status 0 means that the command line asks for the help text or the *)
(* version, or that the loop returned because of a signal, in every life.  *)
(***************************************************************************)
THEOREM ExitsTruthfully == Spec => []SuccessExplained
<1>1. IInv => SuccessExplained
  BY DEF IInv
<1> QED BY <1>1, Invariance, PTL
=============================================================================
