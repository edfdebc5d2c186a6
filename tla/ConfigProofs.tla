---------------------------- MODULE ConfigProofs ----------------------------
(***************************************************************************)
(* Proofs about Config: that the values of the chart arrive in the tracer, *)
(* for every list of extra arguments, every annotation and every version.  *)
(***************************************************************************)
EXTENDS TextProofs

-----------------------------------------------------------------------------
\* The flags.
LEMMA Flags ==
  DOMAIN Defaults = {"v", "victim_annotation", "metrics_bind_address",
                     "ignore_global_oom", "version"}
BY DEF Defaults

\* The defaults are texts.
LEMMA DefaultsType == \A f \in DOMAIN Defaults : Defaults[f] \in Seq(Chars)
<1>1. /\ "0" \in Chars /\ "8080" \in Chars /\ "false" \in Chars
  BY DEF Chars
<1>2. /\ <<"0">> \in Seq(Chars) /\ <<"8080">> \in Seq(Chars) /\ <<"false">> \in Seq(Chars)
      /\ <<>> \in Seq(Chars)
  BY <1>1
<1>3. /\ Defaults.v = <<"0">> /\ Defaults.victim_annotation = <<>>
      /\ Defaults.metrics_bind_address = <<"8080">>
      /\ Defaults.ignore_global_oom = <<"false">> /\ Defaults.version = <<"false">>
  BY DEF Defaults
<1> QED BY <1>2, <1>3, Flags, Zenon

\* What the template renders before extraArgs, and with them.
Own(v) == <<Arg("v", <<"0">>), Arg("victim_annotation", RenderedAnnotation(v))>> \o Address(v)

Rendered(v) == Own(v) \o v.extraArgs

OwnLen(v) == IF v.disabled THEN 2 ELSE 3

\* Values of the chart.
Proper(v) ==
  /\ v.extraArgs \in Seq(Arguments) /\ v.victimAnnotation \in Seq(Chars)
  /\ v.port \in Chars /\ v.port # "space"

\* An annotation the chart renders is a text.
LEMMA RenderedText ==
  ASSUME NEW v, Proper(v)
  PROVE  RenderedAnnotation(v) \in Seq(Chars)
<1> DEFINE a == v.victimAnnotation
<1>1. "quote" \in Chars /\ "a" \in Chars /\ "=" \in Chars
  BY DEF Chars
<1>2. <<"quote", "quote">> \in Seq(Chars) /\ DefaultAnnotation \in Seq(Chars)
      /\ <<>> \in Seq(Chars) /\ a \in Seq(Chars)
  BY <1>1 DEF DefaultAnnotation, Proper
<1>3. ~Blank(a) => SubSeq(a, 1, Max(NonBlanks(a))) \in Seq(Chars)
  BY <1>2, TrimmedAtEnd
<1> QED BY <1>2, <1>3 DEF RenderedAnnotation, Annotation

\* The arguments, one by one.
LEMMA RenderedIs ==
  ASSUME NEW v, Proper(v), v.disabled \in BOOLEAN
  PROVE  LET R == Rendered(v)
             m == OwnLen(v)
         IN  /\ R \in Seq(Arguments) /\ m \in {2, 3} /\ m <= Len(R)
             /\ R[1] = Arg("v", <<"0">>)
             /\ R[2] = Arg("victim_annotation", RenderedAnnotation(v))
             /\ ~v.disabled => m = 3 /\ R[3] = Arg("metrics_bind_address", <<v.port>>)
             /\ v.disabled => m = 2
             /\ \A k \in (m+1)..Len(R) : \E x \in DOMAIN v.extraArgs : R[k] = v.extraArgs[x]
<1> DEFINE x1 == Arg("v", <<"0">>)
           x2 == Arg("victim_annotation", RenderedAnnotation(v))
           x3 == Arg("metrics_bind_address", <<v.port>>)
           o == Own(v)
           w == v.extraArgs
           R == Rendered(v)
           m == OwnLen(v)
<1>1. x1 \in Arguments /\ x2 \in Arguments /\ x3 \in Arguments /\ w \in Seq(Arguments)
  <2>1. "0" \in Chars /\ v.port \in Chars /\ RenderedAnnotation(v) \in Seq(Chars)
    BY RenderedText DEF Proper, Chars
  <2>2. <<"0">> \in Seq(Chars) /\ <<v.port>> \in Seq(Chars)
    BY <2>1
  <2> QED BY <2>1, <2>2, Flags DEF Arg, Arguments, Proper
<1> HIDE DEF x1, x2, x3
<1>2. /\ o \in Seq(Arguments) /\ Len(o) = m /\ m \in {2, 3} /\ o[1] = x1 /\ o[2] = x2
      /\ ~v.disabled => m = 3 /\ o[3] = x3
      /\ v.disabled => m = 2
  <2>1. CASE v.disabled
    <3>1. o = <<x1, x2>> \o <<>>
      BY <2>1 DEF Own, Address, x1, x2
    <3> HIDE DEF o
    <3>2. o = <<x1, x2>>
      BY <1>1, <3>1
    <3> QED BY <1>1, <2>1, <3>2 DEF OwnLen
  <2>2. CASE ~v.disabled
    <3>1. o = <<x1, x2>> \o <<x3>>
      BY <2>2 DEF Own, Address, x1, x2, x3
    <3> DEFINE y == <<x1, x2>>
               z == <<x3>>
    <3>2. /\ y \in Seq(Arguments) /\ Len(y) = 2 /\ y[1] = x1 /\ y[2] = x2
          /\ z \in Seq(Arguments) /\ Len(z) = 1 /\ z[1] = x3
      BY <1>1
    <3>3. o = y \o z
      BY <3>1
    <3> HIDE DEF o, y, z
    <3>4. /\ o \in Seq(Arguments) /\ Len(o) = Len(y) + Len(z)
          /\ \A k \in 1..Len(y) : o[k] = y[k]
          /\ \A k \in (Len(y) + 1)..Len(o) : o[k] = z[k - Len(y)]
      <4>1. y \in Seq(Arguments) /\ z \in Seq(Arguments)
        BY <3>2
      <4> QED BY <3>3, <4>1
    <3>5. o \in Seq(Arguments) /\ Len(o) = 3 /\ o[1] = y[1] /\ o[2] = y[2] /\ o[3] = z[3 - 2]
      BY <3>2, <3>4
    <3> QED BY <2>2, <3>2, <3>5 DEF OwnLen
  <2> QED BY <2>1, <2>2
<1>3. R = o \o w
  BY DEF Rendered
<1> HIDE DEF o, R, w, m
<1>4. /\ R \in Seq(Arguments) /\ Len(R) = m + Len(w) /\ Len(w) \in Nat
      /\ \A k \in 1..m : R[k] = o[k]
      /\ \A k \in (m+1)..Len(R) : R[k] = w[k - m]
  BY <1>1, <1>2, <1>3
<1>5. ASSUME NEW k \in (m+1)..Len(R) PROVE \E x \in DOMAIN w : R[k] = w[x]
  <2>1. k - m \in 1..Len(w) /\ DOMAIN w = 1..Len(w)
    BY <1>1, <1>2, <1>4
  <2> QED BY <1>4, <2>1
<1>6. m <= Len(R) /\ R[1] = x1 /\ R[2] = x2 /\ (~v.disabled => R[3] = x3)
  BY <1>2, <1>4
<1> QED BY <1>2, <1>4, <1>5, <1>6 DEF x1, x2, x3, w, R, m

-----------------------------------------------------------------------------
(***************************************************************************)
(* The inductive invariant.  While flag.Parse runs, the arguments left are *)
(* those behind the first n rendered ones, or none if it met one that is   *)
(* no flag, which only extraArgs can hold; and a flag keeps the value the  *)
(* template gave it, or its default, unless extraArgs name it again.       *)
(***************************************************************************)
Annotated == ~Overridden("victim_annotation")
               => opts.victim_annotation = RenderedAnnotation(values)

Unbound == opts.metrics_bind_address = <<"8080">>

Bound == ~Overridden("metrics_bind_address")
           => IF values.disabled THEN Unbound ELSE opts.metrics_bind_address = <<values.port>>

Left(n) == /\ Len(args) = Len(Rendered(values)) - n
           /\ \A k \in 1..Len(args) : args[k] = Rendered(values)[n + k]

Pending(n) ==
  /\ Left(n) \/ (args = <<>> /\ n >= OwnLen(values))
  /\ n >= 2 => Annotated
  /\ n < OwnLen(values) => Unbound
  /\ n >= OwnLen(values) => Bound

Started ==
  LET r == parseAnnotation(opts.victim_annotation) IN
  /\ stage = IF r.ok THEN "running" ELSE "fatal"
  /\ tracer.key = r.key /\ tracer.val = r.val
  /\ tracer.addr = TrimSpace(opts.metrics_bind_address)

IInv ==
  /\ Proper(values) /\ values.disabled \in BOOLEAN
  /\ version \in Seq({"v", "7", ".", "-"})
  /\ args \in Seq(Arguments)
  /\ DOMAIN opts = DOMAIN Defaults /\ \A f \in DOMAIN Defaults : opts[f] \in Seq(Chars)
  /\ stage \in {"render", "parse", "init", "running", "usage", "printed", "fatal"}
  /\ stage = "render" => Unbound
  /\ stage = "parse" => \E n \in 0..Len(Rendered(values)) : Pending(n)
  /\ stage \in {"init", "running", "fatal"} => Annotated /\ Bound
  /\ stage \in {"running", "fatal"} => Started
  /\ stage = "printed" => info = Get(version)

\* The values the chart is installed with are proper.
LEMMA InitOK == Init => IInv
<1> SUFFICES ASSUME Init PROVE IInv
  OBVIOUS
<1>1. opts = Defaults /\ args = <<>> /\ stage = "render" /\ Unbound
  BY DEF Init, Unbound, Defaults
<1>2. CASE values \in Values /\ version = <<>>
  <2>1. values.victimAnnotation \in Seq(Chars)
    <3>1. PICK n \in 0..MaxLen :
            values.victimAnnotation \in [1..n -> {"a", "=", "space", "quote"}]
      BY <1>2 DEF Values, Texts
    <3>2. n \in Nat /\ values.victimAnnotation \in [1..n -> Chars]
      BY <3>1, MaxLenAssumption DEF Chars
    <3> QED BY <3>2
  <2>2. /\ values.disabled \in BOOLEAN /\ values.port \in Ports
        /\ values.extraArgs \in ExtraArgs
    BY <1>2 DEF Values
  <2>3. Proper(values)
    BY <2>1, <2>2, ArgsAssumption, PortsAssumption DEF Proper, Chars
  <2> QED BY <1>1, <1>2, <2>2, <2>3, DefaultsType DEF IInv
<1>3. CASE /\ values = [dryRun |-> FALSE, victimAnnotation |-> <<>>, disabled |-> TRUE,
                        port |-> "8080", extraArgs |-> PrintsVersion]
           /\ version \in Versions
  <2>1. PrintsVersion \in Seq(Arguments)
    <3>1. "true" \in Chars
      BY DEF Chars
    <3>2. <<"true">> \in Seq(Chars)
      BY <3>1
    <3>3. Arg("version", <<"true">>) \in Arguments
      BY <3>2, Flags DEF Arg, Arguments
    <3> QED BY <3>3 DEF PrintsVersion
  <2>2. Proper(values) /\ values.disabled \in BOOLEAN
    BY <1>3, <2>1 DEF Proper, Chars
  <2> QED BY <1>1, <1>3, <2>2, DefaultsType, VersionsAssumption DEF IInv
<1> QED BY <1>2, <1>3 DEF Init

\* helm install leaves all of the rendered arguments to flag.Parse.
LEMMA RenderOK == IInv /\ Render => IInv'
<1> SUFFICES ASSUME IInv, Render PROVE IInv'
  OBVIOUS
<1>1. /\ UNCHANGED <<values, version, opts, tracer, info>>
      /\ args' = Rendered(values) /\ stage' = "parse"
  BY DEF Render, Rendered, Own, config
<1>2. Proper(values) /\ values.disabled \in BOOLEAN
  BY DEF IInv
<1> DEFINE R == Rendered(values)
<1>3. R \in Seq(Arguments) /\ OwnLen(values) \in {2, 3}
  BY <1>2, RenderedIs, Zenon
<1>4. Pending(0)'
  <2>1. /\ Len(args') = Len(Rendered(values')) - 0
        /\ \A k \in 1..Len(args') : args'[k] = Rendered(values')[0 + k]
    <3> HIDE DEF R
    <3>1. Len(R) \in Nat /\ R = args' /\ R = Rendered(values')
      BY <1>1, <1>3 DEF R
    <3> QED BY <3>1
  <2>2. ~(0 >= 2) /\ ~(0 >= OwnLen(values')) /\ Unbound'
    BY <1>1, <1>3 DEF Render, IInv, Unbound
  <2> QED BY <2>1, <2>2 DEF Pending, Left
<1>5. 0 \in 0..Len(Rendered(values))'
  BY <1>1, <1>3
<1> QED BY <1>1, <1>3, <1>4, <1>5 DEF IInv

\* flag.Parse takes the next argument, or stops at one that is no flag.
LEMMA ParseArgOK == IInv /\ ParseArg => IInv'
<1> SUFFICES ASSUME IInv, ParseArg PROVE IInv'
  OBVIOUS
<1> DEFINE a == Head(args)
           R == Rendered(values)
           m == OwnLen(values)
<1>1. UNCHANGED <<values, version, tracer, info>> /\ stage = "parse" /\ args # <<>>
  BY DEF ParseArg, config
<1>2. /\ Proper(values) /\ values.disabled \in BOOLEAN
      /\ version \in Seq({"v", "7", ".", "-"}) /\ args \in Seq(Arguments)
      /\ DOMAIN opts = DOMAIN Defaults /\ \A f \in DOMAIN Defaults : opts[f] \in Seq(Chars)
  BY DEF IInv
<1>3. PICK n \in 0..Len(R) : Pending(n)
  BY <1>1 DEF IInv
<1>4. /\ R \in Seq(Arguments) /\ m \in {2, 3} /\ m <= Len(R)
      /\ R[1] = Arg("v", <<"0">>)
      /\ R[2] = Arg("victim_annotation", RenderedAnnotation(values))
      /\ ~values.disabled => m = 3 /\ R[3] = Arg("metrics_bind_address", <<values.port>>)
      /\ values.disabled => m = 2
      /\ \A k \in (m+1)..Len(R) : \E x \in DOMAIN values.extraArgs : R[k] = values.extraArgs[x]
  BY <1>2, RenderedIs
<1> HIDE DEF R, m
<1>5. Len(args) = Len(R) - n /\ \A k \in 1..Len(args) : args[k] = R[n + k]
  BY <1>1, <1>3 DEF Pending, Left, R
<1>6. Len(args) \in Nat /\ Len(args) > 0 /\ Len(R) \in Nat /\ n \in Nat /\ n < Len(R)
  BY <1>1, <1>2, <1>4, <1>5
<1>7. a = R[n + 1] /\ a \in Arguments /\ n + 1 \in 1..Len(R)
  BY <1>2, <1>4, <1>5, <1>6
<1>8. \A f : n >= m /\ a.flag = f => Overridden(f)
  <2>1. n >= m => \E x \in DOMAIN values.extraArgs : a = values.extraArgs[x]
    BY <1>4, <1>6, <1>7
  <2> QED BY <2>1 DEF Overridden
<1>9. n < m => a.flag \in {"v", "victim_annotation", "metrics_bind_address"}
  <2>1. n < m => n + 1 = 1 \/ n + 1 = 2 \/ (n + 1 = 3 /\ ~values.disabled)
    BY <1>2, <1>4, <1>6
  <2> QED BY <1>4, <1>7, <2>1 DEF Arg
<1> HIDE DEF a
<1>10. CASE /\ Accepted(a) /\ opts' = [opts EXCEPT ![a.flag] = a.value]
            /\ args' = Tail(args) /\ UNCHANGED stage
  <2>1. /\ a.flag \in DOMAIN Defaults /\ a.value \in Seq(Chars)
    BY <1>7, <1>10 DEF Accepted, Arguments
  <2>2. /\ DOMAIN opts' = DOMAIN Defaults
        /\ \A f \in DOMAIN Defaults : opts'[f] \in Seq(Chars)
        /\ opts'[a.flag] = a.value
        /\ \A f \in DOMAIN Defaults : f # a.flag => opts'[f] = opts[f]
    BY <1>2, <1>10, <2>1
  <2>3. /\ args' \in Seq(Arguments) /\ Len(args') = Len(args) - 1
        /\ \A k \in 1..(Len(args) - 1) : args'[k] = args[k + 1]
    BY <1>1, <1>2, <1>10
  <2>4. Left(n + 1)'
    <3>1. Len(args') = Len(R) - (n + 1)
      BY <1>5, <1>6, <2>3
    <3>2. ASSUME NEW k \in 1..Len(args') PROVE args'[k] = R[(n + 1) + k]
      <4>1. k + 1 \in 1..Len(args) /\ k \in 1..(Len(args) - 1) /\ n + (k + 1) = (n + 1) + k
        BY <1>6, <2>3
      <4> QED BY <1>5, <2>3, <4>1
    <3> QED BY <1>1, <3>1, <3>2 DEF Left, R
  <2>5. n + 1 >= 2 => Annotated'
    <3>1. CASE n + 1 = 2
      <4>1. a = Arg("victim_annotation", RenderedAnnotation(values))
        BY <1>4, <1>7, <3>1
      <4> QED BY <1>1, <2>2, <4>1 DEF Annotated, Arg
    <3>2. CASE n >= 2
      <4>1. Annotated
        BY <1>3, <3>2 DEF Pending
      <4>2. a.flag = "victim_annotation" => Overridden("victim_annotation")
        <5>1. n >= m \/ (n + 1 = 3 /\ m = 3 /\ ~values.disabled)
          BY <1>2, <1>4, <1>6, <3>2
        <5> QED BY <1>4, <1>7, <1>8, <5>1 DEF Arg
      <4> QED BY <1>1, <2>2, <4>1, <4>2, Flags DEF Annotated, Overridden
    <3> QED BY <1>6, <3>1, <3>2
  <2>6. n + 1 >= m => Bound'
    <3>1. CASE n + 1 = m
      <4>1. CASE ~values.disabled
        <5>1. a = Arg("metrics_bind_address", <<values.port>>)
          BY <1>4, <1>7, <3>1, <4>1
        <5> QED BY <1>1, <2>2, <4>1, <5>1 DEF Bound, Arg
      <4>2. CASE values.disabled
        <5>1. a = Arg("victim_annotation", RenderedAnnotation(values))
          BY <1>4, <1>7, <3>1, <4>2
        <5>2. Unbound
          BY <1>3, <1>4, <1>6, <3>1 DEF Pending, m
        <5> QED BY <1>1, <2>2, <4>2, <5>1, <5>2, Flags DEF Bound, Unbound, Arg
      <4> QED BY <4>1, <4>2
    <3>2. CASE n >= m
      <4>1. Bound
        BY <1>3, <3>2 DEF Pending, m
      <4>2. a.flag = "metrics_bind_address" => Overridden("metrics_bind_address")
        BY <1>8, <3>2
      <4> QED BY <1>1, <2>2, <4>1, <4>2, Flags DEF Bound, Unbound, Overridden
    <3> QED BY <1>4, <1>6, <3>1, <3>2
  <2>7. n + 1 < m => Unbound'
    <3> SUFFICES ASSUME n + 1 < m PROVE Unbound'
      OBVIOUS
    <3>1. a.flag \in {"v", "victim_annotation"}
      <4>1. n + 1 = 1 \/ n + 1 = 2
        BY <1>4, <1>6
      <4> QED BY <1>4, <1>7, <4>1 DEF Arg
    <3>2. Unbound
      BY <1>3, <1>4, <1>6 DEF Pending, m
    <3> QED BY <2>2, <3>1, <3>2, Flags DEF Unbound
  <2>8. Pending(n + 1)'
    BY <1>1, <2>4, <2>5, <2>6, <2>7 DEF Pending, m
  <2>9. n + 1 \in 0..Len(Rendered(values))'
    BY <1>1, <1>7 DEF R
  <2> QED BY <1>1, <1>2, <1>10, <2>2, <2>3, <2>8, <2>9 DEF IInv
<1>11. CASE a.flag = "positional" /\ args' = <<>> /\ UNCHANGED <<opts, stage>>
  <2>1. n >= m
    BY <1>4, <1>6, <1>9, <1>11
  <2>2. Annotated /\ Bound
    BY <1>3, <1>4, <1>6, <2>1 DEF Pending, m
  <2>3. Pending(n)'
    BY <1>1, <1>4, <1>6, <1>11, <2>1, <2>2 DEF Pending, Annotated, Bound, Unbound, Overridden, m
  <2> QED BY <1>1, <1>2, <1>3, <1>11, <2>3 DEF IInv, R
<1>12. CASE stage' = "usage" /\ UNCHANGED <<args, opts>>
  BY <1>1, <1>2, <1>12 DEF IInv
<1> QED BY <1>10, <1>11, <1>12 DEF ParseArg, a

\* No arguments are left: the flags have the values the template gave them.
LEMMA ParsedOK == IInv /\ Parsed => IInv'
<1> SUFFICES ASSUME IInv, Parsed PROVE IInv'
  OBVIOUS
<1> DEFINE R == Rendered(values)
<1>1. UNCHANGED <<config, args, opts, tracer, info>> /\ stage = "parse" /\ args = <<>>
      /\ stage' = "init"
  BY DEF Parsed
<1>2. PICK n \in 0..Len(R) : Pending(n)
  BY <1>1 DEF IInv
<1>3. R \in Seq(Arguments) /\ OwnLen(values) \in {2, 3} /\ OwnLen(values) <= Len(R)
  BY RenderedIs, Zenon DEF IInv
<1> HIDE DEF R
<1>4. n >= OwnLen(values)
  <2>1. CASE Left(n)
    BY <1>1, <1>3, <2>1 DEF Left, R
  <2> QED BY <1>2, <2>1 DEF Pending
<1>5. Annotated /\ Bound
  BY <1>2, <1>3, <1>4 DEF Pending
<1> QED BY <1>1, <1>5 DEF IInv, Annotated, Bound, Unbound, Overridden, config

\* --version prints, and everything else starts with what flag.Parse left.
LEMMA StartOK == IInv /\ (PrintVersion \/ Start) => IInv'
<1> SUFFICES ASSUME IInv, PrintVersion \/ Start PROVE IInv'
  OBVIOUS
<1>1. UNCHANGED <<config, args, opts>> /\ stage = "init"
  BY DEF PrintVersion, Start
<1>2. Annotated' /\ Bound'
  BY <1>1 DEF IInv, Annotated, Bound, Unbound, Overridden, config
<1>3. CASE PrintVersion
  BY <1>1, <1>3 DEF IInv, PrintVersion, config
<1>4. CASE Start
  <2> DEFINE r == parseAnnotation(opts.victim_annotation)
  <2>1. /\ stage' = IF r.ok THEN "running" ELSE "fatal"
        /\ tracer' = [key |-> r.key, val |-> r.val,
                      addr |-> TrimSpace(opts.metrics_bind_address)]
    BY <1>4 DEF Start
  <2>2. Started'
    <3> HIDE DEF r
    <3>1. /\ tracer'.key = r.key /\ tracer'.val = r.val
          /\ tracer'.addr = TrimSpace(opts.metrics_bind_address)
      BY <2>1
    <3> QED BY <1>1, <2>1, <3>1 DEF Started, r
  <2>3. stage' \in {"running", "fatal"}
    BY <2>1
  <2> QED BY <1>1, <1>2, <2>2, <2>3 DEF IInv, config
<1> QED BY <1>3, <1>4

\* Every step keeps the invariant.
LEMMA StepOK == IInv /\ [Next]_vars => IInv'
<1>1. CASE UNCHANGED vars
  <2>1. UNCHANGED <<values, version, stage, args, opts, tracer, info>>
    BY <1>1 DEF vars, config
  <2>2. Annotated' = Annotated /\ Bound' = Bound /\ Unbound' = Unbound /\ Started' = Started
    BY <2>1, Zenon DEF Annotated, Bound, Unbound, Overridden, Started
  <2>3. ASSUME NEW n PROVE Pending(n)' = Pending(n)
    BY <2>1, <2>2, Zenon DEF Pending, Left
  <2> QED BY <2>1, <2>2, <2>3 DEF IInv
<1> QED BY <1>1, RenderOK, ParseArgOK, ParsedOK, StartOK DEF Next

\* And so it holds always.
LEMMA Invariance == Spec => []IInv
<1> QED BY InitOK, StepOK, PTL DEF Spec

-----------------------------------------------------------------------------
(***************************************************************************)
(* parseAnnotation accepts exactly what the help text of the flag          *)
(* describes, and dry-run's blank text, for annotations of every length    *)
(* from the chart or from extraArgs (oomtracer.go:249-264, main.go:48).    *)
(***************************************************************************)
THEOREM ReadsAsDocumented == Spec => []ParsesAsDocumented
<1>1. IInv => ParsesAsDocumented
  <2> SUFFICES ASSUME IInv, stage \in {"running", "fatal"} PROVE ParsesAsDocumented
    BY DEF ParsesAsDocumented
  <2> DEFINE s == opts.victim_annotation
             r == parseAnnotation(s)
  <2>1. s \in Seq(Chars)
    BY Flags DEF IInv
  <2>2. stage = (IF r.ok THEN "running" ELSE "fatal") /\ tracer.key = r.key /\ tracer.val = r.val
    BY DEF IInv, Started
  <2>3. IF Blank(s) THEN r.ok /\ r.key = <<>> /\ r.val = <<>>
        ELSE \/ ~r.ok /\ Readings(s) = {}
             \/ r.ok /\ r.key # <<>> /\ Readings(s) = {[key |-> r.key, val |-> r.val]}
    BY <2>1, Parses
  <2> HIDE DEF r
  <2> QED BY <2>2, <2>3 DEF ParsesAsDocumented
<1> QED BY <1>1, Invariance, PTL

\* Whatever has a reading is not blank.
LEMMA BlankHasNone ==
  ASSUME NEW S, NEW s \in Seq(S), Blank(s)
  PROVE  Readings(s) = {}
<1>1. \A e \in 1..Len(s) : ~FirstEq(s, e)
  BY DEF Blank, FirstEq
<1> QED BY <1>1, NoReading

(***************************************************************************)
(* A victimAnnotation with a reading arrives in the tracer, whatever the   *)
(* other values and whatever extraArgs hold besides (daemonset.yaml:53).   *)
(***************************************************************************)
THEOREM AnnotationArrives == Spec => []AnnotatesAsConfigured
<1>1. IInv => AnnotatesAsConfigured
  <2> DEFINE s == values.victimAnnotation
             t == opts.victim_annotation
             r == parseAnnotation(s)
  <2> SUFFICES ASSUME IInv, stage \in {"running", "fatal"}, ~values.dryRun,
                      ~Overridden("victim_annotation"), Readings(s) # {}
               PROVE  stage = "running" /\ [key |-> tracer.key, val |-> tracer.val] \in Readings(s)
    BY DEF AnnotatesAsConfigured
  <2>1. s \in Seq(Chars) /\ t = Annotation(values)
    BY DEF IInv, Proper, Annotated, RenderedAnnotation
  <2>2. ~Blank(s)
    BY <2>1, BlankHasNone
  <2>3. t = SubSeq(s, 1, Max(NonBlanks(s)))
    <3>1. s # <<>>
      BY <2>2 DEF Blank
    <3> QED BY <2>1, <2>2, <3>1, Zenon DEF Annotation
  <2>4. parseAnnotation(t) = r
    BY <2>1, <2>2, <2>3, TrimmedAtEnd
  <2>5. stage = (IF r.ok THEN "running" ELSE "fatal") /\ tracer.key = r.key /\ tracer.val = r.val
    BY <2>4 DEF IInv, Started
  <2>6. r.ok /\ Readings(s) = {[key |-> r.key, val |-> r.val]}
    BY <2>1, <2>2, Parses
  <2> HIDE DEF r
  <2> QED BY <2>5, <2>6
<1> QED BY <1>1, Invariance, PTL

(***************************************************************************)
(* Whatever the annotation and the extra arguments that leave it alone, a  *)
(* tracer that runs is in dry-run mode if and only if the values ask for   *)
(* it: neither by default nor by mistake (daemonset.yaml:50-54,            *)
(* oomtracer.go:249-264).                                                  *)
(***************************************************************************)
THEOREM ObservesIffAsked == Spec => []ObservesAsAsked
<1>1. IInv => ObservesAsAsked
  <2> DEFINE s == values.victimAnnotation
             t == opts.victim_annotation
             r == parseAnnotation(t)
  <2> SUFFICES ASSUME IInv, stage = "running", ~Overridden("victim_annotation")
               PROVE  tracer.key = <<>> <=> AskedToObserve
    BY DEF ObservesAsAsked
  <2>1. s \in Seq(Chars) /\ t \in Seq(Chars) /\ t = RenderedAnnotation(values)
    BY Flags DEF IInv, Proper, Annotated
  <2>2. r.ok /\ tracer.key = r.key
    BY DEF IInv, Started
  <2>3. tracer.key = <<>> <=> Blank(t)
    BY <2>1, <2>2, Parses
  <2>4. ~values.dryRun
    <3> SUFFICES ASSUME values.dryRun PROVE FALSE
      OBVIOUS
    <3>1. t = <<"quote", "quote">>
      BY <2>1 DEF RenderedAnnotation
    <3>2. ~Blank(t) /\ \A e \in 1..Len(t) : ~FirstEq(t, e)
      BY <3>1 DEF Blank, FirstEq
    <3>3. Readings(t) = {}
      BY <2>1, <3>2, NoReading
    <3> QED BY <2>1, <2>2, <3>2, <3>3, Parses
  <2>5. s = <<>> => ~Blank(t)
    BY <2>1, <2>4 DEF RenderedAnnotation, Annotation, DefaultAnnotation, Blank
  <2>6. s # <<>> => (Blank(t) <=> Blank(s))
    <3>1. CASE s # <<>> /\ Blank(s)
      BY <2>1, <2>4, <3>1 DEF RenderedAnnotation, Annotation, Blank
    <3>2. CASE s # <<>> /\ ~Blank(s)
      BY <2>1, <2>4, <3>2, TrimmedAtEnd DEF RenderedAnnotation, Annotation
    <3> QED BY <3>1, <3>2
  <2>7. s # <<>> <=> Len(s) > 0
    BY <2>1
  <2> QED BY <2>3, <2>4, <2>5, <2>6, <2>7 DEF AskedToObserve
<1> QED BY <1>1, Invariance, PTL

(***************************************************************************)
(* The endpoint is bound to the port the pod declares, or to the default   *)
(* if it declares none, unless extraArgs give the address again            *)
(* (daemonset.yaml:56, 68; main.go:47, 81).                                *)
(***************************************************************************)
THEOREM PortServed == Spec => []DeclaredPortServed
<1>1. IInv => DeclaredPortServed
  <2> DEFINE c == IF values.disabled THEN "8080" ELSE values.port
             s == <<c>>
  <2> SUFFICES ASSUME IInv, stage = "running", ~Overridden("metrics_bind_address")
               PROVE  tracer.addr = s
    BY DEF DeclaredPortServed, Defaults
  <2>1. c # "space" /\ tracer.addr = TrimSpace(s)
    <3>1. /\ values.port # "space" /\ tracer.addr = TrimSpace(opts.metrics_bind_address)
          /\ Bound
      BY Zenon DEF IInv, Proper, Started
    <3> QED BY <3>1 DEF Bound, Unbound
  <2> HIDE DEF c
  <2>2. s \in Seq({c}) /\ Len(s) = 1 /\ s[1] = c
    OBVIOUS
  <2>3. ~Blank(s)
    BY <2>1, <2>2 DEF Blank
  <2> HIDE DEF s
  <2>4. PICK p, q \in 1..Len(s) : TrimSpace(s) = SubSeq(s, p, q)
    BY <2>2, <2>3, TrimIs, Zenon
  <2>5. SubSeq(s, p, q) = SubSeq(s, 1, Len(s)) /\ SubSeq(s, 1, Len(s)) = s
    BY <2>2
  <2> QED BY <2>1, <2>4, <2>5 DEF s
<1> QED BY <1>1, Invariance, PTL

(***************************************************************************)
(* --version spells out every version it recognises, of any length         *)
(* (version.go:51-68).                                                     *)
(***************************************************************************)
THEOREM VersionSplits == Spec => []SplitsVersion
<1>1. IInv => SplitsVersion
  <2> SUFFICES ASSUME IInv, stage = "printed", info.Major # <<>>
               PROVE  Digits(info.Major) /\ <<"v">> \o info.Major \o <<".">> \o info.Minor = version
    BY Zenon DEF SplitsVersion
  <2> DEFINE r == splitVersion(version)
  <2>1. version \in Seq({"v", "7", ".", "-"}) /\ info = Get(version)
    BY DEF IInv
  <2>2. info.Major = r.Major /\ info.Minor = r.Minor
    BY <2>1 DEF Get
  <2>3. r.Major # <<>>
    BY <2>2
  <2>4. Digits(r.Major) /\ <<"v">> \o r.Major \o <<".">> \o r.Minor = version
    BY <2>1, <2>3, Splits, Zenon
  <2> HIDE DEF r
  <2> QED BY <2>2, <2>4, Zenon
<1> QED BY <1>1, Invariance, PTL
=============================================================================
