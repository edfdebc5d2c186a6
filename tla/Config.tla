------------------------------- MODULE Config -------------------------------
(***************************************************************************)
(* How the tracer is configured: the arguments the Helm chart renders from *)
(* its values (chart/oom-tracer/templates/daemonset.yaml), the flags main  *)
(* declares and flag.Parse fills (cmd/main.go), and what version.Get,      *)
(* NewMetrics and parseAnnotation make of them.                            *)
(*                                                                         *)
(* A text is a sequence of characters: "space", "=", a quote, or anything  *)
(* else.  The address a port is bound with is a text of one character, the *)
(* port.                                                                   *)
(***************************************************************************)
EXTENDS Version

CONSTANTS
  MaxLen,       \* bound on the length of victimAnnotation
  Ports,        \* values of metric.port
  ExtraArgs,    \* values of extraArgs
  Versions      \* versions a binary may be linked with

ASSUME MaxLenAssumption == MaxLen \in Nat

ASSUME VersionsAssumption == Versions \subseteq Seq({"v", "7", ".", "-"})

ASSUME PortsAssumption == "space" \notin Ports

VARIABLES
  values,   \* the chart's values
  version,  \* the version the binary was linked with
  stage,    \* "render", "parse", "init"; then "running", "usage", "printed", "fatal"
  args,     \* the arguments flag.Parse has not looked at yet
  opts,     \* the flags' values
  tracer,   \* the tracer's key and value, and the metrics address
  info      \* what --version printed

config == <<values, version>>
vars   == <<config, stage, args, opts, tracer, info>>
-----------------------------------------------------------------------------
Texts == UNION {[1..n -> {"a", "=", "space", "quote"}] : n \in 0..MaxLen}

Values == [dryRun: BOOLEAN, victimAnnotation: Texts, disabled: BOOLEAN,
           port: Ports, extraArgs: ExtraArgs]

Arg(f, v) == [flag |-> f, value |-> v]

\* The flags main and klog declare, with their defaults, but for those that
\* say how to reach the API server; node_name is in Process.
Defaults == [v |-> <<"0">>, victim_annotation |-> <<>>,
             metrics_bind_address |-> <<"8080">>, ignore_global_oom |-> <<"false">>,
             version |-> <<"false">>]

\* kubeconfig stands for a flag that is not declared, and so for h and help,
\* which flag.Parse answers with the same text; positional for an argument that
\* is no flag.
Chars     == {"a", "=", "space", "quote", "0", "8080", "true", "false"} \cup Ports
Arguments == [flag: DOMAIN Defaults \cup {"kubeconfig", "positional"}, value: Seq(Chars)]

ASSUME ArgsAssumption == ExtraArgs \subseteq Seq(Arguments)

Numbers == {<<d>> : d \in {"0", "8080"} \cup Ports}

\* An argument flag.Parse accepts: a declared flag, with a value of its type.
Accepted(a) ==
  /\ a.flag \in DOMAIN Defaults
  /\ a.flag = "v" => a.value \in Numbers
  /\ a.flag \in {"ignore_global_oom", "version"} => a.value \in {<<"true">>, <<"false">>}

PrintsVersion == <<Arg("version", <<"true">>)>>

Init ==
  /\ \/ values \in Values /\ version = <<>>
     \/ /\ values = [dryRun |-> FALSE, victimAnnotation |-> <<>>, disabled |-> TRUE,
                     port |-> "8080", extraArgs |-> PrintsVersion]
        /\ version \in Versions
  /\ info = <<>>
  /\ stage = "render" /\ args = <<>> /\ opts = Defaults
  /\ tracer = [key |-> <<>>, val |-> <<>>, addr |-> <<>>]
-----------------------------------------------------------------------------
Blank(s) == \A i \in DOMAIN s : s[i] = "space"

NonBlanks(s) == {i \in DOMAIN s : s[i] # "space"}

\* strings.TrimSpace
TrimSpace(s) ==
  IF Blank(s) THEN <<>> ELSE SubSeq(s, Min(NonBlanks(s)), Max(NonBlanks(s)))

\* The default the template gives an empty victimAnnotation: evict-me='yes'.
DefaultAnnotation == <<"a", "=", "quote", "a", "quote">>

AnnotationWithoutDefault(v) == v.victimAnnotation     \* Mutant: no default.

AnnotationQuoted(v) == <<"quote">> \o v.victimAnnotation \o <<"quote">>   \* Mutant.

\* A plain scalar of YAML: quotes inside it stand for themselves, spaces at
\* its end are not part of it.
Annotation(v) ==
  LET a == v.victimAnnotation
  IN  IF a = <<>> THEN DefaultAnnotation
      ELSE IF Blank(a) THEN <<>> ELSE SubSeq(a, 1, Max(NonBlanks(a)))

DefaultAddress(v) == <<>>      \* Mutant: the template leaves the address to the flag.

Address(v) ==
  IF v.disabled THEN <<>> ELSE <<Arg("metrics_bind_address", <<v.port>>)>>

\* The value of --victim_annotation.
RenderedAnnotation(v) == IF v.dryRun THEN <<"quote", "quote">> ELSE Annotation(v)

\* helm install
Render ==
  /\ stage = "render" /\ stage' = "parse"
  /\ args' = <<Arg("v", <<"0">>), Arg("victim_annotation", RenderedAnnotation(values))>>
             \o Address(values) \o values.extraArgs
  /\ UNCHANGED <<config, opts, tracer, info>>

\* flag.Parse, one argument.  It stops at the first that is no flag, and
\* ends the process at one it does not accept.
ParseArg ==
  /\ stage = "parse" /\ args # <<>>
  /\ LET a == Head(args) IN
     \/ /\ Accepted(a)
        /\ opts' = [opts EXCEPT ![a.flag] = a.value]
        /\ args' = Tail(args) /\ UNCHANGED stage
     \/ /\ a.flag = "positional"
        /\ args' = <<>> /\ UNCHANGED <<opts, stage>>
     \/ /\ ~Accepted(a) /\ a.flag # "positional"
        /\ stage' = "usage" /\ UNCHANGED <<args, opts>>
  /\ UNCHANGED <<config, tracer, info>>

Parsed ==
  /\ stage = "parse" /\ args = <<>> /\ stage' = "init"
  /\ UNCHANGED <<config, args, opts, tracer, info>>

Invalid == [ok |-> FALSE, key |-> <<>>, val |-> <<>>]

Cut(s, i) == <<SubSeq(s, 1, i - 1), SubSeq(s, i + 1, Len(s))>>

Equals(s) == {i \in DOMAIN s : s[i] = "="}

SplitAtLast(s) ==      \* Mutant: strings.LastIndex.
  IF Equals(s) = {} THEN <<s>> ELSE Cut(s, Max(Equals(s)))

\* strings.SplitN(s, "=", 2)
SplitN(s) == IF Equals(s) = {} THEN <<s>> ELSE Cut(s, Min(Equals(s)))

parseAnnotation(raw) ==
  LET value == TrimSpace(raw)
      parts == SplitN(value)
  IN  CASE value = <<>> -> [ok |-> TRUE, key |-> <<>>, val |-> <<>>]
        [] value # <<>> /\ Len(parts) # 2 -> Invalid
        [] value # <<>> /\ Len(parts) = 2 ->
             IF TrimSpace(parts[1]) = <<>> THEN Invalid
             ELSE [ok |-> TRUE, key |-> TrimSpace(parts[1]), val |-> TrimSpace(parts[2])]

\* if *printVersion
PrintVersion ==
  /\ stage = "init" /\ opts.version = <<"true">>
  /\ stage' = "printed" /\ info' = Get(version)
  /\ UNCHANGED <<config, args, opts, tracer>>

\* NewMetrics and NewOOMTracer.
Start ==
  /\ stage = "init" /\ opts.version # <<"true">>
  /\ LET r == parseAnnotation(opts.victim_annotation) IN
     /\ stage' = IF r.ok THEN "running" ELSE "fatal"
     /\ tracer' = [key |-> r.key, val |-> r.val,
                   addr |-> TrimSpace(opts.metrics_bind_address)]
  /\ UNCHANGED <<config, args, opts, info>>

Next == Render \/ ParseArg \/ Parsed \/ PrintVersion \/ Start

Spec == Init /\ [][Next]_vars
-----------------------------------------------------------------------------
Overridden(f) == \E i \in DOMAIN values.extraArgs : values.extraArgs[i].flag = f

(***************************************************************************)
(* The readings of a text as blanks, a key without "=", blanks, "=",       *)
(* blanks, a value, and blanks: the "key= or key=anyvalue form" of the     *)
(* flag's help text.                                                       *)
(***************************************************************************)
Layouts(s, e) ==
  {x \in [i: 1..(e-1), j: 1..(e-1), k: (e+1)..(Len(s)+1), l: e..Len(s)] :
     /\ s[e] = "=" /\ \A n \in x.i..x.j : s[n] # "="
     /\ \A n \in DOMAIN s \ ((x.i..x.j) \cup {e} \cup (x.k..x.l)) : s[n] = "space"
     /\ x.i <= x.j /\ s[x.i] # "space" /\ s[x.j] # "space"
     /\ x.k <= x.l + 1
     /\ x.k <= x.l => s[x.k] # "space" /\ s[x.l] # "space"}

Readings(s) ==
  UNION {{[key |-> SubSeq(s, x.i, x.j), val |-> SubSeq(s, x.k, x.l)] : x \in Layouts(s, e)}
         : e \in DOMAIN s}

(***************************************************************************)
(* parseAnnotation accepts what has exactly one such reading, and returns  *)
(* it; the only other text it accepts is a blank one, which means dry-run  *)
(* mode (oomtracer.go:249-264, main.go:48).                                *)
(***************************************************************************)
ParsesAsDocumented ==
  stage \in {"running", "fatal"} =>
    LET s == opts.victim_annotation IN
    IF stage = "fatal" THEN ~Blank(s) /\ Readings(s) = {}
    ELSE \/ Blank(s) /\ tracer.key = <<>> /\ tracer.val = <<>>
         \/ Readings(s) = {[key |-> tracer.key, val |-> tracer.val]}

(***************************************************************************)
(* A victimAnnotation with a reading is the one the tracer works with,     *)
(* through the template, YAML and the flags (daemonset.yaml:53).           *)
(***************************************************************************)
AnnotatesAsConfigured ==
  /\ stage \in {"running", "fatal"} /\ ~values.dryRun
  /\ ~Overridden("victim_annotation") /\ Readings(values.victimAnnotation) # {}
  => stage = "running" /\ [key |-> tracer.key, val |-> tracer.val]
                            \in Readings(values.victimAnnotation)

(***************************************************************************)
(* A tracer that runs only observes if and only if the values say so.  An  *)
(* empty annotation means dry-run mode to the flag (main.go:48), but not   *)
(* to the template, which gives an empty victimAnnotation a default        *)
(* (daemonset.yaml:53); what says so is dryRun, or a victimAnnotation of   *)
(* nothing but spaces.                                                     *)
(***************************************************************************)
AskedToObserve ==
  \/ values.dryRun
  \/ Len(values.victimAnnotation) > 0 /\ Blank(values.victimAnnotation)

ObservesAsAsked ==
  stage = "running" /\ ~Overridden("victim_annotation")
    => (tracer.key = <<>> <=> AskedToObserve)

(***************************************************************************)
(* The port the pod declares is the one the endpoint is bound to           *)
(* (daemonset.yaml:56, 68), unless extraArgs say otherwise.  With          *)
(* metric.disabled the pod declares none and the template leaves the flag  *)
(* out, which does not disable the endpoint: it is bound to the default    *)
(* (main.go:47).                                                           *)
(***************************************************************************)
DeclaredPortServed ==
  stage = "running" /\ ~Overridden("metrics_bind_address")
    => tracer.addr = IF values.disabled THEN Defaults.metrics_bind_address
                     ELSE <<values.port>>

(***************************************************************************)
(* values.yaml:7: dryRun means "Only report OOM kills".                    *)
(***************************************************************************)
DryRunOnlyReports ==
  /\ stage \in {"running", "fatal"} /\ values.dryRun
  /\ ~Overridden("victim_annotation")
  => stage = "running" /\ tracer.key = <<>>

(***************************************************************************)
(* What --version prints loses nothing of a version that was recognised:   *)
(* the major version is a number, and with the minor one it spells the     *)
(* version out, although strings.Split may return more parts than the      *)
(* three that are used (version.go:52-68).                                 *)
(***************************************************************************)
SplitsVersion ==
  stage = "printed" /\ info.Major # <<>>
    => Digits(info.Major) /\ <<"v">> \o info.Major \o <<".">> \o info.Minor = version
=============================================================================
