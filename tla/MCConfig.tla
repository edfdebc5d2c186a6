------------------------------ MODULE MCConfig ------------------------------
(***************************************************************************)
(* Values of the constants of Config for TLC.                              *)
(***************************************************************************)
EXTENDS Config, SequencesExt

\* Nothing, overrides, a flag that is not declared, values of the wrong
\* type, and an argument that is no flag and hides the one after it.
MCExtraArgs ==
  { <<>>,
    <<Arg("victim_annotation", <<"space">>)>>,
    <<Arg("ignore_global_oom", <<"true">>), Arg("metrics_bind_address", <<>>)>>,
    <<Arg("kubeconfig", <<"a">>)>>,
    <<Arg("ignore_global_oom", <<"a">>)>>,
    <<Arg("v", <<"8080">>), Arg("v", <<"a">>)>>,
    <<Arg("positional", <<>>), Arg("metrics_bind_address", <<>>)>> }

\* Up to six pieces of what git describe may have printed.
MCVersions ==
  {FlattenSeq(p) : p \in UNION {[1..n -> {<<"v", "7">>, <<"v">>, <<"7">>, <<".">>,
                                          <<".", "7">>, <<"-", "v", "7">>}] : n \in 0..6}}
=============================================================================
