------------------------------ MODULE MCRouting ------------------------------
(* An instance of Routing for TLC. *)
EXTENDS Routing, TLC

CONSTANTS r1, r2

MCRequests == {r1, r2}

Host(ip) == [ip |-> ip, port |-> 80]
TwoHosts == {Host("a"), Host("b")}

MCProvided == "c1" :> TwoHosts @@ "c2" :> {Host("b")}
MCHostSets == {{Host("a"), Host("b"), Host("c")}, {}}

Hdr(k) == <<k, "on">>

MCRule(cluster, backend, headers) ==
    [SceneName |-> "scene", Backend |-> backend, Cluster |-> cluster, Headers |-> headers]

\* The default rule comes first; the second model has none.
Model2 == "m2" :> << MCRule("c2", "triton", <<Hdr("x")>>) >>
Models == "m1" :> << MCRule("c1", "vllm", <<>>),
                     MCRule("c1", "vllm", <<Hdr("x")>>),
                     MCRule("c1", "vllm", <<Hdr("x"), Hdr("y")>>) >>
          @@ Model2

TwoClusters == "m1" :> << MCRule("c1", "vllm", <<Hdr("x")>>), MCRule("c2", "vllm", <<>>) >>

\* The example of learning/index.md:222-234.
Gray == "m1" :> << MCRule("c2", "vllm", <<Hdr("premium")>>), MCRule("c1", "sglang", <<>>) >>

LBConf(percent, request, prefill, cache) ==
    [ LoadAwareEnable |-> TRUE, CacheAwareEnable |-> TRUE, CandidatePercent |-> percent,
      RequestLoadWeight |-> request, PrefillLoadWeight |-> prefill,
      CacheRadioWeight |-> cache ]

Conf(algorithm, models, lbs) ==
    [ Protocol |-> "openai", Algorithm |-> algorithm, ModelMappingRule |-> models,
      LbMappingRule |-> lbs ]

MCConfigs ==
    { Conf("inference_lb", Models, "m1" :> LBConf(70, 1, 3, 2)),
      Conf("inference_lb", TwoClusters, <<>>),
      Conf("round_robin", Model2, <<>>),
      Conf("inference_lb", <<>>, <<>>) }

\* The model with a default rule only, and then the documented rules.
GrayConfigs ==
    { Conf("inference_lb", "m1" :> << MCRule("c1", "sglang", <<>>) >>, <<>>),
      Conf("inference_lb", Gray, <<>>) }

MCInputs ==
    [model : {"m1"}, headers : {{Hdr("x"), Hdr("y")}, {}}, wellFormed : {TRUE}]
    \cup [model : {"m2"}, headers : {{Hdr("x")}, {}}, wellFormed : {TRUE}]
    \cup [model : {"m2"}, headers : {{}}, wellFormed : {FALSE}]

MCEnvs == { [enable |-> "", host |-> TRUE, cache |-> "false", percent |-> 5],
            [enable |-> "", host |-> FALSE, cache |-> "", percent |-> 5] }

MCPrompt == <<"p", "q">>

Load(q, p) == [QueuedReqNum |-> q, PromptLength |-> p]
Cached(ip, n) == [Ip |-> ip, Length |-> n]
Found(locations) == [Locations |-> locations]

\* A load query that fails, loads that agree and disagree with the cached
\* prefixes, negative counts among them, and hosts nobody reports on.
MCAnswers ==
    { [load |-> "a" :> Load(-1, -5) @@ "b" :> Load(0, 0), cache |-> QueryError],
      [load |-> "a" :> Load(7, 0) @@ "b" :> Load(3, 4096), 
        cache |-> Found(<< Cached("a", 2), Cached("b", 2), Cached("b", 1) >>)],
      [load |-> QueryError, cache |-> Found(<< Cached("b", 1) >>)] }
=============================================================================
