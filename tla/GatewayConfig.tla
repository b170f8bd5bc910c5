---------------------------- MODULE GatewayConfig ----------------------------
(***************************************************************************)
(* The llmproxy plugin's configuration: what Validate (generated from      *)
(* config.proto) and Parse accept, what Init makes of it, and the lookups  *)
(* a request makes in it.                                                  *)
(*                                                                         *)
(* A name is a string; "" is the absent one, and LongName stands for every *)
(* name its validation rule finds too long or ill-formed.  The headers of  *)
(* a rule are a list of <<key, value>> pairs, which may repeat one; those  *)
(* of a request are a set.  Maps are functions on the set of their keys.   *)
(***************************************************************************)
EXTENDS Integers, Sequences, FiniteSets

LongName == "long"

Bounded(name) == name # LongName
Named(name) == name \notin {"", LongName}

\* config.pb.go: the messages a configuration is made of.
Rule == [ SceneName : STRING, Headers : Seq(STRING \X STRING),
          Backend : STRING, Cluster : STRING ]

LBConfig == [ LoadAwareEnable : BOOLEAN, CacheAwareEnable : BOOLEAN,
              CandidatePercent : Int, RequestLoadWeight : Int,
              PrefillLoadWeight : Int, CacheRadioWeight : Int ]

IsConfig(c) ==
    /\ \A m \in DOMAIN c.ModelMappingRule : c.ModelMappingRule[m] \in Seq(Rule)
    /\ \A m \in DOMAIN c.LbMappingRule : c.LbMappingRule[m] \in LBConfig

-----------------------------------------------------------------------------
\* config.pb.validate.go, header.pb.validate.go: HTNN calls Validate before
\* anything else.  Subsets and the log settings have no rules.

ValidHeader(header) == Named(header[1]) /\ Bounded(header[2])

\* SceneName stands for ChainName and RouteName as well.
ValidRule(rule) ==
    /\ Bounded(rule.SceneName)
    /\ \A i \in DOMAIN rule.Headers : ValidHeader(rule.Headers[i])
    /\ Named(rule.Backend)
    /\ Named(rule.Cluster)

ValidRules(rules) ==
    /\ Len(rules) >= 1
    /\ \A i \in DOMAIN rules : ValidRule(rules[i])

ValidLBConfig(lb) == lb.CandidatePercent \in 0 .. 100

Validate(c) ==
    /\ c.Protocol # ""
    /\ c.Algorithm # ""
    /\ \A m \in DOMAIN c.ModelMappingRule : ValidRules(c.ModelMappingRule[m])
    /\ \A m \in DOMAIN c.LbMappingRule : ValidLBConfig(c.LbMappingRule[m])

-----------------------------------------------------------------------------
\* config.go: Parse checks each model's rules.

Backend(rule) == IF rule.Backend = "" THEN "triton" ELSE rule.Backend

validateRules(rules) ==
    /\ rules # <<>>
    /\ \A i \in DOMAIN rules :
          /\ rules[i].Cluster = rules[1].Cluster
          /\ Backend(rules[i]) = Backend(rules[1])

Parse(c) ==
    \A m \in DOMAIN c.ModelMappingRule : validateRules(c.ModelMappingRule[m])

\* A header named twice counts twice.
HeaderNum(rule) == Len(rule.Headers)

\* Mutant: the rules stay in the order they were written.
Unsorted(rules) == {rules}

\* The orders sort.Slice may leave the rules in: more headers first; it
\* promises nothing about rules with equally many.
SortTuples(rules) ==
    { [i \in DOMAIN rules |-> rules[p[i]]] :
        p \in { q \in [DOMAIN rules -> DOMAIN rules] :
                  /\ \A i, j \in DOMAIN rules : q[i] = q[j] => i = j
                  /\ \A i, j \in DOMAIN rules :
                        i < j => HeaderNum(rules[q[i]]) >= HeaderNum(rules[q[j]]) } }

\* buildModelMappings and Init: the mappings requests will look into.
Mappings(c) ==
    LET models == { m \in DOMAIN c.ModelMappingRule : c.ModelMappingRule[m] # <<>> }
    IN  { f \in [models -> UNION { SortTuples(c.ModelMappingRule[m]) : m \in models }] :
            \A m \in models : f[m] \in SortTuples(c.ModelMappingRule[m]) }

InitConfig(c) ==
    { [ Protocol |-> c.Protocol, Algorithm |-> c.Algorithm,
        ModelMappings |-> f, LbMappingConfigs |-> c.LbMappingRule ] :
      f \in Mappings(c) }

-----------------------------------------------------------------------------
\* Lookups.  cfg is what Init made.

NoRule == [nil |-> TRUE]

Matches(rule, headers) == \A i \in DOMAIN rule.Headers : rule.Headers[i] \in headers

\* The first rule, in the order of the tuples, whose headers the request has.
GetCandidateRule(tuples, headers) ==
    LET matching == { i \in DOMAIN tuples : Matches(tuples[i], headers) }
    IN  IF matching = {} THEN NoRule
        ELSE tuples[CHOOSE i \in matching : \A j \in matching : i <= j]

\* openai.go, GetRequestData: "" and NoRule stand for a configuration
\* without mappings, for which the request data stays empty.
GetRequestData(cfg, req) ==
    LET models == DOMAIN cfg.ModelMappings
        rule   == GetCandidateRule(cfg.ModelMappings[req.model], req.headers)
        Data(err, name, r) == [err |-> err, ModelName |-> name, rule |-> r]
    IN  IF ~req.wellFormed THEN Data("400", "", NoRule)
        ELSE IF models = {} THEN Data("", "", NoRule)
        ELSE IF req.model \notin models THEN Data("404", "", NoRule)
        ELSE IF rule = NoRule THEN Data("404", "", NoRule)
        ELSE Data("", req.model, rule)

Cluster(data) == IF data.rule = NoRule THEN "" ELSE data.rule.Cluster

NoLBConfig == [nil |-> TRUE]

FindLbMappingRule(cfg, modelName) ==
    IF modelName \in DOMAIN cfg.LbMappingConfigs
    THEN cfg.LbMappingConfigs[modelName] ELSE NoLBConfig
=============================================================================
