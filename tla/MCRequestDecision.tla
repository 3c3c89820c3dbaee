-------------------------- MODULE MCRequestDecision -------------------------
(***************************************************************************)
(* The shipped example requests, and the options tried on them.            *)
(***************************************************************************)
EXTENDS RequestDecision

\* examples/requests/dev-app.yaml, staging-app.yaml,
\* prod-app-compliant.yaml and prod-app-noncompliant.yaml
DevApp ==
  [name |-> "catalog-api", environment |-> "dev", owner |-> "catalog-team",
   cost_center |-> "CC-code", data_classification |-> "internal", platform |-> "local",
   storage_gb |-> 20, extensions |-> {"pg_stat_statements"}]

StagingApp ==
  [DevApp EXCEPT !.environment = "staging", !.platform = "aws", !.storage_gb = 50,
                 !.extensions = {"pg_stat_statements", "pgaudit"}]
    @@ [backup_retention_days |-> 7, availability_target |-> 9900]

ProdApp ==
  [name |-> "orders-api", environment |-> "prod", owner |-> "payments-team",
   cost_center |-> "CC-code", data_classification |-> "confidential", platform |-> "aws",
   storage_gb |-> 200, multi_az |-> TRUE, backup_retention_days |-> 30,
   deletion_protection |-> TRUE, enhanced_monitoring |-> TRUE, connection_limit |-> 200,
   extensions |-> {"pg_stat_statements", "pgaudit", "auto_explain"},
   tags |-> [team |-> "payments"], approvals |-> <<"CHG-1">>, availability_target |-> 9990]

RiskyApp ==
  [name |-> "risky-app", environment |-> "prod", owner |-> "x", cost_center |-> "CC-9",
   data_classification |-> "restricted", platform |-> "local", storage_gb |-> 20,
   multi_az |-> FALSE, backup_retention_days |-> 3, deletion_protection |-> FALSE,
   enhanced_monitoring |-> FALSE, extensions |-> {"pg_stat_statements"}, approvals |-> <<>>,
   availability_target |-> 9500]

\* The global tags of policies/tagging.yaml, with two keys that shadow required
\* tags, one of them left blank.
ShadowingTags ==
  [provisioned_by |-> "dbre-platform", terraform_managed |-> "true",
   owner |-> "platform-team", cost_center |-> Blank]

ExampleRequests == {DevApp, StagingApp, ProdApp, RiskyApp}

TriedFlags ==
  {<<"name", "reserved">>, <<"name", "billing-api">>, <<"namespace", "malformed">>}

TriedSettings ==
  ({"multi_az", "deletion_protection", "enhanced_monitoring"} \X {FALSE, TRUE})
    \cup ({"backup_retention_days"} \X {0, 7, 29, 35, 36})
    \cup ({"availability_target"} \X {9500, 9989, 10000})
    \cup ({"storage_gb"} \X {99, 600}) \cup ({"connection_limit"} \X {4, 600})
    \cup ({"statement_timeout", "idle_timeout"} \X {601})
    \cup ({"environment"} \X {"dev", "staging", "prod"})
    \cup {<<"platform", "k3s">>, <<"platform", "local">>, <<"data_classification", "restricted">>,
          <<"owner", "x">>, <<"cost_center", "x">>, <<"name", "risky-app">>,
          <<"approvals", <<>> >>, <<"extensions", {}>>, <<"unknown", 1>>,
          <<"tags", [owner |-> "somebody else", provisioned_by |-> "hand"]>>}

=============================================================================
