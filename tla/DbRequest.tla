----------------------------- MODULE DbRequest ------------------------------
(***************************************************************************)
(* From a request document to a request: config/overrides.py,              *)
(* config/loader.py, config/models.py and tagging/governance.py.           *)
(*                                                                         *)
(* A document maps the paths that it sets to values; only the last segment *)
(* of a path is kept, since no two fields share one.  Values stand for     *)
(* what the rules and checks tell apart: names, owners and cost centers    *)
(* are the class they belong to, availability is in hundredths of a        *)
(* percent, times are in seconds.                                          *)
(***************************************************************************)
EXTENDS Naturals, FiniteSets, Sequences

\* A dictionary updated with another one: f where it says something, else g.
Over(f, g) == [x \in DOMAIN f \cup DOMAIN g |-> IF x \in DOMAIN f THEN f[x] ELSE g[x]]

\* --name and --namespace; the resource flags work alike.
NamedFieldPaths == [name |-> "name", namespace |-> "namespace"]

\* build_field_overrides: --set is applied after the named flags.
BuildFieldOverrides(named, setValues) ==
  Over(setValues, [f \in {NamedFieldPaths[n] : n \in DOMAIN named} |-> named[f]])

ApplyFieldOverrides(document, overrides) == Over(overrides, document)

\* What the document does not list is added to nothing, not to the default.
ApplyExtensionAdditions(document, added) ==
  IF added = {} THEN document
  ELSE Over([extensions |-> added \cup
               (IF "extensions" \in DOMAIN document THEN document.extensions ELSE {})],
            document)

-----------------------------------------------------------------------------
\* DatabaseSpec and SLOTargets: what a document need not set.
Defaults ==
  [platform |-> "local", storage_gb |-> 20, namespace |-> "dbre", multi_az |-> FALSE,
   backup_retention_days |-> 7, deletion_protection |-> FALSE, enhanced_monitoring |-> FALSE,
   connection_limit |-> 100, statement_timeout |-> 30, idle_timeout |-> 60,
   extensions |-> {"pg_stat_statements"}, tags |-> <<>>, approvals |-> <<>>,
   availability_target |-> 9950]

RequiredFields == {"name", "environment", "owner", "cost_center", "data_classification"}

Fields == RequiredFields \cup DOMAIN Defaults

\* The empty string.
Blank == ""

\* Field(ge=low, le=high) of an integer.
Within(v, low, high) == v \in Nat /\ low <= v /\ v <= high

\* The constraints of the schema.
WellFormed(q) ==
  /\ q.name # "malformed"
  /\ q.environment \in {"dev", "staging", "prod"}
  /\ q.owner # Blank /\ q.cost_center # Blank
  /\ q.data_classification \in {"public", "internal", "confidential", "restricted"}
  /\ q.platform \in {"local", "k3s", "aws"}
  /\ q.namespace # "malformed"
  /\ Within(q.storage_gb, 20, 65536)
  /\ Within(q.backup_retention_days, 0, 35)
  /\ Within(q.connection_limit, 5, 5000)
  /\ {q.statement_timeout, q.idle_timeout} \subseteq Nat \ {0}
  /\ Within(q.availability_target, 1, 10000)
  /\ q.approvals \in Seq(STRING)

\* DatabaseRequest.model_validate, given a document without unknown fields.
Validated(document) == Over(document, Defaults)

IsValid(document) ==
  /\ DOMAIN document \subseteq Fields
  /\ RequiredFields \subseteq DOMAIN document
  /\ WellFormed(Validated(document))

\* The document load_database_request validates.
Customized(template, named, setValues, added) ==
  ApplyExtensionAdditions(
    ApplyFieldOverrides(template, BuildFieldOverrides(named, setValues)), added)

-----------------------------------------------------------------------------
RequiredTags(q) ==
  [application |-> q.name, environment |-> q.environment, owner |-> q.owner,
   managed_by |-> "dbre-platform", cost_center |-> q.cost_center,
   data_classification |-> q.data_classification]

RenderedTags(q) == Over(RequiredTags(q), q.tags)

\* Mutant: the global tags are applied last.
GlobalTagsLast(q, global) == Over(global, Over(RenderedTags(q), q.tags))

\* resolve_tags: what the request asks for, under the global tags of
\* policies/tagging.yaml, under what rendered_tags makes of the request.
ResolveTags(q, global) == Over(RenderedTags(q), Over(global, q.tags))

=============================================================================
