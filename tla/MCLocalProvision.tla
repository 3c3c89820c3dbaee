-------------------------- MODULE MCLocalProvision --------------------------
(***************************************************************************)
(* Model values and small sets of requests for LocalProvision.             *)
(***************************************************************************)
EXTENDS LocalProvision

CONSTANTS r1, r2

TwoRuns == {r1, r2}

Request(n, e, p) == [name |-> n, env |-> e, platform |-> p]

OrdersDev == Request("orders", "dev", "local")
OrdersProd == Request("orders", "prod", "k3s")
CatalogDev == Request("catalog", "dev", "local")
CatalogProd == Request("catalog", "prod", "local")
CatalogStaging == Request("catalog", "staging", "local")

\* Two environments of one name, another name, a request that breaks the
\* platform rule, and one that scores below its threshold.
MixedRequests == {OrdersDev, OrdersProd, CatalogDev, CatalogProd, CatalogStaging}
MixedCompliant == MixedRequests \ {CatalogProd}
MixedReady == MixedRequests \ {CatalogStaging}

=============================================================================
