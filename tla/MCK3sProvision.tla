--------------------------- MODULE MCK3sProvision ---------------------------
(***************************************************************************)
(* Model values and small sets of requests for K3sProvision.               *)
(***************************************************************************)
EXTENDS K3sProvision, FiniteSets

CONSTANTS r1, r2

TwoRuns == {r1, r2}

Request(n, e, p, s) == [name |-> n, env |-> e, platform |-> p, ns |-> s]

OrdersDev == Request("orders", "dev", "k3s", "dbre")
OrdersProd == Request("orders", "prod", "k3s", "team")
OrdersStaging == Request("orders", "staging", "local", "team")

\* Two runs for one Cluster, for one name in two Clusters, and for another
\* backend.
MixedRequests == {OrdersDev, OrdersProd, OrdersStaging}

\* One request, provisioned again only after the run before has ended.
OneRequest == {OrdersDev}

OneAtATime == Cardinality({r \in Runs : stage[r] \in InFlight}) <= 1

RetrySpec == Init /\ [][Next /\ OneAtATime']_vars

=============================================================================
