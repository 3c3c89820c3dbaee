--------------------------- MODULE MCAwsProvision ---------------------------
(***************************************************************************)
(* Model values and a small set of requests for AwsProvision.              *)
(***************************************************************************)
EXTENDS AwsProvision, TLC

CONSTANTS r1, r2, r3

ThreeRuns == {r1, r2, r3}
TwoApprove == {r1, r2}

Request(n, e, p, d) == [name |-> n, env |-> e, platform |-> p, protected |-> d]

\* Two names in each environment, protected and, in dev, also not, and a
\* request for another backend.
OrdersDev == Request("orders", "dev", "aws", FALSE)
BillingDev == Request("billing", "dev", "aws", TRUE)
OrdersProd == Request("orders", "prod", "aws", TRUE)
BillingProd == Request("billing", "prod", "aws", TRUE)
OrdersStaging == Request("orders", "staging", "k3s", FALSE)

AwsRequests == {OrdersDev, BillingDev, OrdersProd, BillingProd, OrdersStaging}

Interchangeable == Permutations(TwoApprove)

=============================================================================
