--------------------------- MODULE MCSubscription ---------------------------
(* Small instances of Subscription for TLC. *)
EXTENDS Subscription, TLC, FiniteSets

CONSTANTS s1, s2, c1, c2, k1, k2, r1, r2, r3, w1

Symmetry == Permutations({s1, s2}) \union Permutations({c1, c2}) \union Permutations({k1, k2})
    \union Permutations(Requests)

\* A bound on the whole history: requests, customers and what Stripe does on its own.
AtMostFour ==
    renewals + Cardinality(customers) + Cardinality({r \in Requests : ~At(r, "idle")}) <= 4
=============================================================================
