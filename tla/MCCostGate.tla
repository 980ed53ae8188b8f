----------------------------- MODULE MCCostGate -----------------------------
EXTENDS CostGate

Accounts == {"mine", "other"}

\* The limits at the deepest and at the last path; the words at a first and at a
\* later one.
DeepAndFlat ==
    {[name |-> "name", plan |-> "plan", state |-> "state", cloud |-> "cloud_provider",
      limit |-> 1],
     [name |-> "cluster.name", plan |-> "cluster.plan", state |-> "cluster.state",
      cloud |-> "cluster.cloud", limit |-> 8]}

=============================================================================
