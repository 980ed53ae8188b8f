-------------------------- MODULE MCCockroachStore --------------------------
EXTENDS CockroachStore, TLC

CONSTANTS t1, t2, c1, c2, c3, a1, about

OneTenant == {t1}
TwoTenants == {t1, t2}
TwoCallers == {c1, c2}
ThreeCallers == {c1, c2, c3}
OneReceipt == {a1}
NoReceipt == {}
NoQuery == {}
TopicValues == {about}
QueryValues == {"publish"}
ScoreValues == [x \in TopicValues |-> [q \in Query |-> 1]]

\* A permission; a denial that starts later; a denial that replaces the first memory.
Permission ==
    [effect |-> "allow", topic |-> about, from |-> 0, until |-> None, supersedes |-> None]
LaterDenial ==
    [effect |-> "deny", topic |-> about, from |-> 1, until |-> None, supersedes |-> None]
Revocation ==
    [effect |-> "deny", topic |-> about, from |-> 0, until |-> None, supersedes |-> <<t1, 1>>]

PermissionOnly == {Permission}
TimedDrafts == {LaterDenial, Revocation}

Symmetry == Permutations(Caller)
=============================================================================
