--------------------------- MODULE MCLeaseService ---------------------------
EXTENDS LeaseService, TLC

CONSTANTS t1, t2, r1, r2, r3, r4, r5, r6, r7, r8, r9,
          near, far, publish

OneTenant == {t1}
TwoTenants == {t1, t2}

ThreeRequests == {r1, r2, r3}
FourRequests == {r1, r2, r3, r4}
NineRequests == {r1, r2, r3, r4, r5, r6, r7, r8, r9}
ReceiptIds == Request \X (1 .. 3)

TopicValues == {near, far}
QueryValues == {publish}
ScoreValues == [x \in TopicValues |-> [q \in QueryValues |-> IF x = near THEN 2 ELSE 1]]

\* A denial that starts at once and holds on, one that starts later, one that ends.
Denials ==
    {[effect |-> "deny", topic |-> near, delay |-> 0, length |-> None],
     [effect |-> "deny", topic |-> near, delay |-> 1, length |-> None],
     [effect |-> "deny", topic |-> far,  delay |-> 0, length |-> 1]}

\* Of a client whose clock is behind the host's: one that has begun, and ends, and one
\* that starts when the initial permission does.
PassingDenials ==
    {[effect |-> "deny", topic |-> far,  delay |-> -1, length |-> 1],
     [effect |-> "deny", topic |-> near, delay |-> 0,  length |-> None]}

\* A denial that is relevant but not very, and permissions that are more so.
DenialAndPermissions ==
    {[effect |-> "deny",  topic |-> far,  delay |-> 0, length |-> None],
     [effect |-> "allow", topic |-> near, delay |-> 0, length |-> None]}

\* Requests are alike, and so are tenants: no behaviour is lost but for its names when
\* they come in turn.
Turn == <<r1, r2, r3, r4, r5, r6, r7, r8, r9>>

InTurn ==
    /\ \A i \in 1 .. Cardinality(Request) - 1 :
          pc[Turn[i]] = "idle" => pc[Turn[i + 1]] = "idle"
    /\ \A r \in Request : call[r] # None /\ call[r].tenant = t2 =>
          \E s \in Request : call[s] # None /\ call[s].tenant = t1

\* Only requests that succeed, one after another, and additions that replace nothing.
NoDetours ==
    /\ InTurn
    /\ \A r \in Request :
        /\ pc[r] # "failed"
        /\ call[r] # None => call[r].op # "state"
        /\ call[r] # None /\ call[r].op = "add" => call[r].draft.supersedes = None

Symmetry == Permutations(Request)
=============================================================================
