--------------------------- MODULE MCStoreClients ---------------------------
EXTENDS StoreClients

CONSTANTS t1, t2, r1, about

TenantValues == {t1, t2}
ReceiptValues == {r1}
TopicValues == {about}
QueryValues == {"publish"}
ScoreValues == [x \in TopicValues |-> [q \in QueryValues |-> 1]]

\* A permission, and denials that replace the first or second memory of a tenant.
DraftValues ==
    {[effect |-> "allow", topic |-> about, from |-> 0, until |-> None, supersedes |-> None]}
    \cup
    {[effect |-> "deny", topic |-> about, from |-> 0, until |-> None, supersedes |-> id] :
        id \in {<<t1, 1>>, <<t1, 2>>, <<t2, 1>>}}

=============================================================================
