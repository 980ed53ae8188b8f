---------------------------- MODULE MCDeployment ----------------------------
EXTENDS Deployment

CONSTANTS recalllease, staging, p1, p2, o1, o2, lambda

TwoDatabases == {recalllease, staging}
OnePassword == {p1}
TwoPasswords == {p1, p2}
OneOperator == {o1}
TwoOperators == {o1, o2}
OneProcess == {lambda}

=============================================================================
