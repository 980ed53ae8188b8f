--------------------------- MODULE MCReplayClient ---------------------------
EXTENDS ReplayClient

CONSTANTS publishing, audience, publish

Clicks3 == 1 .. 3
Clicks4 == 1 .. 4
TopicValues == {publishing, audience}
QueryValues == {publish}
ScoreValues == [x \in TopicValues |-> [q \in QueryValues |-> 1]]

=============================================================================
