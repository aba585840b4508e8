----------------------------- MODULE MCRunQueue -----------------------------
\* Slots that share a group, that start and end one, and the idle slot's group.
EXTENDS RunQueue

MCTcbs == {1, 63}
MCPrios == {0, 1, 7, 8, 62, 63}
=============================================================================
