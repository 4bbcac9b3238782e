------------------------------ MODULE MCLogTags ------------------------------
EXTENDS LogTags, TLC

\* Every task hashes to the same tag, so each tag is found by probing.
MCHash == [t \in Tasks |-> 0]
=============================================================================
