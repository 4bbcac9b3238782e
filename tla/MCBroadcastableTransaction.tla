--------------------- MODULE MCBroadcastableTransaction ---------------------
EXTENDS BroadcastableTransaction, TLC

CONSTANT MaxInFlight    \* bound: calls and replies in flight at once

\* State constraint: at most MaxInFlight calls outstanding.
InFlightBound == BagCardinality(net) <= MaxInFlight
=============================================================================
