--------------------------- MODULE MCBlockchainSync ---------------------------
EXTENDS BlockchainSync, TLC

CONSTANT MaxInFlight    \* bound: requests and replies in flight at once

\* State constraint: at most MaxInFlight calls outstanding.
InFlightBound == BagCardinality(net) <= MaxInFlight
=============================================================================
