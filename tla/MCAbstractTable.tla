------------------------- MODULE MCAbstractTable ----------------------------
(***************************************************************************)
(* Model-checking instance of AbstractTable: one field f with values 0/1, *)
(* two real ids, draft ids from 3.                                         *)
(***************************************************************************)
EXTENDS AbstractTable, TLC

CONSTANT f, MaxInFlight

\* draftAddRow is called with an empty field map or one setting f
MCAddFieldMaps  == {[x \in {} |-> 0], f :> 1}
\* draftAddRow always sets f, so a later edit of f finds it in the record
MCAddFieldMapsWithF == {f :> 1}

\* draftEditRow changes f
MCEditFieldMaps == {f :> 0, f :> 1}

\* Bound: requests and replies in flight at once
InFlightBound == BagCardinality(net) <= MaxInFlight

\* Bound: journal entries written, by other accounts and by the UI's transactions
JournalBound == Len(journal) <= MaxJournal

=============================================================================
