------------------------ MODULE MCTransactionPipeline ------------------------
EXTENDS TransactionPipeline, TLC

CONSTANT MaxInFlight    \* bound: calls and replies in flight at once

\* State constraint: at most MaxInFlight calls outstanding.
InFlightBound == BagCardinality(net) <= MaxInFlight

\* Fingerprint of a state: once the transaction is pushed, no step reads the
\* MutableTransaction's actions and expiration or the SignableTransaction
\* again, nor the content of the pushed actions (the node reads only that
\* there is one), so states that differ only in them behave alike.
PipeView ==
    IF submits = 0 THEN <<vars, pipeVars>>
    ELSE <<vars, mtRef, refLive,
           IF packed = NoTrx THEN packed
           ELSE [packed EXCEPT !.actions = Len(@), !.written = Len(@)]>>

\* The strings checked: every string of up to two characters over a sample
\* of each symbol class (dot, digits, the letters of the 13th character's
\* range and beyond it, a character outside the charmap), every extension
\* of eleven letters by up to three characters (the 12th, 13th and 14th
\* positions), and the action names KeyManager dispatches on.
Sample == {".", "1", "5", "a", "j", "k", "z", "A"}
ElevenA == [k \in 1..11 |-> "a"]
NamesChecked ==
    NameInputs(Sample, 2)
    \cup {ElevenA \o t : t \in NameInputs({".", "5", "j", "k", "z", "A"}, 3)}
    \cup ActionNames

\* The voters a user enters into the transaction (fmv, the contract, is a
\* short name): 13 characters whose 12th symbol is odd (its low bit is bit
\* 4 of the word, next to the 13th character's four bits), ending in the
\* largest 13th character that is allowed and in the smallest that is not.
MCVoters ==
    {ElevenA \o <<"b", "j">>, ElevenA \o <<"b", "k">>}

\* An Action QML builds without addAction's checks: its name is no action
\* of the contract.
MCQmlActions ==
    {[name |-> <<"b", "o", "g", "u", "s">>, args |-> {},
      auth |-> AuthorizationTemplate(ContractName, Active)]}

\* The names a user adds in the state machine: dcsn.set, whose voter is
\* in the authorization, and cntst.modify, with the most arguments.
MCUserActions == {DcsnSet, CntstModify}

\* A string survives the trip through a name value (name::set, as
\* permission_level and action use it for what the GUI signs, then
\* name_to_string, as processJournal decodes journal keys) exactly when it
\* is an EOSIO name.  (A constant: TLC evaluates it once.)
RoundTrips(s) == (name_to_string(set(s)) = s) <=> IsValidName(s)
NamesRoundTrip == \A s \in NamesChecked : RoundTrips(s)
VoterReadsBack == [v \in Voters \cup {ContractName} |-> RoundTrips(v)]
ActionNamesValid == \A s \in ActionNames : IsValidName(s)

\* Every string checked, and every voter of the transaction being built,
\* reads back from its name value exactly when it is an EOSIO name; the
\* nine action names of KeyManager's dispatch are names, so their values
\* are distinct.
NameRoundTrip ==
    /\ NamesRoundTrip
    /\ \A i \in DOMAIN mtActions : VoterReadsBack[VoterOf(mtActions[i].auth)]
    /\ ActionNamesValid

\* Voter names as a user may type them: up to two characters, with an
\* upper-case letter, an '@' and a dot among them, and eleven letters
\* extended by up to three more; and the contract account.
VotersChecked ==
    NameInputs({"a", "z", "A", "@", "."}, 2)
    \cup {ElevenA \o t : t \in NameInputs({"a", "k", "@"}, 3)}
    \cup {<<"f", "m", "v">>}

\* The authorization addAction writes for a voter ("voter@active"), signed
\* through permission_level and shown again by decodeAction, reads the
\* same exactly when the voter is an EOSIO name.  (A constant.)
VotersRoundTrip ==
    \A v \in VotersChecked :
        LET auth == AuthorizationTemplate(v, Active)
        IN  (DecodeAuthorization(permission_level(auth)) = auth) <=> IsValidName(v)

\* Every voter checked, and every authorization of the transaction being
\* signed and of the pushed one (SignedAsWritten), reads back after
\* permission_level exactly when its voter is an EOSIO name.
AuthorizationRoundTrip == VotersRoundTrip /\ SignedAsWritten

\* Every action of the contract, added with its legal arguments, is
\* serialized and shown back with its own name and arguments.  (A
\* constant.)
ActionsRoundTrip ==
    \A n \in ActionNames :
        LET shown == Show(Serialize(NewAction(n, LegalActionArguments[n], ContractName)))
        IN  shown.name = n /\ shown.args = LegalActionArguments[n]

\* Every action the GUI can add, and every validated action of the
\* transaction being signed and of the pushed one
\* (ArgumentsSignedAsGiven), is signed with its own name and arguments.
ArgumentsRoundTrip == ActionsRoundTrip /\ ArgumentsSignedAsGiven
=============================================================================
