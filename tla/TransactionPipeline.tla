------------------------- MODULE TransactionPipeline -------------------------
(***************************************************************************)
(* The way of one transaction from the GUI to the chain: a                 *)
(* MutableTransaction (src/cpp/MutableTransaction.cpp) collects actions;   *)
(* KeyManager::prepareForSigning turns it into a SignableTransaction,      *)
(* signTransaction signs that, prepareForBroadcast packs it into the       *)
(* BroadcastableTransaction that BlockchainInterface::submitTransaction    *)
(* pushes (module BroadcastableTransaction, extended here).                *)
(*                                                                         *)
(* Data is abstracted to what the node checks of a pushed transaction and *)
(* what the GUI shows of it: each action's name, authorization (addAction  *)
(* gives an action one) and argument keys (module ActionSerialization),    *)
(* the reference block, the expiration and, for each signature, the        *)
(* expiration it signed (the rest of the signed content is fixed once      *)
(* prepareForSigning has built the SignableTransaction).  Time             *)
(* is counted in blocks: the GUI's clock and the chain's head advance     *)
(* together, and Lifetime stands for the 10 seconds of addSecs(10).       *)
(***************************************************************************)
EXTENDS BroadcastableTransaction, ActionSerialization, Sequences

LOCAL INSTANCE SequencesExt

CONSTANTS
    Lifetime,       \* the expiration KeyManager gives, in blocks
    MaxActions,     \* bound: actions in a transaction
    MaxSignatures,  \* bound: signatures on a transaction
    Voters,         \* voter names a user enters for dcsn.set, as strings
    UserActions,    \* action names a user passes to addAction (a bound)
    QmlActions,     \* Action objects QML builds itself and passes to setActions
    NoTrx           \* no such object

ASSUME Lifetime \in Nat \ {0} /\ MaxActions \in Nat /\ MaxSignatures \in Nat

VARIABLES
    mtActions,      \* MutableTransaction::m_actions: name, authorization, argument keys
    mtExp,          \* MutableTransaction::m_expiration, 0 when null
    mtRef,          \* MutableTransaction::m_refBlockId, the block's number, 0 when null
    refLive,        \* the block mtRef names is still on the chain
    st,             \* the SignableTransaction QML holds, or NoTrx
    packed          \* the transaction the BroadcastableTransaction carries, or NoTrx

pipeVars == <<mtActions, mtExp, mtRef, refLive, st, packed>>
allVars == <<vars, pipeVars>>

ContractName == <<"f", "m", "v">>

\* The Action addAction appends: authorized by voter@active for dcsn.set
\* and by fmv@active otherwise.
NewAction(actionName, arguments, voter) ==
    [name |-> actionName, args |-> arguments,
     auth |-> AuthorizationTemplate(IF actionName = DcsnSet THEN voter ELSE ContractName, Active)]

\* The Actions a transaction can hold, and the names and arguments a user
\* can pass to addAction.
Actions ==
    {NewAction(n, LegalActionArguments[n], v) : n \in UserActions \cap ActionNames, v \in Voters}
    \cup QmlActions
ActionLists == UNION {[1..n -> Actions] : n \in 0..MaxActions}
NameInput == UserActions \cup {q.name : q \in QmlActions}
ArgsInput == {LegalActionArguments[n] : n \in UserActions \cap ActionNames} \cup {q.args : q \in QmlActions}

\* prepareForSigning's action::fromQList serializes each Action; the GUI
\* reads the transaction's actions back through decodeAction.  Signed is
\* a constant, so TLC computes it once.
Signed == [a \in Actions |-> Show(Serialize(a))]
SignedActions(acts) == [i \in DOMAIN acts |-> Signed[acts[i]]]

\* The content of a SignableTransaction or a packed transaction; written is
\* the list of actions it was built from (the MutableTransaction's, which
\* it does not keep).
Trx == [actions : Seq({Signed[a] : a \in Actions}), written : ActionLists, ref : 0..MaxHead,
        exp : 0..MaxHead + Lifetime, sigs : Seq(0..MaxHead + Lifetime)]

\* The GUI's clock, QDateTime::currentDateTimeUtc(), in blocks.
Now == chainHead

(* ---------------------------------------------------------------------- *)
(* MutableTransaction                                                      *)
(* ---------------------------------------------------------------------- *)

\* setActions with a list of n entries whose non-null ones are acts: the
\* null ones are dropped, and a non-empty list of nulls only is ignored.
SetActions(n, acts) ==
    /\ ~(acts = <<>> /\ n > 0)
    /\ mtActions' = acts
    /\ UNCHANGED <<mtExp, mtRef, refLive, st, packed>>

\* addAction: an unknown action name, or arguments that are not exactly the
\* action's legal arguments, are refused; otherwise an Action is appended.
AddAction(actionName, arguments, voter) ==
    /\ validateName(actionName)
    /\ validateArguments(actionName, arguments)
    /\ Len(mtActions) < MaxActions
    /\ mtActions' = Append(mtActions, NewAction(actionName, arguments, voter))
    /\ UNCHANGED <<mtExp, mtRef, refLive, st, packed>>

\* deleteAction(index): removes the action at an index in range.
DeleteAction(index) ==
    /\ index >= 0 /\ index < Len(mtActions)
    /\ mtActions' = RemoveAt(mtActions, index + 1)
    /\ UNCHANGED <<mtExp, mtRef, refLive, st, packed>>

(* ---------------------------------------------------------------------- *)
(* KeyManager                                                              *)
(* ---------------------------------------------------------------------- *)

\* prepareForSigning: a null reference block becomes the head block the
\* blockchain last reported, a null expiration now + 10 s; a new
\* SignableTransaction is built from the transaction.
PrepareForSigning ==
    LET ref == IF mtRef = 0 THEN head ELSE mtRef
        exp == IF mtExp = 0 THEN Now + Lifetime ELSE mtExp
    IN  /\ mtRef' = ref
        /\ refLive' = IF mtRef = 0 THEN TRUE ELSE refLive
        /\ mtExp' = exp
        /\ st' = [actions |-> SignedActions(mtActions), written |-> mtActions,
                  ref |-> ref, exp |-> exp, sigs |-> <<>>]
        /\ UNCHANGED <<mtActions, packed>>

\* SignableTransaction::setExpiration: the JSON's expiration is rewritten.
SetExpiration(t, time) == [t EXCEPT !.exp = time]

\* SignableTransaction::addSignature: appended to the JSON's signatures.
AddSignature(t, sig) == [t EXCEPT !.sigs = Append(@, sig)]

\* Mutant of SignTransaction: the transaction is signed, then its expiration
\* bumped.
SignTransactionBumpAfter ==
    /\ st # NoTrx
    /\ Len(st.sigs) < MaxSignatures
    /\ st' = SetExpiration(AddSignature(st, st.exp), Now + Lifetime)
    /\ UNCHANGED <<mtActions, mtExp, mtRef, refLive, packed>>

\* signTransaction: the expiration is bumped to now + 10 s, then the
\* transaction as it now reads is signed and the signature appended.
SignTransaction ==
    /\ st # NoTrx
    /\ Len(st.sigs) < MaxSignatures
    /\ LET bumped == SetExpiration(st, Now + Lifetime)
       IN  st' = AddSignature(bumped, bumped.exp)
    /\ UNCHANGED <<mtActions, mtExp, mtRef, refLive, packed>>

\* prepareForBroadcast: the SignableTransaction's JSON is packed as it
\* reads now; the new BroadcastableTransaction carries that copy.
PrepareForBroadcast ==
    /\ st # NoTrx /\ packed = NoTrx
    /\ packed' = st
    /\ UNCHANGED <<mtActions, mtExp, mtRef, refLive, st>>

(* ---------------------------------------------------------------------- *)
(* The chain                                                               *)
(* ---------------------------------------------------------------------- *)

\* A fork replaces the reversible block the transaction refers to.
RefBlockForked ==
    /\ Forks
    /\ mtRef > chainLib /\ refLive
    /\ refLive' = FALSE
    /\ UNCHANGED <<mtActions, mtExp, mtRef, st, packed>>
    /\ UNCHANGED vars

\* What the node requires before it applies a pushed transaction: some
\* action, a reference block on its chain, an expiration after its head,
\* and signatures that all sign the transaction as pushed.
PushValid(t) ==
    /\ t.actions # <<>>
    /\ t.ref # 0 /\ refLive
    /\ Now < t.exp
    /\ t.sigs # <<>> /\ \A i \in DOMAIN t.sigs : t.sigs[i] = t.exp

(* ---------------------------------------------------------------------- *)
(* Composition with BroadcastableTransaction                               *)
(* ---------------------------------------------------------------------- *)

\* submitTransaction pushes the BroadcastableTransaction QML passes.
PipeSubmit == packed # NoTrx /\ SubmitTransaction /\ UNCHANGED pipeVars

\* The node puts the transaction in a block only if it is valid.
PipeServePush(m) ==
    /\ ServePush(m)
    /\ incl' # incl => PushValid(packed)
    /\ UNCHANGED pipeVars

PipeInit ==
    /\ Init
    /\ mtActions = <<>> /\ mtExp = 0 /\ mtRef = 0 /\ refLive = TRUE
    /\ st = NoTrx /\ packed = NoTrx

\* The GUI steps are taken before the transaction is pushed: after that,
\* the pushed copy no longer depends on them.
PipeNext ==
    \/ /\ submits = 0
       /\ \/ \E n \in 0..MaxActions, acts \in ActionLists :
                 Len(acts) <= n /\ SetActions(n, acts)
          \/ \E n \in NameInput, args \in ArgsInput, v \in Voters : AddAction(n, args, v)
          \/ \E index \in 0..MaxActions : DeleteAction(index)
          \/ PrepareForSigning
          \/ SignTransaction
          \/ PrepareForBroadcast
       /\ UNCHANGED vars
    \/ RefBlockForked
    \/ PipeSubmit
    \/ \E m \in DOMAIN net : PipeServePush(m)
    \/ (ProcessInfoReply \/ ChainAdvance \/ Fork) /\ UNCHANGED pipeVars
    \/ \E m \in DOMAIN net : BroadcastFinished(m) /\ UNCHANGED pipeVars
    \/ \E m \in DOMAIN net : ServeBlock(m) /\ UNCHANGED pipeVars
    \/ \E m \in DOMAIN net : GetBlockFinished(m) /\ UNCHANGED pipeVars

PipeSpec == PipeInit /\ [][PipeNext]_allVars

\* The fairness of BroadcastableTransaction; the GUI steps are the user's
\* and have none.
PipeFairSpec ==
    /\ PipeSpec
    /\ WF_allVars(ChainAdvance /\ UNCHANGED pipeVars)
    /\ WF_allVars(ProcessInfoReply /\ UNCHANGED pipeVars)
    /\ WF_allVars(\E m \in DOMAIN net : PipeServePush(m) \/ (ServeBlock(m) /\ UNCHANGED pipeVars))
    /\ WF_allVars(\E m \in DOMAIN net : (BroadcastFinished(m) \/ GetBlockFinished(m))
                                         /\ UNCHANGED pipeVars)

(* ---------------------------------------------------------------------- *)
(* Properties                                                              *)
(* ---------------------------------------------------------------------- *)

PipeTypeOK ==
    /\ TypeOK
    /\ mtActions \in ActionLists
    /\ mtExp \in 0..MaxHead + Lifetime /\ mtRef \in 0..MaxHead
    /\ refLive \in BOOLEAN
    /\ st \in Trx \cup {NoTrx} /\ packed \in Trx \cup {NoTrx}

\* The latest signature of a SignableTransaction, and of what is pushed,
\* signs the transaction as it reads: signTransaction bumps the expiration
\* before it signs ("Bump the expiration just before signing").
LastSignatureCoversContent ==
    \A t \in {st, packed} \ {NoTrx} :
        t.sigs # <<>> => t.sigs[Len(t.sigs)] = t.exp

\* The voter an authorization addAction wrote names: voter@active.
VoterOf(auth) == SubSeq(auth, 1, Len(auth) - Len(Active) - 1)

\* What is signed authorizes whom the user asked for: each authorization
\* prepareForSigning put into the SignableTransaction, and so into the
\* pushed one, reads as addAction wrote it exactly when its voter is an
\* EOSIO name; otherwise the transaction is signed for another account.
SignedAsWritten ==
    \A t \in {st, packed} \ {NoTrx} :
        \A i \in DOMAIN t.written :
            (t.actions[i].auth = t.written[i].auth) <=> IsValidName(VoterOf(t.written[i].auth))

\* What is signed does what the user asked for: an action that passes
\* Action's validation (addAction's checks) is serialized by the struct
\* whose members are exactly its arguments, and the GUI shows it back
\* (decodeAction) with its own name and arguments.  Strings.cpp's argument
\* lists, FC_REFLECT's members and the two switches must agree for this.
ArgumentsSignedAsGiven ==
    \A t \in {st, packed} \ {NoTrx} :
        \A i \in DOMAIN t.written :
            LET a == t.written[i]
            IN  validateName(a.name) /\ validateArguments(a.name, a.args)
                    => t.actions[i].name = a.name /\ t.actions[i].args = a.args

\* Every signature of the pushed transaction signs it as pushed, so a
\* transaction signed twice is not refused for a stale signature.
AllSignaturesCoverContent ==
    packed # NoTrx => \A i \in DOMAIN packed.sigs : packed.sigs[i] = packed.exp
=============================================================================
