------------------------- MODULE ActionSerialization -------------------------
(***************************************************************************)
(* The contract's actions as the GUI validates, serializes and shows them: *)
(* the action names and argument lists of Strings.cpp, Action's            *)
(* validateName and validateArguments (Action.hpp), the argument structs   *)
(* KeyManager.cpp declares with FC_REFLECT, and the two switches on the    *)
(* value of the action's name: in the action constructor from a QObject,  *)
(* which reads the JSON arguments into a struct and packs it, and in       *)
(* decodeAction, which unpacks the data again for display                *)
(* (Action::loadJson).                                                    *)
(*                                                                         *)
(* Arguments are abstracted to the set of their keys, and a struct to the  *)
(* set of its members' names: fc's from_variant fills the members the JSON *)
(* names and leaves the others at their defaults, and ignores other keys;  *)
(* to_string prints every member.                                          *)
(***************************************************************************)
EXTENDS EosioName, TLC

\* Strings.cpp: the contract's action names.
VoterAdd    == <<"v","o","t","e","r",".","a","d","d">>
VoterRemove == <<"v","o","t","e","r",".","r","e","m","o","v","e">>
GroupCopy   == <<"g","r","o","u","p",".","c","o","p","y">>
GroupRename == <<"g","r","o","u","p",".","r","e","n","a","m","e">>
CntstNew    == <<"c","n","t","s","t",".","n","e","w">>
CntstModify == <<"c","n","t","s","t",".","m","o","d","i","f","y">>
CntstTally  == <<"c","n","t","s","t",".","t","a","l","l","y">>
CntstDelete == <<"c","n","t","s","t",".","d","e","l","e","t","e">>
DcsnSet     == <<"d","c","s","n",".","s","e","t">>

\* Strings.cpp: the arguments each action takes.
VoterAddArgs    == {"groupName", "voter", "weight", "tags"}
VoterRemoveArgs == {"groupName", "voter"}
GroupCopyArgs   == {"groupName", "newName"}
GroupRenameArgs == {"groupName", "newName"}
CntstNewArgs    == {"groupId", "name", "description", "contestants", "begin", "end", "tags"}
CntstModifyArgs == {"groupId", "contestId", "newName", "newDescription", "newTags",
                    "deleteContestants", "addContestants", "newBegin", "newEnd"}
CntstTallyArgs  == {"groupId", "contestId"}
CntstDeleteArgs == {"groupId", "contestId"}
DcsnSetArgs     == {"groupId", "contestId", "voterName", "opinions", "tags"}

LegalActionArguments ==
    (VoterAdd :> VoterAddArgs) @@ (VoterRemove :> VoterRemoveArgs)
    @@ (GroupCopy :> GroupCopyArgs) @@ (GroupRename :> GroupRenameArgs)
    @@ (CntstNew :> CntstNewArgs) @@ (CntstModify :> CntstModifyArgs)
    @@ (CntstTally :> CntstTallyArgs) @@ (CntstDelete :> CntstDeleteArgs)
    @@ (DcsnSet :> DcsnSetArgs)

ActionNames == DOMAIN LegalActionArguments

validateName(action) == action \in ActionNames

\* The const QMap's operator[] gives an empty set for an unknown action.
validateArguments(action, arguments) ==
    (IF validateName(action) THEN LegalActionArguments[action] ELSE {}) = arguments

\* KeyManager.cpp: the members FC_REFLECT gives each argument struct.
Reflected ==
    [voter_add    |-> {"groupName", "voter", "weight", "tags"},
     voter_remove |-> {"groupName", "voter"},
     group_copy   |-> {"groupName", "newName"},
     group_rename |-> {"groupName", "newName"},
     cntst_new    |-> {"groupId", "name", "description", "contestants", "begin", "end", "tags"},
     cntst_modify |-> {"groupId", "contestId", "newName", "newDescription", "newTags",
                       "deleteContestants", "addContestants", "newBegin", "newEnd"},
     cntst_tally  |-> {"groupId", "contestId"},
     cntst_delete |-> {"groupId", "contestId"},
     dcsn_set     |-> {"groupId", "contestId", "voterName", "opinions", "tags"}]

NoStruct == "none"      \* the switch's default: no struct, no data
Garbled  == {"garbled"} \* the fields shown for data unpacked as a struct it was not packed from

\* The cases of action(const QObject*)'s switch: case
\* string_to_uint64_t("voter.add") reads voter_add, and so on.
EncodeCases ==
    (VoterAdd :> "voter_add") @@ (VoterRemove :> "voter_remove")
    @@ (GroupCopy :> "group_copy") @@ (GroupRename :> "group_rename")
    @@ (CntstNew :> "cntst_new") @@ (CntstModify :> "cntst_modify")
    @@ (CntstTally :> "cntst_tally") @@ (CntstDelete :> "cntst_delete")
    @@ (DcsnSet :> "dcsn_set")

\* Mutant of DecodeCases: the cntst.modify case copied from cntst.new.
DecodeCasesPasted ==
    (VoterAdd :> "voter_add") @@ (VoterRemove :> "voter_remove")
    @@ (GroupCopy :> "group_copy") @@ (GroupRename :> "group_rename")
    @@ (CntstNew :> "cntst_new") @@ (CntstModify :> "cntst_new")
    @@ (CntstTally :> "cntst_tally") @@ (CntstDelete :> "cntst_delete")
    @@ (DcsnSet :> "dcsn_set")

\* The cases of decodeAction's switch.
DecodeCases ==
    (VoterAdd :> "voter_add") @@ (VoterRemove :> "voter_remove")
    @@ (GroupCopy :> "group_copy") @@ (GroupRename :> "group_rename")
    @@ (CntstNew :> "cntst_new") @@ (CntstModify :> "cntst_modify")
    @@ (CntstTally :> "cntst_tally") @@ (CntstDelete :> "cntst_delete")
    @@ (DcsnSet :> "dcsn_set")

\* A switch on a name's value: the struct of the case whose label has that
\* value, or NoStruct.  (Case labels are distinct constants.)
Switch(cases, w) ==
    LET hits == {n \in DOMAIN cases : string_to_uint64_t(n) = w}
    IN  IF hits = {} THEN NoStruct ELSE cases[CHOOSE n \in hits : TRUE]

\* action(const QObject*): the name through name::set, the authorizations
\* through permission_level, and the arguments read into the struct of the
\* name's case, or no data.
Serialize(a) ==
    [name |-> set(a.name), auth |-> permission_level(a.auth),
     struct |-> Switch(EncodeCases, set(a.name))]

\* decodeAction: the name and authorizations printed back, and the data
\* unpacked by the struct of the name's case and printed with all its
\* members; without a case the arguments stay empty.
Show(sa) ==
    LET d == Switch(DecodeCases, sa.name)
    IN  [name |-> name_to_string(sa.name),
         auth |-> DecodeAuthorization(sa.auth),
         args |-> CASE d = NoStruct     -> {}
                    [] d = sa.struct    -> Reflected[d]
                    [] OTHER            -> Garbled]
=============================================================================
