---------------------------- MODULE TableRegistry ----------------------------
(***************************************************************************)
(* BlockchainInterface's registry of table objects (BlockchainInterface.cpp *)
(* getPollingGroupTable, getGroupMembersTable, rescopeGroupMembersTable),  *)
(* AbstractTable::updateScope, and the users of the registry in Tables.hpp: *)
(* the PollingGroups table's "groupSize" virtual field, which asks for the *)
(* members table of its row's group, and PendingAddSettled, which rescopes *)
(* that table when a drafted group settles to its real id.  GroupMembers   *)
(* tables are keyed by polling group id; draft ids are reused: a new draft *)
(* row takes BASE_DRAFT_ID again once the draft rows are gone              *)
(* (AbstractTable::draftAddRow).  A table is a child of the                *)
(* BlockchainInterface unless rescoping orphans it to the QML engine, whose *)
(* garbage collector may then destroy it; its destroyed handler removes the *)
(* key captured when the table was created.  Every step runs on the GUI    *)
(* thread, so each action is one handler run to completion.               *)
(***************************************************************************)
EXTENDS Naturals, FiniteSets

CONSTANTS
    Drafts,     \* draft polling group ids (BASE_DRAFT_ID and up)
    Reals,      \* real polling group ids
    MaxTables   \* bound: GroupMembers tables created

Groups == Drafts \cup Reals
TableIds == 1..MaxTables
Owners == {"unborn", "parent", "js", "dead"}

VARIABLES
    groupAccountsTables, \* the QMap: a function from some group ids to tables
    pollingGroupTable,   \* whether the PollingGroups table exists
    scope,      \* each table's scope
    createdFor, \* the group id the destroyed handler captured
    owner,      \* unborn, child of the BlockchainInterface, JS-owned, destroyed
    appeared,   \* real group ids whose rows have reached the PollingGroups table
    rows,       \* group ids of the rows the PollingGroups model shows
    fields      \* the groupSize field of each shown row: the table its model
                \* reads, for rows whose field holds a model (children non-empty)

vars == <<groupAccountsTables, pollingGroupTable, scope, createdFor, owner,
          appeared, rows, fields>>

(* ---------------------------------------------------------------------- *)
(* The registry as a record, so that the steps of one handler compose.    *)
(* ---------------------------------------------------------------------- *)
Reg == [map |-> groupAccountsTables, scope |-> scope,
        createdFor |-> createdFor, owner |-> owner]

SetReg(s) ==
    /\ groupAccountsTables' = s.map
    /\ scope' = s.scope
    /\ createdFor' = s.createdFor
    /\ owner' = s.owner

\* the map with key g removed (QMap::take, QMap::remove)
Without(f, g) == [k \in DOMAIN f \ {g} |-> f[k]]
\* the map with key g set to t (QMap::insert, operator[])
With(f, g, t) == [k \in DOMAIN f \cup {g} |-> IF k = g THEN t ELSE f[k]]

Unborn(s) == {t \in TableIds : s.owner[t] = "unborn"}
\* a getGroupMembersTable(g) the MaxTables bound lets happen
CanGet(s, g) == g \in DOMAIN s.map \/ Unborn(s) # {}

\* getGroupMembersTable(groupId): the registered table, or a new one,
\* registered, with groupId captured for its destroyed handler; the result
\* is the registry after the call and the table returned
GetTable(s, g) ==
    IF g \in DOMAIN s.map THEN [s |-> s, t |-> s.map[g]]
    ELSE LET t == CHOOSE u \in Unborn(s) : \A v \in Unborn(s) : u <= v
         IN [s |-> [s EXCEPT !.map = With(s.map, g, t), !.scope[t] = g,
                             !.createdFor[t] = g, !.owner[t] = "parent"],
             t |-> t]

\* AbstractTable::updateScope: a new scope replaces the old one (and the
\* table refreshes its rows, which this module does not track)
UpdateScope(s, t, sc) == [s EXCEPT !.scope[t] = sc]

\* Mutant of RescopeGroupMembersTable: the table is moved under the new id
\* without updateScope.
RescopeNoUpdate(s, old, new) ==
    IF old \notin DOMAIN s.map THEN s
    ELSE LET t == s.map[old]
             rest == Without(s.map, old)
         IN IF new \in DOMAIN rest
            THEN [s EXCEPT !.map = rest, !.owner[t] = "js"]
            ELSE [s EXCEPT !.map = With(rest, new, t)]

\* rescopeGroupMembersTable(oldGroup, newGroup): take the table, rescope it,
\* and register it under the new id, or orphan it to the QML engine if a
\* table is registered there
RescopeGroupMembersTable(s, old, new) ==
    IF old \notin DOMAIN s.map THEN s
    ELSE LET t == s.map[old]
             rest == Without(s.map, old)
             s1 == UpdateScope(s, t, new)
         IN IF new \in DOMAIN rest
            THEN [s1 EXCEPT !.map = rest, !.owner[t] = "js"]
            ELSE [s1 EXCEPT !.map = With(rest, new, t)]

\* TableRowOperations<PollingGroup>::PendingAddSettled: rescope the
\* members table when the settled row had a draft id
PendingAddSettled(s, draftId, newId) ==
    IF draftId \in Drafts THEN RescopeGroupMembersTable(s, draftId, newId) ELSE s

\* PollingGroupSizeField::rowChanged for the row of group g, called by
\* Model::updateRows with the state Loaded: connect once, to a model of
\* getGroupMembersTable(g); the result is the registry and the fields
RowChanged(s, f, g) ==
    IF g \in DOMAIN f THEN [s |-> s, f |-> f]
    ELSE LET r == GetTable(s, g) IN [s |-> r.s, f |-> With(f, g, r.t)]

\* Model::updateVirtualRoles for the row of group g: the rowChanged of each
\* virtual field of the row's tuple; PollingGroup has one, groupSize
UpdateVirtualRoles(s, f, g) == RowChanged(s, f, g)

\* PollingGroupSizeField::get (read by Model::data): the table whose row
\* count is shown, or 0 while the field has no model (status Loading)
SizeShown(g) == IF g \in DOMAIN fields THEN fields[g] ELSE 0

(* ---------------------------------------------------------------------- *)
(* Actions                                                                 *)
(* ---------------------------------------------------------------------- *)

\* getPollingGroupTable: create the table once, in the global scope
GetPollingGroupTable ==
    /\ ~pollingGroupTable
    /\ pollingGroupTable' = TRUE
    /\ UNCHANGED <<groupAccountsTables, scope, createdFor, owner, appeared,
                   rows, fields>>

\* QML calls getGroupMembersTable(groupId) for a group's member page
GetGroupMembersTable(g) ==
    /\ CanGet(Reg, g)
    /\ SetReg(GetTable(Reg, g).s)
    /\ UNCHANGED <<pollingGroupTable, appeared, rows, fields>>

\* draftAddRow on the PollingGroups table: a row with a free draft id is
\* added and the models' updateRows runs its field's rowChanged
DraftAddGroup(d) ==
    /\ pollingGroupTable
    /\ d \notin rows
    /\ CanGet(Reg, d)
    /\ LET r == UpdateVirtualRoles(Reg, fields, d)
       IN /\ SetReg(r.s)
          /\ fields' = r.f
    /\ rows' = rows \cup {d}
    /\ UNCHANGED <<pollingGroupTable, appeared>>

\* processRowsResponse inserts a real group's row that matches no pending
\* add (another account's group), and updateRows runs its field
RealGroupLoaded(g) ==
    /\ pollingGroupTable
    /\ g \notin appeared
    /\ CanGet(Reg, g)
    /\ LET r == UpdateVirtualRoles(Reg, fields, g)
       IN /\ SetReg(r.s)
          /\ fields' = r.f
    /\ rows' = rows \cup {g}
    /\ appeared' = appeared \cup {g}
    /\ UNCHANGED pollingGroupTable

\* Mutant of SettlePendingAdd: the draft row is not deleted.
SettleKeepsDraftRow(d, g) ==
    /\ d \in rows
    /\ g \notin appeared
    /\ LET s1 == PendingAddSettled(Reg, d, g)
       IN /\ CanGet(s1, g)
          /\ LET r == UpdateVirtualRoles(s1, fields, g)
             IN /\ SetReg(r.s)
                /\ fields' = r.f
    /\ rows' = rows \cup {g}
    /\ appeared' = appeared \cup {g}
    /\ UNCHANGED pollingGroupTable

\* processRowsResponse inserts the real row g of the group drafted as d;
\* checkPendingInsertion deletes the draft row (and with it its field) and
\* calls PendingAddSettled; then updateRows runs the new row's field
SettlePendingAdd(d, g) ==
    /\ d \in rows
    /\ g \notin appeared
    /\ LET s1 == PendingAddSettled(Reg, d, g)
       IN /\ CanGet(s1, g)
          /\ LET r == UpdateVirtualRoles(s1, Without(fields, d), g)
             IN /\ SetReg(r.s)
                /\ fields' = r.f
    /\ rows' = (rows \ {d}) \cup {g}
    /\ appeared' = appeared \cup {g}
    /\ UNCHANGED pollingGroupTable

\* Mutant of DeleteGroupRow: the row goes but its field stays.
DeleteGroupRowKeepsField(g) ==
    /\ g \in rows
    /\ rows' = rows \ {g}
    /\ UNCHANGED <<groupAccountsTables, pollingGroupTable, scope, createdFor,
                   owner, appeared, fields>>

\* A row leaves the PollingGroups model (resetEdits or draftDeleteRow of a
\* draft group, a journal Delete): Model::deleteRow drops its virtual
\* fields; the registry keeps the group's table
DeleteGroupRow(g) ==
    /\ g \in rows
    /\ rows' = rows \ {g}
    /\ fields' = Without(fields, g)
    /\ UNCHANGED <<groupAccountsTables, pollingGroupTable, scope, createdFor,
                   owner, appeared>>

\* The QML garbage collector destroys an orphaned table; its destroyed
\* handler removes the key captured at creation, whatever it now holds,
\* and fields whose model was a child of the table lose it
CollectOrphan(t) ==
    /\ owner[t] = "js"
    /\ owner' = [owner EXCEPT ![t] = "dead"]
    /\ groupAccountsTables' = Without(groupAccountsTables, createdFor[t])
    /\ fields' = [g \in {h \in DOMAIN fields : fields[h] # t} |-> fields[g]]
    /\ UNCHANGED <<pollingGroupTable, scope, createdFor, appeared, rows>>

Init ==
    /\ groupAccountsTables = [g \in {} |-> 1]
    /\ pollingGroupTable = FALSE
    /\ scope = [t \in TableIds |-> CHOOSE g \in Groups : TRUE]
    /\ createdFor = scope
    /\ owner = [t \in TableIds |-> "unborn"]
    /\ appeared = {}
    /\ rows = {}
    /\ fields = [g \in {} |-> 1]

Next ==
    \/ GetPollingGroupTable
    \/ \E g \in Groups : GetGroupMembersTable(g)
    \/ \E d \in Drafts : DraftAddGroup(d)
    \/ \E g \in Reals : RealGroupLoaded(g)
    \/ \E d \in Drafts, g \in Reals : SettlePendingAdd(d, g)
    \/ \E g \in Groups : DeleteGroupRow(g)
    \/ \E t \in TableIds : CollectOrphan(t)

Spec == Init /\ [][Next]_vars

(* ---------------------------------------------------------------------- *)
(* Properties                                                              *)
(* ---------------------------------------------------------------------- *)

TypeOK ==
    /\ DOMAIN groupAccountsTables \subseteq Groups
    /\ \A g \in DOMAIN groupAccountsTables : groupAccountsTables[g] \in TableIds
    /\ pollingGroupTable \in BOOLEAN
    /\ scope \in [TableIds -> Groups]
    /\ createdFor \in [TableIds -> Groups]
    /\ owner \in [TableIds -> Owners]
    /\ appeared \subseteq Reals
    /\ rows \subseteq Groups
    /\ DOMAIN fields \subseteq rows
    /\ \A g \in DOMAIN fields : fields[g] \in TableIds

\* The table getGroupMembersTable(g) returns is a live table whose scope is
\* g: rescoping moves a table to the key of its new scope, and an orphan's
\* destroyed handler never leaves a destroyed table registered.
RegisteredTableServesItsGroup ==
    \A g \in DOMAIN groupAccountsTables :
        LET t == groupAccountsTables[g]
        IN owner[t] = "parent" /\ scope[t] = g

\* The group size shown beside a polling group counts the members of that
\* group: the field's model reads a live table scoped to the row's group,
\* across drafting, settling (checkPendingInsertion, PendingAddSettled),
\* rescoping and garbage collection.
SizeFieldFollowsGroup ==
    \A g \in rows :
        SizeShown(g) # 0 => owner[SizeShown(g)] = "parent" /\ scope[SizeShown(g)] = g

\* At most one table in the BlockchainInterface's ownership reads each
\* scope, so rows of a group are fetched and shown by one table
\* (getGroupMembersTable creates a table only for an unregistered id).
OneTablePerScope ==
    \A t, u \in TableIds :
        (owner[t] = "parent" /\ owner[u] = "parent" /\ scope[t] = scope[u]) => t = u
=============================================================================
