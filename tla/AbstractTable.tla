--------------------------- MODULE AbstractTable ---------------------------
(***************************************************************************)
(* One AbstractTable<Row> instance (src/cpp/AbstractTable.hpp): the cached *)
(* rows of one table scope with their LoadState, the BackupManager of      *)
(* edited rows (src/cpp/TableSupport.hpp), the list of locally added rows, *)
(* the pendingEdits flag, the map of rows being loaded, and the id list of *)
(* one table Model (the view projection).                                  *)
(*                                                                         *)
(* The environment is the remote chain table, its journal (delivered in    *)
(* order to processJournal; gaps are BlockchainInterface's concern), the   *)
(* get_table_rows requests and replies in flight, a clock for the         *)
(* loading-row timeout, and the UI's transaction built from pending edits. *)
(*                                                                         *)
(* Row data is abstracted to a function from the non-id Fields to a small  *)
(* set of Vals. Every action is one event-loop callback: Qt runs them one  *)
(* at a time on the GUI thread, so each is atomic.                         *)
(***************************************************************************)
EXTENDS Naturals, Sequences, FiniteSets, SequencesExt, BagsExt

CONSTANTS
    NumericIds,     \* TRUE: PollingGroup (uint64 id assigned from BASE_DRAFT_ID
                    \* for draft adds); FALSE: GroupMember (name id given by the UI)
    RealIds,        \* ids the chain can hold, all below BASE_DRAFT_ID
    BASE_DRAFT_ID,  \* first id given to a numeric draft-added row
    MaxDraftId,     \* bound: highest draft id the model assigns
    Fields,         \* the row's non-id fields
    Vals,           \* values of a field
    Zero,           \* value of a field in a value-initialised Row()
    AddFieldMaps,   \* field maps the UI passes to draftAddRow
    EditFieldMaps,  \* change maps the UI passes to draftEditRow
    PageSize,       \* get_table_rows limit of a full refresh page (100 in code)
    Timeout,        \* MAX_LOADING_SECONDS_BEFORE_DROPPED, in clock ticks
    MaxTime,        \* bound on the clock
    MaxJournal,     \* bound on journal entries written by other accounts
    NetErrors,      \* whether a get_table_rows reply may fail
    NoKey           \* model value: no lower bound / no next key

ASSUME NumericIds \in BOOLEAN /\ NetErrors \in BOOLEAN
ASSUME RealIds \subseteq 1..(BASE_DRAFT_ID - 1) /\ MaxDraftId >= BASE_DRAFT_ID
ASSUME Zero \in Vals /\ PageSize \in Nat \ {0} /\ Timeout \in Nat \ {0}

RowVals == [Fields -> Vals]
FieldMaps == UNION {[D -> Vals] : D \in SUBSET Fields}
ASSUME AddFieldMaps \subseteq FieldMaps /\ EditFieldMaps \subseteq FieldMaps

\* Row(): every field value-initialised
DefaultVal == [f \in Fields |-> Zero]
\* Convert<Row>::fromVariantMap(map, base): the fields of map override base
Override(base, fm) == [f \in Fields |-> IF f \in DOMAIN fm THEN fm[f] ELSE base[f]]

DraftIds == IF NumericIds THEN BASE_DRAFT_ID..MaxDraftId ELSE {}
Ids == RealIds \cup DraftIds

DraftStates   == {"DraftEdit", "DraftAdd", "DraftDelete"}
PendingStates == {"PendingEdit", "PendingAdd", "PendingDelete"}
LoadStates    == {"Loaded", "Loading", "Stale"} \cup DraftStates \cup PendingStates

\* get_table_rows requests: a refreshRow (limit 1, reply erases loadingRows)
\* or a page of a full refresh / continuation (limit PageSize, loadCount 0)
RowReq(k)   == [phase |-> "req", tag |-> "row", lb |-> k, limit |-> 1, load |-> 1]
PageReq(lb) == [phase |-> "req", tag |-> "page", lb |-> lb, limit |-> PageSize, load |-> 0]

VARIABLES
    rows,          \* rowList/rowStates: id -> [val, st]
    backups,       \* BackupManager: sequence of [id, val, st] sorted by id
    added,         \* locallyAddedRows: sequence of [draftId, fm, key]
    pendingEdits,  \* AbstractTable::pendingEdits
    loadingRows,   \* loadingRows: id -> time the load was marked
    viewOpen,      \* a Model exists (allRows was called)
    view,          \* Model::modelIds
    net,           \* bag of get_table_rows requests and replies in flight
    chain,         \* the remote table: id -> row value
    journal,       \* the remote journal entries for this table and scope
    jpos,          \* number of journal entries processed
    nextId,        \* next id the contract assigns to a numeric row
    now,           \* clock, in seconds
    txState,       \* the UI's transaction of the pending edits: none/sent/applied/failed
    txOps,         \* the changes that transaction makes
    hung,          \* the GUI thread is spinning in draftEditRow's key loop
    outOfRange     \* a QList::removeAt past the end happened in resetEdits
                   \* (Qt5: warning, no-op; Qt6: undefined); modelled as no-op

tableVars == <<rows, backups, added, pendingEdits, loadingRows, viewOpen, view, hung, outOfRange>>
envVars   == <<net, chain, journal, jpos, nextId, now, txState, txOps>>
vars      == <<tableVars, envVars>>

-----------------------------------------------------------------------------
(***************************************************************************)
(* Table state as a record, so that the helper calls a handler makes can   *)
(* be composed in the order the code makes them.                           *)
(***************************************************************************)
T == [rows |-> rows, bk |-> backups, added |-> added, pend |-> pendingEdits,
      loading |-> loadingRows, view |-> view, net |-> net, oor |-> outOfRange]

SetT(t) == /\ rows' = t.rows /\ backups' = t.bk /\ added' = t.added
           /\ pendingEdits' = t.pend /\ loadingRows' = t.loading
           /\ view' = t.view /\ net' = t.net /\ outOfRange' = t.oor

Drop(f, k) == [x \in DOMAIN f \ {k} |-> f[x]]

\* Models are notified with updateRows / deleteRow only if one exists
ViewAdd(t, ks) == IF viewOpen THEN [t EXCEPT !.view = @ \cup ks] ELSE t
ViewDel(t, k)  == IF viewOpen THEN [t EXCEPT !.view = @ \ {k}] ELSE t

HasBackup(bk, k) == \E i \in 1..Len(bk) : bk[i].id = k

\* BackupManager::save: first write wins; kept sorted by id
Save(t, k, val, st) ==
    IF HasBackup(t.bk, k) THEN t
    ELSE LET i == Cardinality({j \in 1..Len(t.bk) : t.bk[j].id < k}) + 1
         IN [t EXCEPT !.bk = InsertAt(@, i, [id |-> k, val |-> val, st |-> st])]

\* Mutant: the flag is cleared on every backup removal
DeleteBackupRowClearsFlag(t, k) ==
    [t EXCEPT !.bk = SelectSeq(@, LAMBDA b : b.id # k), !.pend = FALSE]

\* deleteBackupRow: remove by id; pendingEdits := FALSE whenever no backup is left
DeleteBackupRow(t, k) ==
    LET bk == SelectSeq(t.bk, LAMBDA b : b.id # k)
    IN [t EXCEPT !.bk = bk, !.pend = IF bk = <<>> THEN FALSE ELSE @]

\* deleteBackupRow(id, &row, &state) as markStale uses it: also restore the row
RestoreAndDropBackup(t, k) ==
    LET i == SelectInSeq(t.bk, LAMBDA b : b.id = k)
        t1 == IF i = 0 THEN t
              ELSE [t EXCEPT !.rows[k] = [val |-> t.bk[i].val, st |-> t.bk[i].st]]
    IN DeleteBackupRow(t1, k)

\* Mutant: the models are not told of a deletion
DeleteRowSilent(t, k) ==
    IF k \notin DOMAIN t.rows THEN t
    ELSE LET st == t.rows[k].st
             t0 == [t EXCEPT !.rows = Drop(@, k)]
         IN IF st \in {"PendingDelete"} \cup DraftStates THEN DeleteBackupRow(t0, k) ELSE t0

\* AbstractTable::deleteRow
DeleteRow(t, k) ==
    LET t1 == IF k \notin DOMAIN t.rows THEN t
              ELSE LET st == t.rows[k].st
                       t0 == [t EXCEPT !.rows = Drop(@, k)]
                   IN IF st \in {"PendingDelete"} \cup DraftStates
                      THEN DeleteBackupRow(t0, k) ELSE t0
    IN ViewDel(t1, k)

\* AbstractTable::rowIsLoading: a load marked less than Timeout ago is in flight
RowIsLoading(t, k) == k \in DOMAIN t.loading /\ now - t.loading[k] < Timeout

\* rowIsLoading(id, true): std::map::insert with a hint leaves an existing
\* (expired) entry's time unchanged
MarkLoading(t, k) ==
    [t EXCEPT !.loading = IF k \in DOMAIN @ THEN @ ELSE @ @@ (k :> now)]

\* AbstractTable::refreshRow(id): get_table_rows from id, limit 1
RefreshRow(t, k) ==
    IF RowIsLoading(t, k) THEN t
    ELSE [MarkLoading(t, k) EXCEPT !.net = BagAdd(@, RowReq(k))]

FullRefresh(t) == [t EXCEPT !.net = BagAdd(@, PageReq(NoKey))]

-----------------------------------------------------------------------------
(***************************************************************************)
(* Reconciliation of rows arriving from get_table_rows                     *)
(***************************************************************************)
\* matchesRow: every field the record specifies equals the row's; a name-id
\* record also specifies the id field
Matches(rec, r) ==
    /\ \A f \in DOMAIN rec.fm : rec.fm[f] = r.val[f]
    /\ rec.key \in {NoKey, r.id}

\* AbstractTable::checkPendingInsertion
CheckPendingInsertion(t, r) ==
    IF ~t.pend \/ t.added = <<>> THEN t
    ELSE LET i == SelectInSeq(t.added, LAMBDA rec : Matches(rec, r))
         IN IF i = 0 THEN t
            ELSE LET d  == t.added[i].draftId
                     t1 == [t EXCEPT !.added = RemoveAt(@, i)]
                     t2 == IF d # r.id THEN DeleteRow(t1, d) ELSE t1
                 IN DeleteBackupRow(t2, d)

\* AbstractTable::checkOverwrittenEdit
CheckOverwrittenEdit(t, k, oldSt) ==
    IF oldSt \notin {"Loading"} \cup DraftStates \cup PendingStates THEN t
    ELSE LET t1 == IF oldSt = "DraftAdd"
                   THEN [t EXCEPT !.added = RemoveFirstMatch(@, LAMBDA rec : rec.draftId = k)]
                   ELSE t
         IN DeleteBackupRow(t1, k)

\* One iteration of processRowsResponse's "updating throughout" loop
ApplyRow(t, r) ==
    IF r.id \in DOMAIN t.rows
    THEN LET oldSt == t.rows[r.id].st
             t1 == [t EXCEPT !.rows[r.id] = [val |-> r.val, st |-> "Loaded"]]
         IN IF oldSt \in {"PendingAdd", "Loading"}
            THEN CheckPendingInsertion(t1, r)
            ELSE CheckOverwrittenEdit(t1, r.id, oldSt)
    ELSE CheckPendingInsertion(
            [t EXCEPT !.rows = @ @@ (r.id :> [val |-> r.val, st |-> "Loaded"])], r)

\* The rows of a reply: appended without checks when they all lie past the
\* last cached row, otherwise merged one by one; then Model::updateRows
ApplyRows(t, rs) ==
    LET ids == {rs[i].id : i \in 1..Len(rs)}
        t1 == IF DOMAIN t.rows = {} \/ Max(DOMAIN t.rows) < rs[1].id
              THEN [t EXCEPT !.rows = @ @@ [k \in ids |->
                        [val |-> (CHOOSE r \in ToSet(rs) : r.id = k).val, st |-> "Loaded"]]]
              ELSE FoldLeft(ApplyRow, t, rs)
    IN ViewAdd(t1, ids)

\* AbstractTable::processRowsResponse for a successful reply m
ProcessRowsResponse(t, m) ==
    LET t1 == IF m.next # NoKey /\ (m.load = 0 \/ Len(m.rows) < m.load)
              THEN [t EXCEPT !.net = BagAdd(@, PageReq(m.next))]
              ELSE t
    IN IF m.rows = <<>> THEN t1 ELSE ApplyRows(t1, m.rows)

-----------------------------------------------------------------------------
(***************************************************************************)
(* Journal entry handlers                                                  *)
(***************************************************************************)
\* Model::markRowStale, run for each open model: the model loads every
\* row, so it refreshes the row whether it shows it or not
ModelMarkRowStale(t, k) == IF viewOpen THEN RefreshRow(t, k) ELSE t

\* AbstractTable::markStale, then every model's markRowStale
MarkStale(t, k) ==
    IF k \in DOMAIN t.rows /\ t.rows[k].st \in {"PendingEdit", "PendingDelete"}
    THEN RefreshRow(t, k)
    ELSE LET t1 == IF k \notin DOMAIN t.rows THEN t
                   ELSE LET t0 == IF t.rows[k].st \in DraftStates
                                  THEN RestoreAndDropBackup(t, k) ELSE t
                        IN [t0 EXCEPT !.rows[k].st = "Stale"]
         IN ModelMarkRowStale(t1, k)

\* AbstractTable::getNew; pv is the placeholder Row's value
GetNew(t, k, pv) ==
    LET t1 == RefreshRow(t, k)
    IN IF k \in DOMAIN t1.rows THEN t1
       ELSE [t1 EXCEPT !.rows = @ @@ (k :> [val |-> pv, st |-> "Loading"])]

\* `Row row;` default-initialises: PollingGroup has no scalar besides its id,
\* GroupMember's uint32 weight is indeterminate
PlaceholderVals == IF NumericIds THEN {DefaultVal} ELSE RowVals

ProcessJournalEntry(t, e, pv) ==
    CASE e.type = "Delete" -> DeleteRow(t, e.key)
      [] e.type = "Modify" -> MarkStale(t, e.key)
      [] e.type = "Add"    -> GetNew(t, e.key, pv)

-----------------------------------------------------------------------------
(***************************************************************************)
(* resetEdits: backups.forEach with a deleter that removes entry i and     *)
(* steps i back. For a DraftAdd row, deleteRow already removed the backup  *)
(* by id, so the deleter then removes the entry after it, or indexes past  *)
(* the end when there is none (oor records that QList::removeAt call).     *)
(***************************************************************************)
RECURSIVE ResetFrom(_, _)
ResetFrom(i, t) ==
    IF i > Len(t.bk) THEN t
    ELSE LET b == t.bk[i] IN
         IF b.id \notin DOMAIN t.rows
         THEN ResetFrom(i, [t EXCEPT !.bk = RemoveAt(@, i)])
         ELSE LET st == t.rows[b.id].st IN
              IF st \in {"DraftAdd", "PendingAdd"}
              THEN LET t1 == DeleteRow(t, b.id)
                   IN ResetFrom(i, [t1 EXCEPT !.bk  = IF i <= Len(@) THEN RemoveAt(@, i) ELSE @,
                                              !.oor = @ \/ i > Len(t1.bk)])
              ELSE ResetFrom(i + 1,
                     [t EXCEPT !.rows[b.id] =
                        [val |-> IF st \in {"DraftEdit", "PendingEdit"} THEN b.val ELSE @.val,
                         st  |-> b.st]])

\* Promotion of a draft state by markEditsPending
Promote(st) == CASE st = "DraftEdit"   -> "PendingEdit"
                 [] st = "DraftAdd"    -> "PendingAdd"
                 [] st = "DraftDelete" -> "PendingDelete"
                 [] OTHER              -> st

BackupIds == {backups[i].id : i \in 1..Len(backups)}

-----------------------------------------------------------------------------
(***************************************************************************)
(* Operations the UI calls on the table                                    *)
(***************************************************************************)
\* draftEditRow(rowId, changeMap), for every outcome but the endless loop
DraftEditRow(k, cm) ==
    /\ ~hung /\ ~pendingEdits
    /\ k \in DOMAIN rows
    /\ rows[k].st # "DraftDelete"
    /\ LET st == rows[k].st
           ri == SelectInSeq(added, LAMBDA rec : rec.draftId = k)
       IN /\ ~(st = "DraftAdd" /\ ri # 0 /\ ~(DOMAIN cm \subseteq DOMAIN added[ri].fm))
          /\ LET t0 == CASE st \notin {"DraftAdd", "DraftEdit"} ->
                                [Save(T, k, rows[k].val, st) EXCEPT !.rows[k].st = "DraftEdit"]
                         [] st = "DraftAdd" /\ ri # 0 ->
                                [T EXCEPT !.added[ri].fm = Override(@, cm)]
                         [] OTHER -> T
                 t1 == [t0 EXCEPT !.rows[k].val = Override(@, cm)]
             IN SetT(ViewAdd(t1, {k}))
    /\ UNCHANGED <<viewOpen, hung, envVars>>

\* draftEditRow on a DraftAdd row whose change map names a field the
\* locallyAddedRows record lacks: keys.first() is never taken, the loop spins
DraftEditRowHangs(k, cm) ==
    /\ ~hung /\ ~pendingEdits
    /\ k \in DOMAIN rows
    /\ rows[k].st = "DraftAdd"
    /\ LET ri == SelectInSeq(added, LAMBDA rec : rec.draftId = k)
       IN ri # 0 /\ ~(DOMAIN cm \subseteq DOMAIN added[ri].fm)
    /\ hung' = TRUE
    /\ UNCHANGED <<rows, backups, added, pendingEdits, loadingRows, viewOpen, view, outOfRange, envVars>>

\* draftAddRow(fieldMap): numeric ids are assigned past the last row, name
\* ids come from the field map and must not collide with a cached row
NewDraftId == IF DOMAIN rows = {} \/ Max(DOMAIN rows) < BASE_DRAFT_ID
              THEN BASE_DRAFT_ID ELSE Max(DOMAIN rows) + 1

AddDraft(k, fm, key) ==
    LET val == Override(DefaultVal, fm)
        t1 == [T EXCEPT !.rows  = @ @@ (k :> [val |-> val, st |-> "DraftAdd"]),
                        !.added = Append(@, [draftId |-> k, fm |-> fm, key |-> key])]
    IN SetT(ViewAdd(Save(t1, k, val, "DraftAdd"), {k}))

DraftAddRow(fm) ==
    /\ ~hung /\ ~pendingEdits
    /\ IF NumericIds
       THEN NewDraftId <= MaxDraftId /\ AddDraft(NewDraftId, fm, NoKey)
       ELSE \E k \in RealIds \ DOMAIN rows : AddDraft(k, fm, k)
    /\ UNCHANGED <<viewOpen, hung, envVars>>

\* draftDeleteRow(rowId)
DraftDeleteRow(k) ==
    /\ ~hung /\ ~pendingEdits
    /\ k \in DOMAIN rows
    /\ IF rows[k].st = "DraftAdd"
       THEN SetT(DeleteBackupRow(
                   DeleteRow([T EXCEPT !.added = SelectSeq(@, LAMBDA rec : rec.draftId # k)], k), k))
       ELSE SetT(ViewAdd([Save(T, k, rows[k].val, rows[k].st) EXCEPT !.rows[k].st = "DraftDelete"], {k}))
    /\ UNCHANGED <<viewOpen, hung, envVars>>

\* markEditsPending
MarkEditsPending ==
    /\ ~hung
    /\ LET ks == BackupIds \cap DOMAIN rows
       IN /\ rows' = [k \in DOMAIN rows |->
                        IF k \in ks THEN [rows[k] EXCEPT !.st = Promote(@)] ELSE rows[k]]
          /\ view' = IF viewOpen THEN view \cup ks ELSE view
    /\ pendingEdits' = (backups # <<>> \/ pendingEdits)
    /\ UNCHANGED <<backups, added, loadingRows, viewOpen, hung, outOfRange, envVars>>

\* resetEdits
ResetEdits ==
    /\ ~hung
    /\ LET t == ResetFrom(1, T)
           kept == {t.bk[i].id : i \in 1..Len(t.bk)}
       IN SetT([ViewAdd(t, kept) EXCEPT !.bk = <<>>, !.added = <<>>])
    /\ UNCHANGED <<viewOpen, hung, envVars>>

\* Model::Model: the model takes every cached id and refreshes the stale rows
NewModel(t) ==
    [FoldSet(LAMBDA k, acc : RefreshRow(acc, k), t,
             {k \in DOMAIN t.rows : t.rows[k].st = "Stale"})
       EXCEPT !.view = DOMAIN t.rows]

\* allRows: the first Model triggers a full refresh
AllRows ==
    /\ ~hung /\ ~viewOpen
    /\ SetT(NewModel(FullRefresh(T)))
    /\ viewOpen' = TRUE
    /\ UNCHANGED <<hung, chain, journal, jpos, nextId, now, txState, txOps>>

-----------------------------------------------------------------------------
(***************************************************************************)
(* The network and the GUI thread's reply and journal callbacks            *)
(***************************************************************************)
\* The chain rows with id >= lb, in id order
RowsFrom(lb) == SetToSortSeq({k \in DOMAIN chain : lb = NoKey \/ k >= lb}, <)

\* get_table_rows answers a request m from the current chain
Serve(m) ==
    /\ m.phase = "req"
    /\ LET ks == RowsFrom(m.lb)
           n  == IF Len(ks) < m.limit THEN Len(ks) ELSE m.limit
           rep == [phase |-> "rep", tag |-> m.tag, lb |-> m.lb, load |-> m.load, ok |-> TRUE,
                   rows |-> [i \in 1..n |-> [id |-> ks[i], val |-> chain[ks[i]]]],
                   next |-> IF Len(ks) > n THEN ks[n + 1] ELSE NoKey]
       IN net' = BagAdd(BagRemove(net, m), rep)
    /\ UNCHANGED <<tableVars, chain, journal, jpos, nextId, now, txState, txOps>>

\* get_table_rows fails (the reply carries an error)
ServeError(m) ==
    /\ NetErrors /\ m.phase = "req"
    /\ net' = BagAdd(BagRemove(net, m),
                     [phase |-> "rep", tag |-> m.tag, lb |-> m.lb, load |-> m.load, ok |-> FALSE,
                      rows |-> <<>>, next |-> NoKey])
    /\ UNCHANGED <<tableVars, chain, journal, jpos, nextId, now, txState, txOps>>

\* The finished() handler of a reply: refreshRow's erases loadingRows first;
\* processRowsResponse returns at once on an error
Deliver(m) ==
    /\ ~hung /\ m.phase = "rep"
    /\ LET t0 == [T EXCEPT !.net = BagRemove(@, m),
                           !.loading = IF m.tag = "row" THEN Drop(@, m.lb) ELSE @]
       IN SetT(IF m.ok THEN ProcessRowsResponse(t0, m) ELSE t0)
    /\ UNCHANGED <<viewOpen, hung, chain, journal, jpos, nextId, now, txState, txOps>>

\* Mutant: the journal position skips the entry after the processed one
DeliverJournalSkips ==
    /\ ~hung /\ jpos < Len(journal)
    /\ \E pv \in PlaceholderVals : SetT(ProcessJournalEntry(T, journal[jpos + 1], pv))
    /\ jpos' = jpos + 2
    /\ UNCHANGED <<viewOpen, hung, chain, journal, nextId, now, txState, txOps>>

\* processJournal for the next journal entry; pv is the value the
\* placeholder of getNew happens to hold
DeliverJournal ==
    /\ ~hung /\ jpos < Len(journal)
    /\ \E pv \in PlaceholderVals : SetT(ProcessJournalEntry(T, journal[jpos + 1], pv))
    /\ jpos' = jpos + 1
    /\ UNCHANGED <<viewOpen, hung, chain, journal, nextId, now, txState, txOps>>

-----------------------------------------------------------------------------
(***************************************************************************)
(* Other writers, the UI's transaction, the clock                          *)
(***************************************************************************)
Entry(type, k) == [type |-> type, key |-> k]

\* Another account adds, modifies or deletes a row of this table
OtherWrite ==
    /\ Len(journal) < MaxJournal
    /\ \/ \E v \in RowVals :
            \/ /\ NumericIds /\ nextId \in RealIds
               /\ chain' = chain @@ (nextId :> v)
               /\ journal' = Append(journal, Entry("Add", nextId))
               /\ nextId' = nextId + 1
            \/ /\ ~NumericIds
               /\ \E k \in RealIds \ DOMAIN chain :
                    chain' = chain @@ (k :> v) /\ journal' = Append(journal, Entry("Add", k))
               /\ UNCHANGED nextId
       \/ \E k \in DOMAIN chain, v \in RowVals :
            /\ v # chain[k]
            /\ chain' = [chain EXCEPT ![k] = v]
            /\ journal' = Append(journal, Entry("Modify", k))
            /\ UNCHANGED nextId
       \/ \E k \in DOMAIN chain :
            /\ chain' = Drop(chain, k)
            /\ journal' = Append(journal, Entry("Delete", k))
            /\ UNCHANGED nextId
    /\ UNCHANGED <<tableVars, net, jpos, now, txState, txOps>>

\* The UI broadcasts one transaction carrying the pending edits
Submit ==
    /\ txState = "none" /\ pendingEdits
    /\ \E k \in DOMAIN rows : rows[k].st \in PendingStates
    /\ txOps' = {[op |-> CASE rows[k].st = "PendingAdd"    -> "add"
                         [] rows[k].st = "PendingEdit"   -> "mod"
                         [] rows[k].st = "PendingDelete" -> "del",
                  draft |-> k,
                  key |-> IF NumericIds /\ rows[k].st = "PendingAdd" THEN NoKey ELSE k,
                  val |-> rows[k].val]
                 : k \in {j \in DOMAIN rows : rows[j].st \in PendingStates}}
    /\ txState' = "sent"
    /\ UNCHANGED <<tableVars, net, chain, journal, jpos, nextId, now>>

\* The id the contract gives a numeric add: in draft-id order from nextId
AddOps == {o \in txOps : o.op = "add"}
Assigned(o) == IF NumericIds
               THEN nextId + Cardinality({p \in AddOps : p.draft < o.draft})
               ELSE o.key
Effects == {[op |-> o.op, key |-> IF o.op = "add" THEN Assigned(o) ELSE o.key, val |-> o.val]
            : o \in txOps}
TxLegal == \A e \in Effects : IF e.op = "add" THEN e.key \in RealIds \ DOMAIN chain
                                              ELSE e.key \in DOMAIN chain
EntryType(op) == CASE op = "add" -> "Add" [] op = "mod" -> "Modify" [] op = "del" -> "Delete"

\* The transaction is included: all its actions apply, in key order
TxApply ==
    /\ txState = "sent" /\ TxLegal
    /\ LET dels == {e.key : e \in {e \in Effects : e.op = "del"}}
           sets == {e \in Effects : e.op # "del"}
       IN /\ chain' = [k \in (DOMAIN chain \ dels) \cup {e.key : e \in sets} |->
                         IF \E e \in sets : e.key = k
                         THEN (CHOOSE e \in sets : e.key = k).val ELSE chain[k]]
          /\ journal' = journal \o SetToSortSeq({Entry(EntryType(e.op), e.key) : e \in Effects},
                                                LAMBDA a, b : a.key < b.key)
    /\ nextId' = IF NumericIds THEN nextId + Cardinality(AddOps) ELSE nextId
    /\ txState' = "applied"
    /\ UNCHANGED <<tableVars, net, jpos, now, txOps>>

\* The transaction fails or expires
TxFail ==
    /\ txState = "sent"
    /\ txState' = "failed"
    /\ UNCHANGED <<tableVars, net, chain, journal, jpos, nextId, now, txOps>>

\* Once the pending edits are settled the UI may stage a new batch
NewBatch ==
    /\ txState \in {"applied", "failed"} /\ ~pendingEdits
    /\ txState' = "none" /\ txOps' = {}
    /\ UNCHANGED <<tableVars, net, chain, journal, jpos, nextId, now>>

Tick ==
    /\ now < MaxTime
    /\ now' = now + 1
    /\ UNCHANGED <<tableVars, net, chain, journal, jpos, nextId, txState, txOps>>

\* The GUI thread loops forever in draftEditRow
Spin == hung /\ UNCHANGED vars

-----------------------------------------------------------------------------
Init ==
    /\ rows = [k \in {} |-> [val |-> DefaultVal, st |-> "Loaded"]]
    /\ backups = <<>> /\ added = <<>> /\ pendingEdits = FALSE
    /\ loadingRows = [k \in {} |-> 0]
    /\ viewOpen = FALSE /\ view = {} /\ hung = FALSE /\ outOfRange = FALSE
    /\ net = EmptyBag
    /\ \E S \in SUBSET RealIds : \E c \in [S -> RowVals] :
         /\ chain = c
         /\ nextId = IF S = {} THEN 1 ELSE Max(S) + 1
    /\ journal = <<>> /\ jpos = 0 /\ now = 0
    /\ txState = "none" /\ txOps = {}

Next ==
    \/ \E k \in Ids, cm \in EditFieldMaps : DraftEditRow(k, cm) \/ DraftEditRowHangs(k, cm)
    \/ \E fm \in AddFieldMaps : DraftAddRow(fm)
    \/ \E k \in Ids : DraftDeleteRow(k)
    \/ MarkEditsPending \/ ResetEdits \/ AllRows
    \/ \E m \in DOMAIN net : Serve(m)
    \/ \E m \in DOMAIN net : ServeError(m)
    \/ \E m \in DOMAIN net : Deliver(m)
    \/ DeliverJournal \/ OtherWrite
    \/ Submit \/ TxApply \/ TxFail \/ NewBatch
    \/ Tick \/ Spin

Spec == Init /\ [][Next]_vars

-----------------------------------------------------------------------------
TypeOK ==
    /\ DOMAIN rows \subseteq Ids
    /\ \A k \in DOMAIN rows : rows[k].val \in RowVals /\ rows[k].st \in LoadStates
    /\ \A i \in 1..Len(backups) : backups[i].id \in Ids /\ backups[i].st \in LoadStates
    /\ pendingEdits \in BOOLEAN /\ viewOpen \in BOOLEAN /\ hung \in BOOLEAN
    /\ outOfRange \in BOOLEAN
    /\ DOMAIN loadingRows \subseteq Ids
    /\ view \subseteq Ids
    /\ txState \in {"none", "sent", "applied", "failed"}
    /\ jpos \in 0..Len(journal)

EditStates == DraftStates \cup PendingStates
IsLoading(k) == k \in DOMAIN rows /\ rows[k].st = "Loading"

\* The rows a transaction has been applied for and whose journal entries
\* have all been processed, with nothing left in flight
Quiet == BagCardinality(net) = 0 /\ jpos = Len(journal) /\ txState # "sent"

\* Pending* rows exist only while pendingEdits is set: deleteBackupRow clears
\* the flag whenever the ledger empties, which must not happen while a row
\* still awaits settlement (else the UI may stage drafts over it)
PendingRowsImplyFlag ==
    (\E k \in DOMAIN rows : rows[k].st \in PendingStates) => pendingEdits

\* A Model's modelIds only name rows of the table: every removal path
\* (deleteRow, checkPendingInsertion, draftDeleteRow, resetEdits) notifies it
ViewShowsCachedRows == viewOpen => view \subseteq DOMAIN rows

\* locallyAddedRows and the DraftAdd/PendingAdd rows correspond one to one:
\* draft adds, settlement, invalidation and reset must add and remove both
AddRecordsMatchAddRows ==
    /\ \A i \in 1..Len(added) : /\ added[i].draftId \in DOMAIN rows
                                /\ rows[added[i].draftId].st \in {"DraftAdd", "PendingAdd"}
    /\ \A k \in DOMAIN rows : rows[k].st \in {"DraftAdd", "PendingAdd"} =>
          \E i \in 1..Len(added) : added[i].draftId = k

\* Spec 2.2: the pending flag is cleared when the ledger is reset, so the
\* flag is only set while some backup remains
FlagMeansBackups == pendingEdits => backups # <<>>

\* Spec 2.2: every row in a Draft*/Pending* state has its backup
EditedRowsHaveBackups ==
    \A k \in DOMAIN rows : rows[k].st \in EditStates => HasBackup(backups, k)

\* Spec 2.2/4.3: a backup only exists for a cached row in a Draft*/Pending*
\* state; deleteRow drops the backup of any edited row it removes
BackupsBelongToEditedRows ==
    \A i \in 1..Len(backups) : /\ backups[i].id \in DOMAIN rows
                               /\ rows[backups[i].id].st \in EditStates

\* Spec 8, reset-all law: resetEdits removes every added row and puts every
\* other backed-up row back to its backed-up value and state
ResetRestoresBackups ==
    [][ResetEdits =>
         \A i \in 1..Len(backups) :
            LET b == backups[i] IN
            b.id \in DOMAIN rows =>
              IF rows[b.id].st \in {"DraftAdd", "PendingAdd"}
              THEN b.id \notin DOMAIN rows'
              ELSE b.id \in DOMAIN rows' /\ rows'[b.id] = [val |-> b.val, st |-> b.st]]_vars

\* resetEdits' deleter only removes backup entries that exist
ResetRemovesInRange == ~outOfRange

\* draftEditRow always returns to the event loop
DraftEditReturns == ~hung

\* Spec 5: with the journal processed and no reply outstanding, every
\* Loaded row holds the chain's current value (deleted rows are gone)
MirrorsChainWhenQuiet ==
    Quiet => \A k \in DOMAIN rows : rows[k].st = "Loaded" =>
                k \in DOMAIN chain /\ chain[k] = rows[k].val

\* A Loading placeholder made by getNew is eventually filled or removed
LoadingResolves == \A k \in Ids : IsLoading(k) ~> ~IsLoading(k)

\* Spec 4.3/8: once the UI's transaction is applied, its edits settle as
\* the journal and the refreshes arrive: none of its rows stays Pending*
IsPending(k) == k \in DOMAIN rows /\ rows[k].st \in PendingStates
PendingEditsSettle ==
    \A k \in Ids : (txState = "applied" /\ k \in {o.draft : o \in txOps} /\ IsPending(k))
                    ~> ~IsPending(k)

\* The replies and journal are delivered, and the node answers, eventually
Fairness ==
    /\ WF_vars(\E m \in DOMAIN net : Serve(m) \/ ServeError(m))
    /\ WF_vars(\E m \in DOMAIN net : Deliver(m))
    /\ WF_vars(DeliverJournal)

FairSpec == Spec /\ Fairness

=============================================================================
