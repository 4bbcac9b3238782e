# TLA+ models of pollaris-ui

This directory holds TLA+ models of the stateful C++ parts of pollaris-ui, the TLC
configurations that check them, and `PROJECT.json`. `PROJECT.json` lists the components, the
runs, the mutants, the map from each definition to the source lines it translates, the
findings and the hazards.

## The system and how its parts interact

- **AbstractTable<Row>** (`src/cpp/AbstractTable.hpp`, `TableSupport.hpp`) caches one scope
  of one chain table.
  - The rows live in `rowList`/`rowStates` (LoadState, `Enums.hpp`).
  - Optimistic edits are kept in the BackupManager ledger, `locallyAddedRows` and the
    `pendingEdits` flag.
  - `loadingRows` deduplicates refreshes.
  - Models (`AbstractTable::Model`) project the cache for QML.
  - Replies to `get_table_rows` are reconciled in `processRowsResponse`.
- **BlockchainInterface** (`BlockchainInterface.cpp`) is the sync driver.
  - A timer calls `beginSync`, which issues `get_info` and a journal fetch from
    `lastJournalEntry`.
  - `processJournalReply` hands contiguous entries to the tables (`newJournalEntries`),
    or asks every table for a full refresh after a gap.
  - `connectNetworkReply` derives the sync status from replies and errors.
  - It also keeps the table registry (`getPollingGroupTable`, `getGroupMembersTable`,
    `rescopeGroupMembersTable`).
  - The registry is used by the PollingGroups table's `groupSize` virtual field and its
    `PendingAddSettled` hook (`Tables.hpp`).
- **BroadcastableTransaction** follows a pushed transaction.
  - It goes through Pending, Confirmed and Irreversible (or Unknown, Failed).
  - It reacts to push replies, head-block changes and `get_block` replies.
- **The transaction pipeline** builds what BroadcastableTransaction pushes.
  - QML fills a `MutableTransaction` (`setActions`, `addAction`, `deleteAction`).
  - `KeyManager::prepareForSigning` fills in a null reference block and expiration and
    builds a `SignableTransaction`.
  - `signTransaction` bumps the expiration and appends a signature.
  - `prepareForBroadcast` packs it into the `BroadcastableTransaction` that
    `submitTransaction` pushes.
- **EOSIO names** (`KeyManager.cpp` `name`/`string_to_uint64_t`, `EosioName.hpp`
  `to_string`) convert account, action and permission names to and from their 64-bit
  form. `permission_level` parses the `actor@permission` strings `addAction` writes.
- **Actions** (`Action`, `Strings.cpp`, `KeyManager.cpp`) are checked against
  `Strings::LegalActionArguments` by `addAction`. The `eosio::action` constructor reads
  their JSON arguments into the struct of their name's case of a switch and packs it.
  `decodeAction` unpacks the data with the struct of its own switch's case, for display.
- **Qappa's ComponentManager** creates QML objects.
  - Creation goes through cached components and a vector of incubators.
- **Assistant** keeps the log-correlation registry `knownTasks`.
  - A tag is written by `getLoggingTag` under the write lock, and taken by the message
    handler under the read lock.
  - Nothing under `src/` writes a Task to a log yet (`operator<<` in `Task.cpp` has no
    caller), so this path is latent.

All table, sync, registry, transaction and component work runs on the GUI thread. Each
handler runs to completion and is one atomic action. The concurrency that matters is the
order in which replies, journal entries, timer ticks, UI calls, other accounts' writes and
incubators arrive. Only the logging path runs on several threads.

## Modules

| Module | Models | Source |
|---|---|---|
| `AbstractTable.tla`, `MCAbstractTable.tla` | One table with its ledger, added records, pending flag, loading map and one Model. It also models its environment: the chain table, the journal, `get_table_rows` traffic, other writers, a clock, and the UI's transaction. | `AbstractTable.hpp`, `TableSupport.hpp`, `Strings.hpp` (`getTableJson`) |
| `BlockchainSync.tla`, `MCBlockchainSync.tla` | The sync driver: `connectNow`, `disconnect`, `setNodeUrl`, `setSyncStaleSeconds`, the timer's `beginSync`, `processInfoReply`, `processJournalReply`, and the two slots of `connectNetworkReply`. It runs against a working node, a wrong URL and the empty URL, with failures and nonsense replies. | `BlockchainInterface.cpp/.hpp` |
| `JournalFeed.tla` | The abstract promise the driver makes to the tables (spec §4.4). The journal grows, and the tables' known prefix never shrinks or runs ahead of it. The cursor never passes an entry the tables have not learnt. | spec |
| `BroadcastableTransaction.tla`, `MCBroadcastableTransaction.tla` | `submitTransaction`, `broadcastFinished`, `headBlockChanged` and the `get_block` reply. They run against a chain that advances and may fork, with lost replies and failed calls. | `BroadcastableTransaction.cpp`, `BlockchainInterface.cpp` |
| `EosioName.tla` | The name codec as operators on a 64-bit word kept as 64 bits (TLC's integers are 32 bits): `char_to_symbol`, `string_to_uint64_t`, `name::set`, `to_string`, `permission_level` and `decodeAction`'s authorization string. `IsValidName` is the reference definition of a name. | `KeyManager.cpp`, `EosioName.hpp`, `Strings.cpp` |
| `ActionSerialization.tla` | The nine action names and their argument lists (`Strings.cpp`), `Action::validateName`/`validateArguments`, the members `FC_REFLECT` gives each argument struct, and the two switches on the name value: `Serialize` (the `eosio::action` constructor from a QML `Action`) and `Show` (`decodeAction`). Arguments are the set of their keys, a struct the set of its members; data unpacked as another struct than it was packed from shows as `Garbled`. | `Strings.cpp`, `Action.hpp`, `KeyManager.cpp` |
| `TransactionPipeline.tla`, `MCTransactionPipeline.tla` | Extends BroadcastableTransaction with the pipeline: `setActions`, `addAction`, `deleteAction`, `prepareForSigning`, `signTransaction` (with `SignableTransaction::setExpiration`/`addSignature`), `prepareForBroadcast`, and a fork that drops the reference block. An action is its name, the set of its argument keys and its authorization (`voter@active` for `dcsn.set`, `fmv@active` otherwise). `addAction` validates the name and arguments; `setActions` takes QML-built actions as they are. `prepareForSigning` converts every action through `Serialize` and the transaction shows what `Show` reads back. A transaction is its actions, reference block, expiration and, per signature, the expiration it signed. The node applies a push only if it is valid (`PushValid`). | `MutableTransaction.cpp/.hpp`, `SignableTransaction.hpp`, `KeyManager.cpp` |
| `TableRegistry.tla` | The registry of GroupMembers tables; `updateScope`; and the PollingGroups table's draft add, load, settle and delete. It also covers `updateVirtualRoles` and the size field's `rowChanged`, and QML garbage collection of orphaned tables. | `BlockchainInterface.cpp`, `AbstractTable.hpp`, `Tables.hpp` |
| `ComponentManager.tla` | All three `createObject` overloads (file, source text, component), `beginCreation`, `finishCreation`, the incubators, and the engine's destruction. | `src/Qappa/ComponentManager.cpp` |
| `LogTags.tla`, `MCLogTags.tla` | `createTask`, `getLoggingTag` (probing from `qHash`) and the message handler's `knownTasks.take`, done by two threads. The take holds the read lock only and unlinks the node in place, so it is split into its lookup and its unlink. Two takes at once are a data race; the model keeps one of its outcomes, a lookup that misses its entry while another handler is unlinking. Tree corruption and crashes are not modelled. | `Assistant.cpp` |

Conventions:
- A handler is one action.
- The helpers a handler calls are operators on a state record (`T` in AbstractTable, `Reg`
  in TableRegistry), so they compose in the code's order. Examples: `ResetFrom`, which is
  RECURSIVE like `BackupManager::forEach` with its deleter; `CheckPendingInsertion`;
  `PendingAddSettled`.
- Undefined behaviour is a nondeterministic choice between the outcomes a build can give.
  Two cases occur: `QList::removeAt` past the end in `resetEdits`, and `erase` past the end
  of the incubator vector.
- The table's submission pipeline (`Submit`/`TxApply`/`TxFail`/`NewBatch`) is modelled
  from the spec, because the QML that drives it is not in the repository.

## Runs

| Run | Config | Checks | What it shows |
|---|---|---|---|
| `table_numeric` | `MCAbstractTable.cfg` | TypeOK, PendingRowsImplyFlag, ViewShowsCachedRows | On a numeric-id table, every interleaving of edits, resets, journal entries, replies (failing ones included) and other writers keeps Pending rows under the flag and the Model inside the cache. |
| `reset_two_adds` | `MCResetTwoAddRecords.cfg` | AddRecordsMatchAddRows (violated) | Two draft adds and a `resetEdits`: the forEach's deleter skips the second add's backup, so its row stays DraftAdd while `locallyAddedRows` is cleared. |
| `late_reply_resurrects` | `MCStaleResurrect.cfg` | MirrorsChainWhenQuiet (violated) | A reply served before a journal Delete re-inserts the deleted row. |
| `sync_refinement` | `MCBlockchainSync.cfg` | TypeOK, FeedRefinement | The driver implements `JournalFeed` under the mapping written ← chain length, known ← the tables' known prefix, cursor ← `lastJournalEntry`. |
| `sync_liveness` | `MCBlockchainSyncLive.cfg` | EntriesReachTables | Every entry written while the driver runs against the working node reaches the tables. |
| `sync_replay` | `MCSyncReplay.cfg` | EntriesAnnouncedOnce (violated) | Overlapping `beginSync` calls pass entries to the tables twice. |
| `trx_confirmation` | `MCTransactionPipeline.cfg` | PipeTypeOK, LastSignatureCoversContent, NameRoundTrip, AuthorizationRoundTrip, ArgumentsRoundTrip, ConfirmedResolves | Over the whole pipeline, with forks and lost replies: the latest signature always covers the transaction as it reads, and a Confirmed transaction ends Irreversible or Unknown. Over bounded inputs, a string survives `name` then `to_string` exactly when it is a valid name (all nine action names are), and an authorization survives `permission_level` then `decodeAction`; so every authorization the signed transaction carries reads as `addAction` wrote it exactly when its voter is a name. Every one of the nine actions, built as `addAction` builds it, reads back through `Serialize` and `Show` with its name and argument keys, and every action of the signed transaction that passes `Action`'s validation carries the name and arguments it was given (ArgumentsRoundTrip; a `decodeAction` case pasted from its neighbour breaks it). |
| `trx_unknown_present` | `MCTrxUnknown.cfg` | UnknownOnlyWhenAbsent (violated) | A transaction that is in its block, but not first in it, is marked Unknown. |
| `registry` | `MCTableRegistry.cfg` | TypeOK, RegisteredTableServesItsGroup, SizeFieldFollowsGroup | A registered table is live and scoped to its key. A group's size field reads its own group's table through drafting, settling, rescoping and garbage collection. |
| `components` | `MCComponentManager.cfg` | TypeOK, CallbackAtMostOnce | No `createObject` callback runs twice. |
| `components_lost_callback` | `MCComponentLost.cfg` | CreationCallsBack (violated) | A stale captured index erases another incubator, and its callback never runs. |
| `log_tags_race` | `MCLogTags.cfg` | ResolvesOwnTask (violated) | Two handlers take from `knownTasks` at once under the read lock; one lookup misses its own entry, so the line is not associated with its task. |

Each property of a passing run has a mutant in `PROJECT.json`: a plausible bug in a mapped
definition that TLC finds under the run's own cfg.

### Further counterexamples kept beside the runs

These configurations are not runs. Each shows a further violation that the hazards in
`PROJECT.json` refer to:

| Config | Module | Property | Counterexample |
|---|---|---|---|
| `MCResetFlag.cfg` | MCAbstractTable | FlagMeansBackups | `resetEdits` never clears `pendingEdits`. |
| `MCResetTwoAdds.cfg` | MCAbstractTable | EditedRowsHaveBackups | Two draft adds and then a reset leave a DraftAdd row without a backup. |
| `MCResetRange.cfg` | MCAbstractTable | ResetRemovesInRange | Reset's deleter calls `removeAt(size)`. |
| `MCResetLaw.cfg` | MCAbstractTable | ResetRestoresBackups | Edit, draft delete, reset keeps the edited value. |
| `MCJournalDeletePending.cfg` | MCAbstractTable | BackupsBelongToEditedRows | A Delete of a PendingEdit row leaves its backup. |
| `MCEditHang.cfg` | MCAbstractTable | DraftEditReturns | An edit of a draft-added row with a new field loops forever. |
| `MCNamesRecords.cfg` | MCAbstractTable | AddRecordsMatchAddRows | On name ids, a Modify of a draft-added row orphans its record. |
| `MCLoadingStuck.cfg` | MCAbstractTable | LoadingResolves | A row edited while Loading stays Loading. |
| `MCPendingAddStuck.cfg` | MCAbstractTable | PendingEditsSettle | An applied add never settles. |
| `MCSyncStaleSetting.cfg` | MCBlockchainSync | FreshMeansWithinSetting | The freshness check ignores `syncStaleSeconds`. |
| `MCSyncLateReply.cfg` | MCBlockchainSync | IdleWhileDisconnected | A late reply after disconnect changes the status. |
| `MCSyncNonsense.cfg` | MCBlockchainSync | NonsenseDowngrades | A nonsense `get_info` downgrade is overwritten. |
| `MCSyncRecovering.cfg` | MCBlockchainSync | RecoveringStaysRecovering | A second error reports WaitingForConnection. |
| `MCTrxIrreversible.cfg` | MCBroadcastableTransaction | IrreversibleOnlyWhenFinal | Irreversible is set when the head, not the last irreversible block, passes the block. |
| `MCTrxRetry.cfg` | MCBroadcastableTransaction | FailedMeansNotApplied | A resubmission whose first push was applied is marked Failed. |
| `MCTrxPending.cfg` | MCBroadcastableTransaction | BroadcastResolves | A lost push reply leaves the transaction Pending. |
| `MCTrxFlip.cfg` | MCBroadcastableTransaction | IrreversibleStays | Reordered `get_block` replies turn Irreversible into Unknown. |
| `MCTrxResign.cfg` | MCTransactionPipeline | AllSignaturesCoverContent | A transaction signed in one block and signed again in a later one carries a first signature over an older expiration. |
| `MCRegistryDuplicate.cfg` | TableRegistry | OneTablePerScope | An orphan's destroyed handler removes a reused draft id's table, so a second table is created for one scope. |
| `MCComponentErase.cfg` | ComponentManager | EraseInRange | An incubator erases an index past the end. |
| `MCLogTagsLeak.cfg` | MCLogTags | EntriesBelongToLines | A take whose lookup missed during another take deletes nothing, and its entry stays in `knownTasks`. |

## Bounds and why they suffice

- **Tables.** One real id, draft ids up to `BASE_DRAFT_ID`, one field with values {0, 1},
  one message in flight, two journal entries, and failing replies.
  - One draft add at a time in `table_numeric`. With two, `resetEdits` breaks the
    one-to-one of add records and add rows, which `reset_two_adds` shows.
  - Name-id tables are not a passing run: with one real id their row is the only row,
    so they add nothing to what the numeric run checks. `MCNamesRecords.cfg` keeps the
    name-id counterexample.
  - This allows a refresh to race a write, an add, a modify and a delete of the same row,
    and the UI's transaction.
  - `PageSize` is 1, not 100, so that continuation pages occur.
- **Sync.** Two journal entries, one of them initial, and one entry per journal page.
  - Up to three requests in flight, so timer ticks overlap.
  - One node failure.
  - Head ages {0, 15} against a stale setting of 10, so both freshness outcomes occur.
- **Transactions.** Head heights up to 3, one submission, one failure, and forks on.
- **Pipeline.** Head heights up to 2, one action, two signatures, a lifetime of one
  block. Two signatures in different blocks, an expired push and a forked reference
  block all occur.
  - The GUI steps are taken only before the push (`submits = 0`). After it, no step
    reads `mtActions`, `mtExp`, `st` or the content of the pushed actions, so `PipeView`
    leaves them out of the state fingerprint.
  - Names: all strings of up to two characters over `a z A @ .`, up to three over
    `a k @`, eleven `a`s followed by those, the nine action names and a sample of the
    charmap. This reaches the 12th and 13th characters, the 4-bit last symbol, trailing
    dots, and characters outside the charmap.
  - Voters typed into `addAction`: two of 13 characters, ending in the largest allowed
    13th character and the smallest refused one. Upper-case letters in a voter are
    covered by the bounded voter strings of `AuthorizationRoundTrip`.
  - Actions in the state: `addAction` with `dcsn.set` (the voter's authorization) and
    `cntst.modify` (the contract's), each with its legal argument keys, and one
    QML-built action with a name no switch knows, through `setActions`. All nine action
    names go through `Serialize` and `Show` in the constant `ActionsRoundTrip`.
  - The bounded-input checks are constant definitions, which TLC evaluates once. The
    invariants combine them with the voters in the state.
- **Registry.** One draft id, two real ids and four tables. A draft can then settle while
  the other real group is registered, and orphans can be collected.
- **Components.** Three requests across the file and source caches and the component
  overload.
- **Logging.** Two threads and two tasks with equal hashes, so every tag is found by
  probing. Two lines per thread. Two threads are the fewest for the race.

## Fairness

- **BlockchainSync `FairSpec`.** Weak fairness on the timer, the node answering, and the
  event loop delivering replies. The timer is a started `QTimer` and Qt delivers every
  finished reply.
- **BroadcastableTransaction `FairSpec`.** The chain advances, the sync timer keeps
  reading `get_info` (`ProcessInfoReply`), the node answers, and replies are delivered.
- **TransactionPipeline `PipeFairSpec`.** The same fairness as BroadcastableTransaction.
  The GUI steps are the user's and have none.
- **ComponentManager `FairSpec`.** A loading component finishes loading, and a live
  incubator finishes. Both are driven by the event loop.
- **AbstractTable `FairSpec`.** The node answers, replies are delivered, and journal
  entries are processed.
- **The UI and other accounts.** No fairness is assumed for either.

## Not modelled

- **KeyManager:** cryptography, key storage, `getSharedSecret` and the binary
  serialization of a transaction. A signature is abstracted to the expiration it signed.
- **TlsPskSession:** a wrapper around `QSslSocket`. Its behaviour is Qt's TLS handshake
  and socket; its only own state is the PSK callback that `connectToServer` replaces and
  the key manager pointer. The QML code that reads its lines is not in the repository.
  `getSharedSecret`, which it calls, is cryptography.
- **Strings:** constants and JSON templates, except the authorization template, the
  action names and their argument lists.
- **Action argument values:** an action's arguments are the set of their keys, and a
  packed struct is the set of its members. The values, their JSON types and fc's byte
  layout are not modelled. `Action::describe` is display text.
- **The JSON conversions:** abstracted to row records.
- **The FPS timer and the Assistant constructor and destructor:** Assistants are QML
  objects on the GUI thread.
- **UXManager and Plugin:** registration glue.
- **Glue and vendored code:** main.cpp, the reflection headers and the vendored fc
  library.
