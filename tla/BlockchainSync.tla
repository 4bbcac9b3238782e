---------------------------- MODULE BlockchainSync ----------------------------
(***************************************************************************)
(* The synchronization driver of BlockchainInterface                       *)
(* (src/cpp/BlockchainInterface.cpp): the node URL, the sync status, the   *)
(* sync timer, the journal cursor lastJournalEntry and the head block time *)
(* learnt from get_info; the get_info, journal and table replies in        *)
(* flight; and what the tables were told: each journal entry passed to     *)
(* newJournalEntries, and the chain length when refreshAllTables was last  *)
(* emitted (every table then re-reads all its rows).                       *)
(*                                                                         *)
(* A reply runs all the slots connected to its finished (and, on a network *)
(* error, errorOccurred) signal one after the other on the GUI thread, so  *)
(* the delivery of a reply is one action.  The RTT slot of makeCall only   *)
(* records serverLatency and is left out.                                  *)
(***************************************************************************)
EXTENDS Naturals, Bags, BagsExt

CONSTANTS
    Urls,           \* URLs QML may set
    NoUrl, GoodUrl, \* model values: the empty URL and the working node's URL
    MaxEntries,     \* bound: journal entries the chain holds
    InitEntries,    \* bound: entries already in the journal when the app starts
    JournalLimit,   \* "limit" of the incremental journal fetch (100 in code)
    Ages,           \* seconds since the head block a get_info can report
    NoAge,          \* model value: headBlockTime not yet set (invalid QDateTime)
    StaleSettings,  \* values QML may give to setSyncStaleSeconds
    MaxFailures     \* bound: failed or nonsensical replies from the good node

ASSUME {NoUrl, GoodUrl} \subseteq Urls
ASSUME InitEntries \in 0..MaxEntries /\ JournalLimit \in Nat \ {0}
ASSUME Ages \subseteq Nat /\ StaleSettings \subseteq Nat

\* SyncStatus and its numeric values (BlockchainInterface.hpp)
Rank == [Idle |-> 0, WaitingForConnection |-> 1, RecoveringConnection |-> 2,
         Synchronized |-> 8, SynchronizedStale |-> 9]
SyncStatuses == DOMAIN Rank
Connected == 7
ConnectedStatuses == {s \in SyncStatuses : Rank[s] > Connected}

\* the staleness cutoff connectNetworkReply compares against, in seconds
StaleCutoff == 10

VARIABLES
    url,            \* data->nodeUrl
    status,         \* data->syncStatus
    syncStaleSeconds, \* data->syncStaleSeconds
    timerOn,        \* data->syncTimer != nullptr (a started QTimer)
    last,           \* data->lastJournalEntry.id, 0 while it is not valid
    headAge,        \* now - data->headBlockTime, NoAge before any get_info
    chainLen,       \* entries in the node's journal table
    net,            \* bag of requests and replies in flight
    failures,       \* failed or nonsensical replies served so far
    fed,            \* entry id -> times passed to newJournalEntries (capped at 2)
    refreshedThrough, \* chainLen when refreshAllTables was last emitted
    wasConnected    \* history: the status rose above Connected since the
                    \* last connectNow or disconnect

vars == <<url, status, syncStaleSeconds, timerOn, last, headAge, chainLen,
          net, failures, fed, refreshedThrough, wasConnected>>

EntryIds == 1..MaxEntries

(* ---------------------------------------------------------------------- *)
(* Requests and replies.  kind is "info" (get_info), "journal" (the       *)
(* journal table) or "table" (a table's get_table_rows made through       *)
(* makeApiCaller).  A journal request with lb = 0 is the bootstrap fetch  *)
(* (newest entry only); otherwise lb is the lower bound.  A journal reply *)
(* carries the ids first..lst of its entries, lst = 0 when there are none.*)
(* ---------------------------------------------------------------------- *)
Msg(kind, lb) ==
    [kind |-> kind, phase |-> "req", to |-> url, lb |-> lb, res |-> "none",
     first |-> 0, lst |-> 0, age |-> NoAge]

\* JournalEntry::isValid(): an entry has been seen
IsValid(id) == id # 0

\* beginSync: get_info, then the journal after the last seen entry, or
\* only the newest entry when none has been seen
BeginSync(n) ==
    BagAdd(BagAdd(n, Msg("info", 0)),
           Msg("journal", IF IsValid(last) THEN last + 1 ELSE 0))

\* the status connectNetworkReply's finished slot picks from the head age;
\* an invalid headBlockTime gives an undefined toSecsSinceEpoch
FreshnessStatuses(age) ==
    IF age = NoAge THEN {"Synchronized", "SynchronizedStale"}
    ELSE IF age > StaleCutoff THEN {"SynchronizedStale"} ELSE {"Synchronized"}

\* Mutant of OnErrorStatus: the never-connected branch sets the threshold
\* value Connected instead of WaitingForConnection.
OnErrorStatusThreshold(s) ==
    IF Rank[s] > Connected THEN "RecoveringConnection" ELSE "Connected"

\* connectNetworkReply's errorOccurred slot
OnErrorStatus(s) ==
    IF Rank[s] > Connected THEN "RecoveringConnection" ELSE "WaitingForConnection"

(* ---------------------------------------------------------------------- *)
(* Public slots                                                            *)
(* ---------------------------------------------------------------------- *)

\* disconnect: go Idle and drop the timer; requests in flight are not aborted
Disconnect ==
    /\ status' = "Idle"
    /\ timerOn' = FALSE
    /\ wasConnected' = FALSE
    /\ UNCHANGED <<url, syncStaleSeconds, last, headAge, chainLen, net,
                   failures, fed, refreshedThrough>>

\* connectNow: on an empty or invalid URL nothing happens; otherwise
\* disconnect, WaitingForConnection, beginSync, and a new periodic timer
Connect(u) ==
    /\ u # NoUrl
    /\ status' = "WaitingForConnection"
    /\ timerOn' = TRUE
    /\ wasConnected' = FALSE
    /\ net' = BagAdd(BagAdd(net, [Msg("info", 0) EXCEPT !.to = u]),
                     [Msg("journal", IF IsValid(last) THEN last + 1 ELSE 0)
                        EXCEPT !.to = u])
ConnectNow ==
    /\ Connect(url)
    /\ UNCHANGED <<url, syncStaleSeconds, last, headAge, chainLen, failures,
                   fed, refreshedThrough>>

\* setNodeUrl: a changed URL emits nodeUrlChanged, connected to connectNow
SetNodeUrl(u) ==
    /\ u # url
    /\ url' = u
    /\ IF u = NoUrl THEN UNCHANGED <<status, timerOn, net, wasConnected>>
                     ELSE Connect(u)
    /\ UNCHANGED <<syncStaleSeconds, last, headAge, chainLen, failures, fed,
                   refreshedThrough>>

\* setSyncStaleSeconds
SetSyncStaleSeconds(s) ==
    /\ s # syncStaleSeconds
    /\ syncStaleSeconds' = s
    /\ UNCHANGED <<url, status, timerOn, last, headAge, chainLen, net,
                   failures, fed, refreshedThrough, wasConnected>>

\* the sync timer's timeout: beginSync
TimerFires ==
    /\ timerOn
    /\ net' = BeginSync(net)
    /\ UNCHANGED <<url, status, syncStaleSeconds, timerOn, last, headAge,
                   chainLen, failures, fed, refreshedThrough, wasConnected>>

(* ---------------------------------------------------------------------- *)
(* The node                                                                *)
(* ---------------------------------------------------------------------- *)

\* the journal rows a get_table_rows on the journal returns
JournalRange(lb) ==
    IF lb = 0
    THEN IF chainLen = 0 THEN <<0, 0>> ELSE <<chainLen, chainLen>>
    ELSE IF lb > chainLen THEN <<0, 0>>
    ELSE <<lb, IF lb + JournalLimit - 1 < chainLen
               THEN lb + JournalLimit - 1 ELSE chainLen>>

\* A request is answered: a request to a URL that is not the node fails;
\* the node fails or answers nonsense at most MaxFailures times.
Serve(m) ==
    /\ m.phase = "req"
    /\ \E res \in {"ok", "err", "nonsense"}, age \in Ages :
         /\ m.to # GoodUrl => res = "err"
         /\ m.to = GoodUrl /\ res # "ok" => failures < MaxFailures
         /\ m.kind = "table" => res # "nonsense"
         /\ failures' = IF m.to = GoodUrl /\ res # "ok"
                        THEN failures + 1 ELSE failures
         /\ LET r == JournalRange(m.lb)
                reply == [m EXCEPT !.phase = "reply", !.res = res,
                                   !.first = IF m.kind = "journal" THEN r[1] ELSE 0,
                                   !.lst = IF m.kind = "journal" THEN r[2] ELSE 0,
                                   !.age = IF m.kind = "info" THEN age ELSE NoAge]
            IN net' = BagAdd(BagRemove(net, m), reply)
    /\ UNCHANGED <<url, status, syncStaleSeconds, timerOn, last, headAge,
                   chainLen, fed, refreshedThrough, wasConnected>>

\* another account's transaction adds a journal entry
Append ==
    /\ chainLen < MaxEntries
    /\ chainLen' = chainLen + 1
    /\ UNCHANGED <<url, status, syncStaleSeconds, timerOn, last, headAge, net,
                   failures, fed, refreshedThrough, wasConnected>>

(* ---------------------------------------------------------------------- *)
(* Reply handlers                                                          *)
(* ---------------------------------------------------------------------- *)

\* newJournalEntries(entries): count each entry passed to the tables
Announce(first, lst) ==
    [i \in EntryIds |-> IF i \in first..lst /\ fed[i] < 2 THEN fed[i] + 1
                        ELSE fed[i]]

\* get_info reply: errorOccurred slot, then processInfoReply, then the
\* finished slot of connectNetworkReply
DeliverInfo(m) ==
    /\ m.phase = "reply" /\ m.kind = "info"
    /\ net' = BagRemove(net, m)
    /\ \/ /\ m.res = "err"
          /\ status' = OnErrorStatus(status)
          /\ UNCHANGED headAge
       \/ /\ m.res = "ok"
          /\ headAge' = m.age
          /\ status' \in FreshnessStatuses(m.age)
       \/ /\ m.res = "nonsense"
          \* updateSyncStatus(RecoveringConnection), then the finished slot
          /\ status' \in FreshnessStatuses(headAge)
          /\ UNCHANGED headAge
    /\ UNCHANGED <<url, syncStaleSeconds, timerOn, last, chainLen, failures,
                   fed, refreshedThrough>>
    /\ wasConnected' = (wasConnected \/ status' \in ConnectedStatuses)

\* Mutants of DeliverJournal: no continuity check; an early return on the
\* gap path.
DeliverJournalNoGapCheck(m) ==
    /\ m.phase = "reply" /\ m.kind = "journal"
    /\ \/ /\ m.res = "err"
          /\ net' = BagRemove(net, m)
          /\ UNCHANGED <<status, last, fed, refreshedThrough>>
       \/ /\ m.res = "nonsense"
          /\ net' = BagRemove(net, m)
          /\ status' = "RecoveringConnection"
          /\ UNCHANGED <<last, fed, refreshedThrough>>
       \/ /\ m.res = "ok" /\ m.lst = 0
          /\ net' = BagRemove(net, m)
          /\ UNCHANGED <<status, last, fed, refreshedThrough>>
       \/ /\ m.res = "ok" /\ m.lst # 0
          /\ IF TRUE
             THEN /\ fed' = Announce(m.first, m.lst)
                  /\ net' = BagRemove(net, m)
                  /\ UNCHANGED refreshedThrough
             \* refreshAllTables: every table's fullRefresh
             ELSE /\ refreshedThrough' = chainLen
                  /\ net' = BagAdd(BagRemove(net, m), Msg("table", 0))
                  /\ UNCHANGED fed
          /\ last' = m.lst
          /\ UNCHANGED status
    /\ UNCHANGED <<url, syncStaleSeconds, timerOn, headAge, chainLen, failures, wasConnected>>

DeliverJournalGapReturns(m) ==
    /\ m.phase = "reply" /\ m.kind = "journal"
    /\ \/ /\ m.res = "err"
          /\ net' = BagRemove(net, m)
          /\ UNCHANGED <<status, last, fed, refreshedThrough>>
       \/ /\ m.res = "nonsense"
          /\ net' = BagRemove(net, m)
          /\ status' = "RecoveringConnection"
          /\ UNCHANGED <<last, fed, refreshedThrough>>
       \/ /\ m.res = "ok" /\ m.lst = 0
          /\ net' = BagRemove(net, m)
          /\ UNCHANGED <<status, last, fed, refreshedThrough>>
       \/ /\ m.res = "ok" /\ m.lst # 0
          /\ IF IsValid(last) /\ m.first = last + 1
             THEN /\ fed' = Announce(m.first, m.lst)
                  /\ net' = BagRemove(net, m)
                  /\ UNCHANGED refreshedThrough
             \* refreshAllTables: every table's fullRefresh
             ELSE /\ net' = BagRemove(net, m)
                  /\ UNCHANGED <<fed, refreshedThrough>>
          /\ last' = IF IsValid(last) /\ m.first = last + 1 THEN m.lst ELSE last
          /\ UNCHANGED status
    /\ UNCHANGED <<url, syncStaleSeconds, timerOn, headAge, chainLen, failures, wasConnected>>

\* journal reply: processJournalReply (no connectNetworkReply slots)
DeliverJournal(m) ==
    /\ m.phase = "reply" /\ m.kind = "journal"
    /\ \/ /\ m.res = "err"
          /\ net' = BagRemove(net, m)
          /\ UNCHANGED <<status, last, fed, refreshedThrough>>
       \/ /\ m.res = "nonsense"
          /\ net' = BagRemove(net, m)
          /\ status' = "RecoveringConnection"
          /\ UNCHANGED <<last, fed, refreshedThrough>>
       \/ /\ m.res = "ok" /\ m.lst = 0
          /\ net' = BagRemove(net, m)
          /\ UNCHANGED <<status, last, fed, refreshedThrough>>
       \/ /\ m.res = "ok" /\ m.lst # 0
          /\ IF IsValid(last) /\ m.first = last + 1
             THEN /\ fed' = Announce(m.first, m.lst)
                  /\ net' = BagRemove(net, m)
                  /\ UNCHANGED refreshedThrough
             \* refreshAllTables: every table's fullRefresh
             ELSE /\ refreshedThrough' = chainLen
                  /\ net' = BagAdd(BagRemove(net, m), Msg("table", 0))
                  /\ UNCHANGED fed
          /\ last' = m.lst
          /\ UNCHANGED status
    /\ UNCHANGED <<url, syncStaleSeconds, timerOn, headAge, chainLen, failures, wasConnected>>

\* a table's get_table_rows reply: the slots of connectNetworkReply (the
\* table's own processRowsResponse is modelled by AbstractTable)
DeliverTable(m) ==
    /\ m.phase = "reply" /\ m.kind = "table"
    /\ net' = BagRemove(net, m)
    /\ status' \in IF m.res = "err" THEN {OnErrorStatus(status)}
                   ELSE FreshnessStatuses(headAge)
    /\ UNCHANGED <<url, syncStaleSeconds, timerOn, last, headAge, chainLen,
                   failures, fed, refreshedThrough>>
    /\ wasConnected' = (wasConnected \/ status' \in ConnectedStatuses)

(* ---------------------------------------------------------------------- *)
(* Specification                                                           *)
(* ---------------------------------------------------------------------- *)

Init ==
    /\ url = NoUrl
    /\ status = "Idle"
    /\ syncStaleSeconds = 10
    /\ timerOn = FALSE
    /\ last = 0
    /\ headAge = NoAge
    /\ chainLen \in 0..InitEntries
    /\ net = EmptyBag
    /\ failures = 0
    /\ fed = [i \in EntryIds |-> 0]
    /\ refreshedThrough = 0
    /\ wasConnected = FALSE

Next ==
    \/ \E u \in Urls : SetNodeUrl(u)
    \/ ConnectNow
    \/ Disconnect
    \/ \E s \in StaleSettings : SetSyncStaleSeconds(s)
    \/ TimerFires
    \/ Append
    \/ \E m \in DOMAIN net : Serve(m)
    \/ \E m \in DOMAIN net : DeliverInfo(m)
    \/ \E m \in DOMAIN net : DeliverJournal(m)
    \/ \E m \in DOMAIN net : DeliverTable(m)

Spec == Init /\ [][Next]_vars

\* The node answers and the GUI thread handles every reply; the QTimer
\* keeps firing while it exists.
Fairness ==
    /\ WF_vars(TimerFires)
    /\ WF_vars(\E m \in DOMAIN net : Serve(m))
    /\ WF_vars(\E m \in DOMAIN net : DeliverInfo(m) \/ DeliverJournal(m)
                                     \/ DeliverTable(m))

FairSpec == Spec /\ Fairness

(* ---------------------------------------------------------------------- *)
(* Properties                                                              *)
(* ---------------------------------------------------------------------- *)

TypeOK ==
    /\ url \in Urls
    /\ status \in SyncStatuses
    /\ timerOn \in BOOLEAN
    /\ last \in 0..MaxEntries
    /\ headAge \in Ages \cup {NoAge}
    /\ chainLen \in 0..MaxEntries
    /\ IsABag(net)
    /\ failures \in 0..MaxFailures
    /\ fed \in [EntryIds -> 0..2]
    /\ refreshedThrough \in 0..MaxEntries
    /\ wasConnected \in BOOLEAN

\* the tables have learnt entry i: it was passed to newJournalEntries, or
\* refreshAllTables was emitted after it was written
Covered(i) == fed[i] > 0 \/ i <= refreshedThrough

\* the longest prefix of the journal the tables have learnt
KnownPrefix ==
    CHOOSE n \in 0..chainLen :
        /\ \A i \in 1..n : Covered(i)
        /\ n = chainLen \/ ~Covered(n + 1)

\* processJournalReply moves lastJournalEntry past an entry only when the
\* tables have been told it or told to refresh: the driver refines the
\* journal feed with the cursor mapped to lastJournalEntry.
Feed == INSTANCE JournalFeed WITH written <- chainLen, known <- KnownPrefix,
                                  cursor <- last
FeedRefinement == Feed!Spec

\* Every entry written while the timer runs on the working node reaches
\* the tables unless the driver is disconnected or pointed elsewhere
\* (beginSync, processJournalReply and the sync timer).
EntriesReachTables ==
    \A i \in EntryIds :
        (chainLen >= i /\ timerOn /\ url = GoodUrl)
            ~> (Covered(i) \/ ~timerOn \/ url # GoodUrl)

\* processJournalReply passes each journal entry to the tables at most
\* once (spec.md section 5: entries are applied in ascending id order,
\* with no reordering across separate requests).
EntriesAnnouncedOnce == \A i \in EntryIds : fed[i] <= 1

\* A get_info reply that is not sensible downgrades the status to
\* RecoveringConnection (processInfoReply; spec.md section 6, malformed
\* response), and the downgrade is not undone by the same reply.
NonsenseDowngrades ==
    [][\A m \in DOMAIN net :
          (DeliverInfo(m) /\ m.res = "nonsense") => Rank[status'] < Connected]_vars

\* A call that fails after the driver was connected leaves it
\* RecoveringConnection, never WaitingForConnection, until it reconnects
\* (connectNetworkReply's errorOccurred slot; spec.md section 4.4).
RecoveringStaysRecovering == wasConnected => status # "WaitingForConnection"

\* The status is Synchronized only while the head block is no older than
\* the configured syncStaleSeconds (connectNetworkReply; spec.md 4.4).
FreshMeansWithinSetting ==
    status = "Synchronized" /\ headAge # NoAge => headAge <= syncStaleSeconds

\* After disconnect the driver stays Idle until it connects again: replies
\* still in flight do not bring the status back (disconnect, connectNow's
\* "Abort any pending requests").
IdleWhileDisconnected == ~timerOn => status = "Idle"
=============================================================================
