----------------------------- MODULE JournalFeed -----------------------------
(***************************************************************************)
(* What the synchronization driver promises the tables it feeds (spec.md   *)
(* section 4.4): the chain's journal grows; the tables learn its entries   *)
(* as a prefix that never shrinks and never runs ahead of the chain; and   *)
(* the driver's journal cursor (lastJournalEntry) never passes an entry    *)
(* the tables have not learnt, whether by being told the entry or by a    *)
(* full refresh issued after it was written.  The cursor itself may move   *)
(* either way: only what the tables know is promised to grow.              *)
(***************************************************************************)
EXTENDS Naturals

CONSTANT MaxEntries     \* bound: journal entries the chain holds

VARIABLES
    written,    \* entries in the chain's journal
    known,      \* the tables know every entry 1..known
    cursor      \* the driver's last seen entry id, 0 when none

avars == <<written, known, cursor>>

Init ==
    /\ written \in 0..MaxEntries
    /\ known = 0
    /\ cursor = 0

\* Another account's transaction appends an entry to the journal.
Write ==
    /\ written < MaxEntries
    /\ written' = written + 1
    /\ UNCHANGED <<known, cursor>>

\* The driver handles a reply: the tables may learn more, and the cursor
\* moves to any entry the tables know.
Sync ==
    /\ known' \in known..written
    /\ cursor' \in 0..known'
    /\ UNCHANGED written

Next == Write \/ Sync

Spec == Init /\ [][Next]_avars

TypeOK ==
    /\ written \in 0..MaxEntries
    /\ known \in 0..written
    /\ cursor \in 0..known
=============================================================================
