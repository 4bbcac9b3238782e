------------------------ MODULE BroadcastableTransaction ------------------------
(***************************************************************************)
(* One BroadcastableTransaction (src/cpp/BroadcastableTransaction.cpp)     *)
(* after KeyManager::prepareForBroadcast: its status, its block number and *)
(* its connections to BlockchainInterface::headBlockChanged; the          *)
(* push_transaction calls made by BlockchainInterface::submitTransaction  *)
(* and the get_block calls made from headBlockChanged, in flight.          *)
(*                                                                         *)
(* The environment is the chain: its head and last irreversible block, the *)
(* block that holds the transaction (which a fork may change until it is   *)
(* irreversible) and whether the transaction is the first one of that      *)
(* block; and the head and irreversible numbers BlockchainInterface last   *)
(* read from get_info, whose processInfoReply emits headBlockChanged.       *)
(***************************************************************************)
EXTENDS Naturals, Bags, BagsExt

CONSTANTS
    MaxHead,        \* bound: highest block number
    MaxSubmits,     \* bound: submitTransaction calls for the transaction
    MaxFailures,    \* bound: calls whose reply is a network error
    Forks           \* whether a reversible block may change

ASSUME MaxHead \in Nat \ {0} /\ MaxSubmits \in Nat \ {0} /\ Forks \in BOOLEAN

Blocks == 1..MaxHead
\* TransactionStatus values a broadcastable transaction can take (Enums.hpp)
Statuses == {"Pending", "Confirmed", "Irreversible", "Failed", "Unknown"}
\* what a get_block reply shows: the transaction is the first one of the
\* block, another transaction comes first, or the call failed
Verdicts == {"mine", "other", "err"}

VARIABLES
    status,         \* m_status
    blockNumber,    \* m_blockNumber
    subs,           \* connections of headBlockChanged to this object
    head, lib,      \* BlockchainInterface's headBlockNumber and irreversibleBlockNumber
    chainHead, chainLib, \* the chain's head and last irreversible block
    incl,           \* the block holding the transaction, 0 when none
    first,          \* the transaction is the first in block incl
    net,            \* bag of calls and replies in flight
    submits,        \* submitTransaction calls so far
    failures        \* network errors so far

vars == <<status, blockNumber, subs, head, lib, chainHead, chainLib, incl,
          first, net, submits, failures>>
chainVars == <<chainHead, chainLib, incl, first>>

(* ---------------------------------------------------------------------- *)
(* Calls: a push_transaction (kind "push") answers "rejected" (an error    *)
(* object), "ok" with the block number, or "lost" (a network error whose  *)
(* body is empty); a get_block of block b answers a verdict.               *)
(* ---------------------------------------------------------------------- *)
Call(kind, b) == [kind |-> kind, phase |-> "req", b |-> b, res |-> "none"]

\* BlockchainInterface::submitTransaction: POST push_transaction
SubmitTransaction ==
    /\ submits < MaxSubmits
    /\ submits' = submits + 1
    /\ net' = BagAdd(net, Call("push", 0))
    /\ UNCHANGED <<status, blockNumber, subs, head, lib, failures, chainVars>>

\* the node handles a push: it may refuse it (always, as a duplicate, when
\* the transaction is already in a block), or put it in a reversible block;
\* the reply may be lost whether or not the node applied it
ServePush(m) ==
    /\ m.kind = "push" /\ m.phase = "req"
    /\ \/ /\ net' = BagAdd(BagRemove(net, m), [m EXCEPT !.phase = "reply", !.res = "rejected"])
          /\ UNCHANGED <<incl, first, failures>>
       \/ /\ incl = 0
          /\ \E b \in (chainLib + 1)..chainHead, f \in BOOLEAN :
               /\ incl' = b /\ first' = f
               /\ \/ /\ net' = BagAdd(BagRemove(net, m),
                                      [m EXCEPT !.phase = "reply", !.res = "ok", !.b = b])
                     /\ UNCHANGED failures
                  \/ /\ failures < MaxFailures
                     /\ failures' = failures + 1
                     /\ net' = BagAdd(BagRemove(net, m),
                                      [m EXCEPT !.phase = "reply", !.res = "lost"])
       \/ /\ failures < MaxFailures
          /\ failures' = failures + 1
          /\ net' = BagAdd(BagRemove(net, m), [m EXCEPT !.phase = "reply", !.res = "lost"])
          /\ UNCHANGED <<incl, first>>
    /\ UNCHANGED <<status, blockNumber, subs, head, lib, chainHead, chainLib,
                   submits>>

\* Mutant of BroadcastFinished: the block number recorded one past the
\* processed block.
BroadcastFinishedNextBlock(m) ==
    /\ m.kind = "push" /\ m.phase = "reply"
    /\ net' = BagRemove(net, m)
    /\ \/ /\ m.res = "rejected"
          /\ status' = "Failed"
          /\ UNCHANGED <<blockNumber, subs>>
       \/ /\ m.res = "ok"
          /\ status' = "Confirmed"
          /\ blockNumber' = m.b + 1
          /\ subs' = subs + 1
       \/ /\ m.res = "lost"
          /\ subs' = subs + 1
          /\ UNCHANGED <<status, blockNumber>>
    /\ UNCHANGED <<head, lib, submits, failures, chainVars>>

\* broadcastFinished: an error object fails the transaction; a processed
\* block number confirms it; anything that is not an error, an empty body
\* included, then connects headBlockChanged
BroadcastFinished(m) ==
    /\ m.kind = "push" /\ m.phase = "reply"
    /\ net' = BagRemove(net, m)
    /\ \/ /\ m.res = "rejected"
          /\ status' = "Failed"
          /\ UNCHANGED <<blockNumber, subs>>
       \/ /\ m.res = "ok"
          /\ status' = "Confirmed"
          /\ blockNumber' = m.b
          /\ subs' = subs + 1
       \/ /\ m.res = "lost"
          /\ subs' = subs + 1
          /\ UNCHANGED <<status, blockNumber>>
    /\ UNCHANGED <<head, lib, submits, failures, chainVars>>

\* Mutant of HeadBlockChanged: the block is fetched only once the head has
\* passed it.
HeadBlockChangedPast(n, h) ==
    IF status # "Confirmed" THEN [subs |-> 0, net |-> n]
    ELSE IF h > blockNumber
         THEN [subs |-> subs, net |-> BagAdd(n, Call("block", blockNumber))]
         ELSE [subs |-> subs, net |-> n]

\* the headBlockChanged slot run once: a transaction that is not Confirmed
\* disconnects (Qt then skips its other connections); a Confirmed one
\* fetches its block once the head has reached it
HeadBlockChanged(n, h) ==
    IF status # "Confirmed" THEN [subs |-> 0, net |-> n]
    ELSE IF h >= blockNumber
         THEN [subs |-> subs, net |-> BagAdd(n, Call("block", blockNumber))]
         ELSE [subs |-> subs, net |-> n]

\* the slot runs once per connection
RECURSIVE RunSlots(_, _, _)
RunSlots(k, n, h) ==
    IF k = 0 THEN [subs |-> subs, net |-> n]
    ELSE LET r == HeadBlockChanged(n, h)
         IN IF r.subs = 0 THEN r ELSE RunSlots(k - 1, r.net, h)

\* processInfoReply: read the chain's head and irreversible block, then
\* emit headBlockChanged
ProcessInfoReply ==
    /\ head' = chainHead
    /\ lib' = chainLib
    /\ LET r == RunSlots(subs, net, chainHead)
       IN /\ subs' = r.subs
          /\ net' = r.net
    /\ UNCHANGED <<status, blockNumber, submits, failures, chainVars>>

\* the node answers get_block with the block's transactions
ServeBlock(m) ==
    /\ m.kind = "block" /\ m.phase = "req"
    /\ \E v \in Verdicts :
         /\ v = "mine" => incl = m.b /\ first
         /\ v = "other" => ~(incl = m.b /\ first)
         /\ v = "err" => failures < MaxFailures
         /\ failures' = IF v = "err" THEN failures + 1 ELSE failures
         /\ net' = BagAdd(BagRemove(net, m), [m EXCEPT !.phase = "reply", !.res = v])
    /\ UNCHANGED <<status, blockNumber, subs, head, lib, submits, chainVars>>

\* the get_block reply slot: the first transaction object of the block
\* with a string id decides Irreversible or Unknown; a reply without
\* transactions is not understood, also Unknown
GetBlockFinished(m) ==
    /\ m.kind = "block" /\ m.phase = "reply"
    /\ net' = BagRemove(net, m)
    /\ status' = CASE m.res = "mine"  -> "Irreversible"
                   [] m.res = "other" -> "Unknown"
                   [] m.res = "err"   -> status
    /\ UNCHANGED <<blockNumber, subs, head, lib, submits, failures, chainVars>>

\* the chain produces a block, or a block becomes irreversible
ChainAdvance ==
    \/ /\ chainHead < MaxHead
       /\ chainHead' = chainHead + 1
       /\ UNCHANGED chainLib
    \/ /\ chainLib < chainHead
       /\ chainLib' = chainLib + 1
       /\ UNCHANGED chainHead
    /\ UNCHANGED <<status, blockNumber, subs, head, lib, incl, first, net,
                   submits, failures>>

\* a fork replaces the reversible block holding the transaction
Fork ==
    /\ Forks
    /\ incl > chainLib
    /\ incl' \in {0} \cup (chainLib + 1)..chainHead
    /\ first' \in BOOLEAN
    /\ UNCHANGED <<status, blockNumber, subs, head, lib, chainHead, chainLib,
                   net, submits, failures>>

Init ==
    /\ status = "Pending"
    /\ blockNumber = 0
    /\ subs = 0
    /\ chainHead \in Blocks
    /\ chainLib \in 0..(chainHead - 1)
    /\ head = chainHead /\ lib = chainLib
    /\ incl = 0 /\ first = FALSE
    /\ net = EmptyBag
    /\ submits = 0
    /\ failures = 0

Next ==
    \/ SubmitTransaction
    \/ ProcessInfoReply
    \/ ChainAdvance
    \/ Fork
    \/ \E m \in DOMAIN net : ServePush(m)
    \/ \E m \in DOMAIN net : BroadcastFinished(m)
    \/ \E m \in DOMAIN net : ServeBlock(m)
    \/ \E m \in DOMAIN net : GetBlockFinished(m)

Spec == Init /\ [][Next]_vars

\* The chain keeps producing blocks, the sync timer keeps fetching get_info,
\* and the node answers and the GUI thread handles every reply.
Fairness ==
    /\ WF_vars(ChainAdvance)
    /\ WF_vars(ProcessInfoReply)
    /\ WF_vars(\E m \in DOMAIN net : ServePush(m) \/ ServeBlock(m))
    /\ WF_vars(\E m \in DOMAIN net : BroadcastFinished(m) \/ GetBlockFinished(m))

FairSpec == Spec /\ Fairness

(* ---------------------------------------------------------------------- *)
(* Properties                                                              *)
(* ---------------------------------------------------------------------- *)

TypeOK ==
    /\ status \in Statuses
    /\ blockNumber \in 0..MaxHead
    /\ subs \in 0..MaxSubmits
    /\ head \in Blocks /\ lib \in 0..MaxHead
    /\ chainHead \in Blocks /\ chainLib \in 0..chainHead
    /\ incl \in 0..MaxHead /\ first \in BOOLEAN
    /\ IsABag(net)
    /\ submits \in 0..MaxSubmits /\ failures \in 0..MaxFailures

\* A Confirmed transaction is eventually found Irreversible or Unknown:
\* headBlockChanged keeps it connected and fetches its block once the
\* head reaches it (broadcastFinished, headBlockChanged).
ConfirmedResolves ==
    status = "Confirmed" ~> status \in {"Irreversible", "Unknown"}

\* A transaction is Irreversible only once its block is irreversible
\* (headBlockChanged: "This transaction's block is now said to be
\* irreversible").
IrreversibleOnlyWhenFinal ==
    status = "Irreversible" => chainLib >= blockNumber

\* A transaction is Unknown only if it is not in the block it was
\* confirmed in (the get_block reply slot).
UnknownOnlyWhenAbsent == status = "Unknown" => incl # blockNumber

\* A Failed transaction was not applied by the chain (Enums.hpp: Failed is
\* a transaction that failed due to an error or expired before
\* confirmation; broadcastFinished).
FailedMeansNotApplied == status = "Failed" => incl = 0

\* Irreversible is final: no later step changes it (every headBlockChanged
\* while Confirmed issues another get_block, and each reply sets the status).
IrreversibleStays ==
    [][status = "Irreversible" => status' = "Irreversible"]_vars

\* A broadcast transaction eventually leaves Pending: it is confirmed,
\* fails or expires (Enums.hpp TransactionStatus; broadcastFinished).
BroadcastResolves == (submits > 0 /\ status = "Pending") ~> status # "Pending"
=============================================================================
