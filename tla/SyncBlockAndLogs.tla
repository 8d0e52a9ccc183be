--------------------------- MODULE SyncBlockAndLogs ---------------------------
(***************************************************************************)
(* PublicRPCAPI.SyncBlockAndLogs of rpc/rpcserver/http.go: several         *)
(* requests run it at once, each in a goroutine of the HTTP server, against *)
(* the same tables and the same node.  One action per query, RPC call or   *)
(* insert: between any two of them every other request, the node, the      *)
(* 300-second timeout of the server and a crash of the process may act.    *)
(***************************************************************************)
EXTENDS EventStore, ChainNode

CONSTANTS
  Request,     \* the calls of SyncBlockAndLogs
  Ranges,      \* the <<FromBlock, ToBlock>> pairs clients ask for
  MaxFaults    \* bound: how many database or network errors may happen

ASSUME RangesAssumption == Ranges \subseteq (Int \X Int)
ASSUME MaxFaultsAssumption == MaxFaults \in Nat

VARIABLES
  pc,          \* where each request is in the handler
  from, to,    \* fromBlockInt, toBlockInt
  i,           \* loop variable of the block loop
  raw,         \* the block the raw JSON message decodes to
  ethlogs,     \* the node's answer to FilterLogs
  todo,        \* logs of ethlogs the comparing loop has not reached (from j)
  saving,      \* logs SaveLogs has still to insert in its current call
  reply,       \* what the handler put in *reply
  answer,      \* what the client was answered first
  faults       \* errors so far

\* History variables: no action's guard reads them.
VARIABLES
  head0,       \* height of the node when the request started
  quiet,       \* FilterLogs answered only logs named by a row already, each
               \* with an index that the comparison can recognise
  lostBlooms,  \* heights for which the request's insert of a bloom failed
  lostLogs,    \* logs for which the request's insert failed
  early        \* heights whose logs were fetched by a request that did not
               \* look for their block: it did not exist yet, or ToBlock was
               \* open and the block loop was empty

reqVars  == <<pc, from, to, i, raw, ethlogs, todo, saving>>
outVars  == <<reply, answer>>
histVars == <<head0, quiet, lostBlooms, lostLogs, early>>
vars     == <<nodeVars, storeVars, reqVars, outVars, faults, histVars>>

BlockPhase == {"checkBloom", "callNode", "saveBloom"}
LogPhase   == {"filterLogs", "checkLog", "saveLogs"}
Running    == BlockPhase \union LogPhase
Replies    == {"none", "ok", "InvalidParams", "SystemError"}
Answers    == Replies \union {"timeout", "reset"}

TypeOK ==
  /\ NodeTypeOK
  /\ StoreTypeOK
  /\ pc \in [Request -> {"idle", "done", "crashed"} \union Running]
  /\ from \in [Request -> Int]
  /\ to \in [Request -> Int]
  /\ i \in [Request -> Int]
  /\ raw \in [Request -> BloomRow]
  /\ ethlogs \in [Request -> SUBSET Log]
  /\ todo \in [Request -> SUBSET Log]
  /\ saving \in [Request -> SUBSET Log]
  /\ reply \in [Request -> Replies]
  /\ answer \in [Request -> Answers]
  /\ faults \in Nat
  /\ head0 \in [Request -> Heights]
  /\ quiet \in [Request -> BOOLEAN]
  /\ lostBlooms \in [Request -> SUBSET Heights]
  /\ lostLogs \in [Request -> SUBSET Log]
  /\ early \in SUBSET Heights

Init ==
  /\ NodeInit
  /\ StoreInit
  /\ pc = [r \in Request |-> "idle"]
  /\ from = [r \in Request |-> 0]
  /\ to = [r \in Request |-> 0]
  /\ i = [r \in Request |-> 0]
  /\ raw = [r \in Request |-> ZeroRow]
  /\ ethlogs = [r \in Request |-> {}]
  /\ todo = [r \in Request |-> {}]
  /\ saving = [r \in Request |-> {}]
  /\ reply = [r \in Request |-> "none"]
  /\ answer = [r \in Request |-> "none"]
  /\ faults = 0
  /\ head0 = [r \in Request |-> 0]
  /\ quiet = [r \in Request |-> FALSE]
  /\ lostBlooms = [r \in Request |-> {}]
  /\ lostLogs = [r \in Request |-> {}]
  /\ early = {}

-----------------------------------------------------------------------------
Goto(r, label) == pc' = [pc EXCEPT ![r] = label]

\* The handler returns: its reply reaches the client unless the client was
\* answered before.
Return(r, what) ==
  /\ Goto(r, "done")
  /\ reply' = [reply EXCEPT ![r] = what]
  /\ answer' = [answer EXCEPT ![r] = IF @ = "none" THEN what ELSE @]

Fault ==
  /\ faults < MaxFaults
  /\ faults' = faults + 1

\* A query or an RPC call returns an error: the request gives up, and what
\* it stored so far stays.
GiveUp(r) ==
  /\ Return(r, "SystemError")
  /\ UNCHANGED <<nodeVars, storeVars, from, to, i, raw, ethlogs, todo, saving,
                 histVars>>

(* Dial and parse the bounds.                                              *)

\* SyncRpcAddr cannot be dialled.
StartUndialled(r) ==
  /\ pc[r] = "idle"
  /\ Fault
  /\ GiveUp(r)

\* FromBlock or ToBlock is absent: its text "<nil>" does not parse.
StartUnparsed(r) ==
  /\ pc[r] = "idle"
  /\ Return(r, "InvalidParams")
  /\ UNCHANGED <<nodeVars, storeVars, from, to, i, raw, ethlogs, todo, saving,
                 faults, histVars>>

\* Bug (never part of Next, like those below): the logs are synchronised without the blocks.
StartWithLogs(r) ==
  /\ pc[r] = "idle"
  /\ \E range \in Ranges :
       /\ from' = [from EXCEPT ![r] = range[1]]
       /\ to' = [to EXCEPT ![r] = range[2]]
  /\ head0' = [head0 EXCEPT ![r] = head]
  /\ Goto(r, "filterLogs")
  /\ UNCHANGED <<nodeVars, storeVars, i, raw, ethlogs, todo, saving, outVars,
                 faults, quiet, lostBlooms, lostLogs, early>>

Start(r) ==
  /\ pc[r] = "idle"
  /\ \E range \in Ranges :
       /\ from' = [from EXCEPT ![r] = range[1]]
       /\ to' = [to EXCEPT ![r] = range[2]]
       /\ i' = [i EXCEPT ![r] = range[1]]
  /\ head0' = [head0 EXCEPT ![r] = head]
  /\ Goto(r, "checkBloom")
  /\ UNCHANGED <<nodeVars, storeVars, raw, ethlogs, todo, saving, outVars,
                 faults, quiet, lostBlooms, lostLogs, early>>

(* The block loop: for i := fromBlockInt; i <= toBlockInt; i++.            *)

\* Bug: continue does not reach the increment.
BloomFoundStays(r) ==
  /\ pc[r] = "checkBloom"
  /\ i[r] <= to[r]
  /\ BloomStored(i[r])
  /\ UNCHANGED vars

\* GetBloomByBlockNumber(i) answered a non-empty bloom: continue.
BloomFound(r) ==
  /\ pc[r] = "checkBloom"
  /\ i[r] <= to[r]
  /\ \E row \in GetBloomByBlockNumber(i[r]) : HasBloom(row)
  /\ i' = [i EXCEPT ![r] = @ + 1]
  /\ UNCHANGED <<nodeVars, storeVars, pc, from, to, raw, ethlogs, todo, saving,
                 outVars, faults, histVars>>

\* It answered the empty string.  An error met while iterating the rows is
\* recovered from and dropped, so it also reads as the empty string.
BloomMissing(r) ==
  /\ pc[r] = "checkBloom"
  /\ i[r] <= to[r]
  /\ \/ /\ \E row \in GetBloomByBlockNumber(i[r]) : ~HasBloom(row)
        /\ UNCHANGED faults
     \/ Fault
  /\ Goto(r, "callNode")
  /\ UNCHANGED <<nodeVars, storeVars, from, to, i, raw, ethlogs, todo, saving,
                 outVars, histVars>>

BloomQueryFails(r) ==
  /\ pc[r] = "checkBloom"
  /\ i[r] <= to[r]
  /\ Fault
  /\ GiveUp(r)

\* Bug: a null answer is decoded as a block of the requested number.
CallNodeDecodesNull(r) ==
  /\ pc[r] = "callNode"
  /\ i[r] >= 0
  /\ raw' = [raw EXCEPT ![r] =
       [num |-> i[r], fork |-> IF i[r] <= head THEN canon[i[r]] ELSE -1]]
  /\ Goto(r, "saveBloom")
  /\ UNCHANGED <<nodeVars, storeVars, from, to, i, ethlogs, todo, saving,
                 outVars, faults, histVars>>

\* eth_getBlockByNumber(i).  For a height the node does not have it answers
\* null, which leaves the message of the previous call in raw.
CallNode(r) ==
  /\ pc[r] = "callNode"
  /\ i[r] >= 0
  /\ \/ /\ i[r] <= head
        /\ raw' = [raw EXCEPT ![r] = CanonicalBlock(i[r])]
     \/ /\ i[r] > head
        /\ UNCHANGED raw
  /\ Goto(r, "saveBloom")
  /\ UNCHANGED <<nodeVars, storeVars, from, to, i, ethlogs, todo, saving,
                 outVars, faults, histVars>>

\* The call fails; it always does for the text of a negative number.
CallNodeFails(r) ==
  /\ pc[r] = "callNode"
  /\ \/ i[r] < 0 /\ UNCHANGED faults
     \/ Fault
  /\ GiveUp(r)

\* Bug: the row takes its number from the loop variable.
SaveBloomOfLoop(r) ==
  /\ pc[r] = "saveBloom"
  /\ InsertBloom([raw[r] EXCEPT !.num = i[r]])
  /\ i' = [i EXCEPT ![r] = @ + 1]
  /\ Goto(r, "checkBloom")
  /\ UNCHANGED <<nodeVars, from, to, raw, ethlogs, todo, saving, outVars,
                 faults, histVars>>

\* SaveBloom(block.Number, block.Hash, block.LogsBloom), then i++.
SaveBloom(r) ==
  /\ pc[r] = "saveBloom"
  /\ \/ /\ InsertBloom(raw[r])
        /\ UNCHANGED <<faults, lostBlooms>>
     \/ /\ Fault
        /\ lostBlooms' = [lostBlooms EXCEPT ![r] = @ \union {raw[r].num}]
        /\ UNCHANGED storeVars
  /\ i' = [i EXCEPT ![r] = @ + 1]
  /\ Goto(r, "checkBloom")
  /\ UNCHANGED <<nodeVars, from, to, raw, ethlogs, todo, saving, outVars, head0,
                 quiet, lostLogs, early>>

\* Bug: i < toBlockInt.
BlocksDoneBeforeLast(r) ==
  /\ pc[r] = "checkBloom"
  /\ i[r] >= to[r]
  /\ Goto(r, "filterLogs")
  /\ UNCHANGED <<nodeVars, storeVars, from, to, i, raw, ethlogs, todo, saving,
                 outVars, faults, histVars>>

BlocksDone(r) ==
  /\ pc[r] = "checkBloom"
  /\ i[r] > to[r]
  /\ Goto(r, "filterLogs")
  /\ UNCHANGED <<nodeVars, storeVars, from, to, i, raw, ethlogs, todo, saving,
                 outVars, faults, histVars>>

(* The logs: one FilterLogs, then for j := 0; j < len(ethlogs); j++.       *)

\* Heights the block loop of r looked for and the node had from the start:
\* none when ToBlock is open, that is -1.
LookedFor(r) ==
  {h \in Heights : from[r] <= h /\ h <= to[r] /\ h <= head0[r]}

FilterLogs(r) ==
  /\ pc[r] = "filterLogs"
  /\ to[r] >= Latest
  /\ LET found == NodeLogs(from[r], to[r]) IN
       /\ ethlogs' = [ethlogs EXCEPT ![r] = found]
       /\ todo' = [todo EXCEPT ![r] = found]
       /\ quiet' = [quiet EXCEPT ![r] =
            \A l \in found : LogNamed(l) /\ QueriedIndex(l) = StoredIndex(l)]
       /\ early' = early \union ({l.num : l \in found} \ LookedFor(r))
  /\ Goto(r, "checkLog")
  /\ UNCHANGED <<nodeVars, storeVars, from, to, i, raw, saving, outVars, faults,
                 head0, lostBlooms, lostLogs>>

\* ethclient.Dial or FilterLogs fails; it always does when the bound is a
\* negative number other than -1.
FilterLogsFails(r) ==
  /\ pc[r] = "filterLogs"
  /\ \/ to[r] < Latest /\ UNCHANGED faults
     \/ Fault
  /\ GiveUp(r)

\* l is the next log of a loop over s.
Next1(l, s) == l \in s /\ \A m \in s : Precedes(l, m)

LogFound(r) ==
  /\ pc[r] = "checkLog"
  /\ \E l \in todo[r] :
       /\ Next1(l, todo[r])
       /\ GetLogByTxhashAndLogIndex(l) # {}
       /\ todo' = [todo EXCEPT ![r] = @ \ {l}]
  /\ UNCHANGED <<nodeVars, storeVars, pc, from, to, i, raw, ethlogs, saving,
                 outVars, faults, histVars>>

\* Bug: SaveLogs is given only the logs after the missing one.
LogMissingSavesRest(r) ==
  /\ pc[r] = "checkLog"
  /\ \E l \in todo[r] :
       /\ Next1(l, todo[r])
       /\ GetLogByTxhashAndLogIndex(l) = {}
       /\ todo' = [todo EXCEPT ![r] = @ \ {l}]
       /\ saving' = [saving EXCEPT ![r] = todo[r] \ {l}]
       /\ Goto(r, IF todo[r] = {l} THEN "checkLog" ELSE "saveLogs")
  /\ UNCHANGED <<nodeVars, storeVars, from, to, i, raw, ethlogs, outVars,
                 faults, histVars>>

\* Bug: SaveLogs is called whatever the lookup found.
LogMissingUnread(r) ==
  /\ pc[r] = "checkLog"
  /\ \E l \in todo[r] :
       /\ Next1(l, todo[r])
       /\ todo' = [todo EXCEPT ![r] = @ \ {l}]
  /\ saving' = [saving EXCEPT ![r] = ethlogs[r]]
  /\ Goto(r, "saveLogs")
  /\ UNCHANGED <<nodeVars, storeVars, from, to, i, raw, ethlogs, outVars,
                 faults, histVars>>

\* No row for ethlogs[j], or an iteration error that reads as none: SaveLogs
\* is called with the whole of ethlogs.
LogMissing(r) ==
  /\ pc[r] = "checkLog"
  /\ \E l \in todo[r] :
       /\ Next1(l, todo[r])
       /\ \/ GetLogByTxhashAndLogIndex(l) = {} /\ UNCHANGED faults
          \/ Fault
       /\ todo' = [todo EXCEPT ![r] = @ \ {l}]
  /\ saving' = [saving EXCEPT ![r] = ethlogs[r]]
  /\ Goto(r, "saveLogs")
  /\ UNCHANGED <<nodeVars, storeVars, from, to, i, raw, ethlogs, outVars,
                 histVars>>

LogQueryFails(r) ==
  /\ pc[r] = "checkLog"
  /\ todo[r] # {}
  /\ Fault
  /\ GiveUp(r)

\* One turn of the loop in SaveLogs; after the last one the comparing loop
\* goes on with j + 1.
SaveLog(r) ==
  /\ pc[r] = "saveLogs"
  /\ \E l \in saving[r] :
       /\ Next1(l, saving[r])
       /\ \/ /\ InsertLog(l)
             /\ UNCHANGED <<faults, lostLogs>>
          \/ /\ Fault
             /\ lostLogs' = [lostLogs EXCEPT ![r] = @ \union {l}]
             /\ UNCHANGED storeVars
       /\ saving' = [saving EXCEPT ![r] = @ \ {l}]
       /\ IF saving[r] = {l} THEN Goto(r, "checkLog") ELSE UNCHANGED pc
  /\ UNCHANGED <<nodeVars, from, to, i, raw, ethlogs, todo, outVars, head0,
                 quiet, lostBlooms, early>>

SyncSuccessful(r) ==
  /\ pc[r] = "checkLog"
  /\ todo[r] = {}
  /\ Return(r, "ok")
  /\ UNCHANGED <<nodeVars, storeVars, from, to, i, raw, ethlogs, todo, saving,
                 faults, histVars>>

-----------------------------------------------------------------------------
(* The environment.                                                        *)

\* http.TimeoutHandler answers the client after 300 seconds.  The goroutine
\* of the handler is not stopped.
Timeout(r) ==
  /\ pc[r] \in Running
  /\ answer[r] = "none"
  /\ answer' = [answer EXCEPT ![r] = "timeout"]
  /\ UNCHANGED <<nodeVars, storeVars, reqVars, reply, faults, histVars>>

\* The process dies: every handler stops where it is, the tables remain.
Crash ==
  /\ \E r \in Request : pc[r] \in Running
  /\ pc' = [r \in Request |-> IF pc[r] \in Running THEN "crashed" ELSE pc[r]]
  /\ answer' = [r \in Request |->
       IF pc[r] \in Running /\ answer[r] = "none" THEN "reset" ELSE answer[r]]
  /\ UNCHANGED <<nodeVars, storeVars, from, to, i, raw, ethlogs, todo, saving,
                 reply, faults, histVars>>

Node ==
  /\ \/ NewBlock
     \/ \E h \in Heights : Reorg(h)
  /\ UNCHANGED <<storeVars, reqVars, outVars, faults, histVars>>

\* What the goroutine of r does once it has started.
Handler(r) ==
  \/ BloomFound(r) \/ BloomMissing(r) \/ BloomQueryFails(r)
  \/ CallNode(r) \/ CallNodeFails(r) \/ SaveBloom(r) \/ BlocksDone(r)
  \/ FilterLogs(r) \/ FilterLogsFails(r)
  \/ LogFound(r) \/ LogMissing(r) \/ LogQueryFails(r) \/ SaveLog(r)
  \/ SyncSuccessful(r)

Request0(r) == StartUndialled(r) \/ StartUnparsed(r) \/ Start(r)

Next ==
  \/ \E r \in Request : Request0(r) \/ Handler(r) \/ Timeout(r)
  \/ Crash
  \/ Node

Spec == Init /\ [][Next]_vars

\* A started goroutine keeps running, and its calls return.
HandlerFairness == \A r \in Request : WF_vars(Handler(r))

FairSpec == Spec /\ HandlerFairness

-----------------------------------------------------------------------------
(* Properties.                                                             *)

\* Heights the client asked for and the node had from the start; an open
\* ToBlock asks for everything up to the newest block.
Asked(r) ==
  {h \in Heights : /\ from[r] <= h
                   /\ to[r] = Latest \/ h <= to[r]
                   /\ h <= head0[r]}

\* A request that answered "Sync successful!" left a bloom for every height
\* the client asked for and the node had when the request started, unless its
\* own insert of that bloom failed: continuing past a stored bloom, whoever
\* stored it, and saving a fetched one leave no height out, whatever other
\* requests, the node and the clock do in between.  In particular a later
\* request makes up for what an earlier one lost, or left behind when the
\* process crashed.  It holds of ranges with two ends (sync_race); with an open
\* ToBlock the block loop is empty, and the answer is the same (sync_open).
OkCoversRange ==
  \A r \in Request : reply[r] = "ok" =>
    \A h \in Asked(r) : BloomStored(h) \/ h \in lostBlooms[r]

\* A request that answered "Sync successful!" left every log the node gave it
\* in the table, unless its own insert of that log failed.  With indices of
\* one digit it rests on the comparing loop stopping at each missing log.  With
\* two digits the lookup may mistake a later log of the same transaction for
\* the one it looks for; but then the last log of that transaction is never
\* recognised, and the whole answer is stored again.  It holds while every
\* transaction is included in one block only (sync_race).  A reorganisation
\* that includes it again breaks it, whatever the index, because the lookup asks
\* for no block (db_models.go:139): the row of the block that is gone is taken
\* for the log of the new block, which is never stored.
OkMeansLogsStored ==
  \A r \in Request : reply[r] = "ok" =>
    \A l \in ethlogs[r] : LogStored(l) \/ l \in lostLogs[r]

\* What is left of it under reorganisations, if indices have one digit: every
\* log the node gave has a row with its transaction and its index, perhaps of a
\* block that is gone, unless the request's own insert of it failed.  With two
\* digits not even that is left (sync_alias).
OkMeansLogsNamed ==
  \A r \in Request : reply[r] = "ok" =>
    \A l \in ethlogs[r] : LogNamed(l) \/ l \in lostLogs[r]

\* GetBlockHeight never exceeds the node's height: asking for heights the
\* node does not have yet stores no row for them, because the row takes its
\* number from the answer and never from the loop variable.
NoPhantomHeight ==
  \A row \in BloomRow : block_bloom[row] > 0 => row.num <= head

\* The tables are an append-only mirror of the chain: whatever the requests,
\* the node and the failures do, every step of this module adds at most one
\* row and takes none back, and that row is of a block the node has or once
\* had, fork and all, or it is the empty row of block number 0, which is of none
\* (for a height the node does not have the answer is null, and SaveBloom stores
\* what that leaves).  Readers such as eth_getLogs need to know no more than
\* that about the synchronisations.
Tables == INSTANCE Mirror WITH block_bloom <- block_bloom, logs <- logs,
                               had <- had

MirrorSpec == Tables!Spec

\* A stored log whose block has no bloom is invisible to eth_getLogs.  That
\* happens only when the insert of the bloom failed or when the log was
\* fetched by a request that never looked for its block (early).
LogHasBloom ==
  \A l \in Log : logs[l] > 0 =>
    \/ BloomStored(l.num)
    \/ l.num \in early
    \/ \E r \in Request : l.num \in lostBlooms[r]

\* Repeating a synchronisation whose logs all have rows writes no log, even
\* while other requests are in the middle of writing theirs, as long as no
\* query fails and every index is below ten.
ResyncIsQuiet ==
  \A r \in Request : quiet[r] /\ faults = 0 => pc[r] # "saveLogs"

\* The goroutine of a started request comes to an end: neither loop can be
\* kept going by a growing chain or by other requests' rows.
HandlerEnds ==
  \A r \in Request : pc[r] \in Running ~> pc[r] \in {"done", "crashed"}
=============================================================================
