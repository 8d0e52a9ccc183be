------------------------ MODULE SyncBlockAndLogsProofs ------------------------
(***************************************************************************)
(* What holds of SyncBlockAndLogs for every number of requests, faults and *)
(* reorganisations, every chain and every set of requested ranges.         *)
(***************************************************************************)
EXTENDS SyncBlockAndLogs, FiniteSums, TLAPS

-----------------------------------------------------------------------------
(* Type correctness.                                                       *)

\* The initial state is well typed.
LEMMA TypeOKInit == Init => TypeOK
<1> SUFFICES ASSUME Init PROVE TypeOK
  OBVIOUS
<1>1. had \in SUBSET Block
  BY MaxHeightAssumption, MaxReorgsAssumption DEF Init, NodeInit, Block, Heights, Forks
<1> QED
  BY <1>1, MaxHeightAssumption, MaxReorgsAssumption
  DEF Init, NodeInit, StoreInit, TypeOK, NodeTypeOK, StoreTypeOK, Heights, Forks,
      Block, BloomRow, ZeroRow, Running, BlockPhase, LogPhase, Replies, Answers

\* Every step keeps the state well typed.
LEMMA TypeOKNext == TypeOK /\ [Next]_vars => TypeOK'
<1> SUFFICES ASSUME TypeOK, [Next]_vars PROVE TypeOK'
  OBVIOUS
<1> USE DEF TypeOK, NodeTypeOK, StoreTypeOK, nodeVars, storeVars, outVars,
            histVars, reqVars, Running, BlockPhase, LogPhase, Replies, Answers
<1>1. ASSUME NEW r \in Request, StartUndialled(r) PROVE TypeOK'
  BY <1>1 DEF StartUndialled, Fault, GiveUp, Return, Goto
<1>2. ASSUME NEW r \in Request, StartUnparsed(r) PROVE TypeOK'
  BY <1>2 DEF StartUnparsed, Return, Goto
<1>3. ASSUME NEW r \in Request, Start(r) PROVE TypeOK'
  BY <1>3, RangesAssumption DEF Start, Goto
<1>4. ASSUME NEW r \in Request, BloomFound(r) PROVE TypeOK'
  BY <1>4 DEF BloomFound
<1>5. ASSUME NEW r \in Request, BloomMissing(r) PROVE TypeOK'
  BY <1>5 DEF BloomMissing, Fault, Goto
<1>6. ASSUME NEW r \in Request, BloomQueryFails(r) PROVE TypeOK'
  BY <1>6 DEF BloomQueryFails, Fault, GiveUp, Return, Goto
<1>7. ASSUME NEW r \in Request, CallNode(r) PROVE TypeOK'
  <2>1. i[r] >= 0 /\ i[r] <= head => CanonicalBlock(i[r]) \in BloomRow
    BY MaxHeightAssumption DEF CanonicalBlock, BloomRow, Block, Heights
  <2> QED
    BY <1>7, <2>1 DEF CallNode, Goto
<1>8. ASSUME NEW r \in Request, CallNodeFails(r) PROVE TypeOK'
  BY <1>8 DEF CallNodeFails, Fault, GiveUp, Return, Goto
<1>9. ASSUME NEW r \in Request, SaveBloom(r) PROVE TypeOK'
  <2>1. raw[r].num \in Heights
    BY MaxHeightAssumption DEF BloomRow, Block, ZeroRow, Heights
  <2> QED
    BY <1>9, <2>1 DEF SaveBloom, InsertBloom, Fault, Goto
<1>10. ASSUME NEW r \in Request, BlocksDone(r) PROVE TypeOK'
  BY <1>10 DEF BlocksDone, Goto
<1>11. ASSUME NEW r \in Request, FilterLogs(r) PROVE TypeOK'
  <2>1. NodeLogs(from[r], to[r]) \in SUBSET Log
    BY DEF NodeLogs
  <2>2. {l.num : l \in NodeLogs(from[r], to[r])} \in SUBSET Heights
    BY <2>1, LogAssumption
  <2> QED
    BY <1>11, <2>1, <2>2 DEF FilterLogs, Goto
<1>12. ASSUME NEW r \in Request, FilterLogsFails(r) PROVE TypeOK'
  BY <1>12 DEF FilterLogsFails, Fault, GiveUp, Return, Goto
<1>13. ASSUME NEW r \in Request, LogFound(r) PROVE TypeOK'
  BY <1>13 DEF LogFound
<1>14. ASSUME NEW r \in Request, LogMissing(r) PROVE TypeOK'
  BY <1>14 DEF LogMissing, Fault, Goto
<1>15. ASSUME NEW r \in Request, LogQueryFails(r) PROVE TypeOK'
  BY <1>15 DEF LogQueryFails, Fault, GiveUp, Return, Goto
<1>16. ASSUME NEW r \in Request, SaveLog(r) PROVE TypeOK'
  BY <1>16 DEF SaveLog, InsertLog, Fault, Goto
<1>17. ASSUME NEW r \in Request, SyncSuccessful(r) PROVE TypeOK'
  BY <1>17 DEF SyncSuccessful, Return, Goto
<1>18. ASSUME NEW r \in Request, Timeout(r) PROVE TypeOK'
  BY <1>18 DEF Timeout
<1>19. CASE Crash
  BY <1>19 DEF Crash
<1>20. CASE Node
  <2>1. CASE NewBlock
    <3>1. head + 1 \in Heights /\ head' = head + 1
      BY <2>1, MaxHeightAssumption DEF NewBlock, Heights
    <3>2. [num |-> head + 1, fork |-> canon[head + 1]] \in Block
      BY <3>1 DEF Block
    <3>3. had' \in SUBSET Block
      BY <2>1, <3>2 DEF NewBlock
    <3> QED
      BY <1>20, <2>1, <3>1, <3>3 DEF Node, NewBlock
  <2>2. ASSUME NEW h \in Heights, Reorg(h) PROVE TypeOK'
    <3>1. reorgs + 1 \in Forks
      BY <2>2, MaxReorgsAssumption DEF Reorg, Forks
    <3>2. [num : h .. head, fork : {reorgs + 1}] \subseteq Block
      BY <3>1, MaxHeightAssumption DEF Block, Heights
    <3>3. had' \in SUBSET Block
      BY <2>2, <3>2 DEF Reorg
    <3> QED
      BY <1>20, <2>2, <3>1, <3>3 DEF Node, Reorg
  <2> QED
    BY <1>20, <2>1, <2>2 DEF Node
<1>21. CASE UNCHANGED vars
  BY <1>21 DEF vars
<1> QED
  BY <1>1, <1>2, <1>3, <1>4, <1>5, <1>6, <1>7, <1>8, <1>9, <1>10, <1>11, <1>12,
     <1>13, <1>14, <1>15, <1>16, <1>17, <1>18, <1>19, <1>20, <1>21
  DEF Next, Request0, Handler

\* The variables keep their types, whatever the constants.
THEOREM TypeCorrect == Spec => []TypeOK
  BY TypeOKInit, TypeOKNext, PTL DEF Spec

-----------------------------------------------------------------------------
(* What no step takes back.                                                *)

\* A row that is added to one table leaves what the tables hold in place.
LEMMA InsertKeeps ==
  ASSUME StoreTypeOK,
         \/ \E row \in BloomRow : InsertBloom(row)
         \/ \E l \in Log : InsertLog(l)
         \/ UNCHANGED storeVars
  PROVE  /\ \A row \in BloomRow : block_bloom[row] > 0 => block_bloom'[row] > 0
         /\ \A l \in Log : logs[l] > 0 => logs'[l] > 0
  BY DEF StoreTypeOK, InsertBloom, InsertLog, storeVars

\* The tables only grow, the node's height only grows, and a request keeps
\* count of the inserts that failed.
LEMMA Growth ==
  ASSUME TypeOK, [Next]_vars
  PROVE  /\ head <= head'
         /\ \A row \in BloomRow : block_bloom[row] > 0 => block_bloom'[row] > 0
         /\ \A l \in Log : logs[l] > 0 => logs'[l] > 0
         /\ \A r \in Request : /\ lostBlooms[r] \subseteq lostBlooms'[r]
                              /\ lostLogs[r] \subseteq lostLogs'[r]
         /\ early \subseteq early'
         /\ faults' = 0 => faults = 0
<1> USE DEF TypeOK
<1>1. UNCHANGED head \/ (head \in Int /\ head' = head + 1)
  BY MaxHeightAssumption
  DEF NodeTypeOK, Heights, Next, vars, nodeVars, Request0, Handler, GiveUp, Crash,
      Node, NewBlock, Reorg,
      StartUndialled, StartUnparsed, Start, BloomFound, BloomMissing, BloomQueryFails,
      CallNode, CallNodeFails, SaveBloom, BlocksDone, FilterLogs, FilterLogsFails,
      LogFound, LogMissing, LogQueryFails, SaveLog, SyncSuccessful, Timeout
<1>2. \/ UNCHANGED <<lostBlooms, lostLogs>>
      \/ \E r \in Request : SaveBloom(r) \/ SaveLog(r)
  BY DEF Next, vars, histVars, Request0, Handler, GiveUp, Crash, Node,
      StartUndialled, StartUnparsed, Start, BloomFound, BloomMissing, BloomQueryFails,
      CallNode, CallNodeFails, SaveBloom, BlocksDone, FilterLogs, FilterLogsFails,
      LogFound, LogMissing, LogQueryFails, SaveLog, SyncSuccessful, Timeout
<1>3. \A r \in Request : /\ lostBlooms[r] \subseteq lostBlooms'[r]
                         /\ lostLogs[r] \subseteq lostLogs'[r]
  BY <1>2 DEF SaveBloom, SaveLog
<1>4. \/ \E row \in BloomRow : InsertBloom(row)
      \/ \E l \in Log : InsertLog(l)
      \/ UNCHANGED storeVars
  BY DEF Next, vars, Request0, Handler, GiveUp, Crash, Node,
      StartUndialled, StartUnparsed, Start, BloomFound, BloomMissing, BloomQueryFails,
      CallNode, CallNodeFails, SaveBloom, BlocksDone, FilterLogs, FilterLogsFails,
      LogFound, LogMissing, LogQueryFails, SaveLog, SyncSuccessful, Timeout
<1>5. head <= head'
  BY <1>1, MaxHeightAssumption DEF NodeTypeOK, Heights
<1>6. early \subseteq early'
  BY DEF Next, vars, histVars, Request0, Handler, GiveUp, Crash, Node,
      StartUndialled, StartUnparsed, Start, BloomFound, BloomMissing, BloomQueryFails,
      CallNode, CallNodeFails, SaveBloom, BlocksDone, FilterLogs, FilterLogsFails,
      LogFound, LogMissing, LogQueryFails, SaveLog, SyncSuccessful, Timeout
<1>7. faults' = 0 => faults = 0
  BY DEF Fault, Next, vars, Request0, Handler, GiveUp, Crash, Node,
      StartUndialled, StartUnparsed, Start, BloomFound, BloomMissing, BloomQueryFails,
      CallNode, CallNodeFails, SaveBloom, BlocksDone, FilterLogs, FilterLogsFails,
      LogFound, LogMissing, LogQueryFails, SaveLog, SyncSuccessful, Timeout
<1> QED
  BY <1>3, <1>4, <1>5, <1>6, <1>7, InsertKeeps

\* Hence what is stored stays stored.
LEMMA StoredStays ==
  ASSUME TypeOK, [Next]_vars
  PROVE  /\ \A h \in Heights : BloomStored(h) => BloomStored(h)'
         /\ \A l \in Log : LogStored(l) => LogStored(l)'
         /\ \A l \in Log : LogNamed(l) => LogNamed(l)'
  BY Growth DEF BloomStored, BloomRowsAt, LogStored, LogNamed

\* A request's step leaves the local state of every other request alone.
LEMMA OthersUnchanged ==
  ASSUME TypeOK, NEW r \in Request, NEW q \in Request, q # r,
         Request0(r) \/ Handler(r) \/ Timeout(r)
  PROVE  /\ UNCHANGED <<pc[q], from[q], to[q], i[q], raw[q], reply[q], head0[q]>>
         /\ UNCHANGED <<ethlogs[q], todo[q], saving[q], quiet[q], lostLogs[q]>>
<1> USE DEF TypeOK, reqVars, outVars, histVars, Request0, Handler, Goto, Return, GiveUp,
      StartUndialled, StartUnparsed, Start, BloomFound, BloomMissing, BloomQueryFails,
      CallNode, CallNodeFails, SaveBloom, BlocksDone, FilterLogs, FilterLogsFails,
      LogFound, LogMissing, LogQueryFails, SaveLog, SyncSuccessful, Timeout
<1>1. UNCHANGED <<pc[q], reply[q]>>
  OBVIOUS
<1>2. UNCHANGED <<from[q], to[q], i[q], head0[q]>>
  OBVIOUS
<1>3. UNCHANGED <<raw[q], ethlogs[q], todo[q], saving[q]>>
  OBVIOUS
<1>4. UNCHANGED <<quiet[q], lostLogs[q]>>
  OBVIOUS
<1> QED
  BY <1>1, <1>2, <1>3, <1>4

-----------------------------------------------------------------------------
(* A successful answer means that the range is covered.                    *)

Stored(r, h) == BloomStored(h) \/ h \in lostBlooms[r]

\* The block loop has dealt with every height below i; after the loop, and
\* for good once the request has answered, that is the whole range.  A block
\* decoded for a height the node had from the start is that height's own.
CoverAt(r) ==
  /\ head0[r] <= head
  /\ pc[r] \in {"idle"} \union Running => reply[r] = "none"
  /\ pc[r] \in BlockPhase => \A h \in LookedFor(r) : h < i[r] => Stored(r, h)
  /\ pc[r] \in LogPhase \/ reply[r] = "ok" => \A h \in LookedFor(r) : Stored(r, h)
  /\ pc[r] = "saveBloom" /\ i[r] \in Heights /\ i[r] <= head0[r] =>
       raw[r].num = i[r] /\ HasBloom(raw[r])

CoverInv == \A r \in Request : CoverAt(r)

LEMMA CoverInit == Init => CoverInv
  BY MaxHeightAssumption
  DEF Init, NodeInit, CoverInv, CoverAt, Heights, BlockPhase, LogPhase, Running

LEMMA CoverNext == TypeOK /\ CoverInv /\ [Next]_vars => CoverInv'
<1> SUFFICES ASSUME TypeOK, CoverInv, [Next]_vars, NEW q \in Request
             PROVE  CoverAt(q)'
  BY DEF CoverInv
<1>a. CoverAt(q)
  BY DEF CoverInv
<1>0. \A r \in Request, h \in Heights : Stored(r, h) => Stored(r, h)'
  BY Growth, StoredStays DEF Stored
<1>h. head \in Int /\ head' \in Int /\ head <= head' /\ \A h \in Heights : h \in Int
  BY Growth, TypeOKNext, MaxHeightAssumption DEF TypeOK, NodeTypeOK, Heights
<1> USE <1>0, <1>h, <1>a DEF CoverAt, LookedFor
<1>f. ASSUME UNCHANGED <<pc[q], from[q], to[q], i[q], raw[q], reply[q], head0[q]>>
      PROVE  CoverAt(q)'
  BY <1>f DEF TypeOK, HasBloom
<1>o. ASSUME NEW r \in Request, r # q, Request0(r) \/ Handler(r) \/ Timeout(r)
      PROVE  CoverAt(q)'
  BY <1>o, <1>f, OthersUnchanged
<1> USE DEF TypeOK, BlockPhase, LogPhase, Running, nodeVars, reqVars, outVars, histVars
<1>1. ASSUME StartUndialled(q) PROVE CoverAt(q)'
  BY <1>1 DEF StartUndialled, Fault, GiveUp, Return, Goto
<1>2. ASSUME StartUnparsed(q) PROVE CoverAt(q)'
  BY <1>2 DEF StartUnparsed, Return, Goto
<1>3. ASSUME Start(q) PROVE CoverAt(q)'
  <2>1. PICK range \in Ranges : /\ from' = [from EXCEPT ![q] = range[1]]
                               /\ i' = [i EXCEPT ![q] = range[1]]
    BY <1>3 DEF Start
  <2>2. \A h \in Heights : ~(from'[q] <= h /\ h < i'[q])
    BY <2>1, RangesAssumption
  <2> QED
    BY <1>3, <2>2 DEF Start, Goto
<1>4. ASSUME BloomFound(q) PROVE CoverAt(q)'
  <2>1. i[q] \in Heights => BloomStored(i[q])
    BY <1>4 DEF BloomFound, GetBloomByBlockNumber, BloomStored, HasBloom, ZeroRow, Forks
  <2> QED
    BY <1>4, <2>1 DEF BloomFound, Stored
<1>5. ASSUME BloomMissing(q) PROVE CoverAt(q)'
  BY <1>5 DEF BloomMissing, Goto
<1>6. ASSUME BloomQueryFails(q) PROVE CoverAt(q)'
  BY <1>6 DEF BloomQueryFails, GiveUp, Return, Goto
<1>7. ASSUME CallNode(q) PROVE CoverAt(q)'
  <2>1. i[q] \in Heights /\ i[q] <= head0[q] =>
          raw'[q].num = i[q] /\ raw'[q].fork \in Forks
    BY <1>7 DEF CallNode, CanonicalBlock, NodeTypeOK
  <2> QED
    BY <1>7, <2>1 DEF CallNode, Goto, HasBloom
<1>8. ASSUME CallNodeFails(q) PROVE CoverAt(q)'
  BY <1>8 DEF CallNodeFails, GiveUp, Return, Goto
<1>9. ASSUME SaveBloom(q) PROVE CoverAt(q)'
  <2>0. /\ pc[q] = "saveBloom" /\ pc'[q] = "checkBloom"
        /\ i'[q] = i[q] + 1 /\ i[q] \in Int
        /\ UNCHANGED <<from, to, raw, reply, head0>>
    BY <1>9 DEF SaveBloom, Goto
  <2>1. \A h \in Heights : h = i[q] /\ h <= head0[q] => Stored(q, h)'
    <3> SUFFICES ASSUME NEW h \in Heights, h = i[q], h <= head0[q]
                 PROVE  Stored(q, h)'
      OBVIOUS
    <3>1. raw[q] \in BloomRow /\ raw[q].num = h /\ HasBloom(raw[q])
      BY <1>9 DEF SaveBloom
    <3>2. CASE InsertBloom(raw[q])
      <4>1. block_bloom'[raw[q]] > 0
        BY <3>1, <3>2 DEF InsertBloom, StoreTypeOK
      <4> QED
        BY <3>1, <4>1 DEF Stored, BloomStored, BloomRowsAt, HasBloom
    <3>3. CASE lostBlooms' = [lostBlooms EXCEPT ![q] = @ \union {raw[q].num}]
      BY <3>1, <3>3 DEF Stored
    <3> QED
      BY <1>9, <3>2, <3>3 DEF SaveBloom
  <2>2. ASSUME NEW h \in LookedFor(q), h < i'[q] PROVE Stored(q, h)'
    <3>1. h \in Heights /\ h \in Int /\ h <= head0[q] /\ (h < i[q] \/ h = i[q])
      BY <2>0, <2>2
    <3>2. CASE h < i[q]
      BY <2>0, <3>1, <3>2
    <3>3. CASE h = i[q]
      BY <2>1, <3>1, <3>3
    <3> QED
      BY <3>1, <3>2, <3>3
  <2>3. head0'[q] <= head' /\ reply'[q] = "none"
    BY <2>0
  <2>4. \A h \in LookedFor(q)' : h < i'[q] => Stored(q, h)'
    BY <2>0, <2>2
  <2> QED
    BY <2>0, <2>3, <2>4
<1>10. ASSUME BlocksDone(q) PROVE CoverAt(q)'
  BY <1>10 DEF BlocksDone, Goto
<1>11. ASSUME FilterLogs(q) PROVE CoverAt(q)'
  BY <1>11 DEF FilterLogs, Goto
<1>12. ASSUME FilterLogsFails(q) PROVE CoverAt(q)'
  BY <1>12 DEF FilterLogsFails, GiveUp, Return, Goto
<1>13. ASSUME LogFound(q) PROVE CoverAt(q)'
  BY <1>13 DEF LogFound
<1>14. ASSUME LogMissing(q) PROVE CoverAt(q)'
  BY <1>14 DEF LogMissing, Goto
<1>15. ASSUME LogQueryFails(q) PROVE CoverAt(q)'
  BY <1>15 DEF LogQueryFails, GiveUp, Return, Goto
<1>16. ASSUME SaveLog(q) PROVE CoverAt(q)'
  BY <1>16 DEF SaveLog, Goto
<1>17. ASSUME SyncSuccessful(q) PROVE CoverAt(q)'
  BY <1>17 DEF SyncSuccessful, Return, Goto
<1>18. ASSUME Timeout(q) PROVE CoverAt(q)'
  BY <1>18 DEF Timeout
<1>19. CASE Crash
  BY <1>19 DEF Crash
<1>20. CASE Node
  BY <1>20 DEF Node
<1>21. CASE UNCHANGED vars
  BY <1>21 DEF vars
<1> QED
  BY <1>o, <1>1, <1>2, <1>3, <1>4, <1>5, <1>6, <1>7, <1>8, <1>9, <1>10, <1>11,
     <1>12, <1>13, <1>14, <1>15, <1>16, <1>17, <1>18, <1>19, <1>20, <1>21
  DEF Next, Request0, Handler

\* Every range that clients ask for has two ends.
ClosedRanges == \A range \in Ranges : range[2] # Latest

ClosedInv == \A r \in Request : to[r] # Latest

LEMMA ClosedNext == ClosedRanges /\ TypeOK /\ ClosedInv /\ [Next]_vars => ClosedInv'
<1> SUFFICES ASSUME ClosedRanges, TypeOK, ClosedInv, [Next]_vars PROVE ClosedInv'
  OBVIOUS
<1>1. ASSUME NEW r \in Request, Start(r) PROVE ClosedInv'
  BY <1>1 DEF Start, ClosedRanges, ClosedInv, TypeOK
<1>2. UNCHANGED to \/ \E r \in Request : Start(r)
  BY DEF Next, vars, reqVars, Request0, Handler, GiveUp, Crash, Node,
      StartUndialled, StartUnparsed, BloomFound, BloomMissing, BloomQueryFails,
      CallNode, CallNodeFails, SaveBloom, BlocksDone, FilterLogs, FilterLogsFails,
      LogFound, LogMissing, LogQueryFails, SaveLog, SyncSuccessful, Timeout
<1> QED
  BY <1>1, <1>2 DEF ClosedInv

\* If no client leaves ToBlock open, whoever is told "Sync successful!" has
\* every height that was asked for and that the node had at the start, but for
\* inserts of its own that failed.  sync_open shows that the hypothesis cannot
\* be left out.
THEOREM SuccessCoversRange == ClosedRanges => (Spec => []OkCoversRange)
<1> SUFFICES ASSUME ClosedRanges PROVE Spec => []OkCoversRange
  OBVIOUS
<1>1. CoverInv /\ ClosedInv => OkCoversRange
  BY DEF CoverInv, CoverAt, ClosedInv, OkCoversRange, Stored, Asked, LookedFor
<1>2. Init => ClosedInv
  BY DEF Init, ClosedInv, Latest
<1>3. TypeOK /\ ClosedInv /\ [Next]_vars => ClosedInv'
  BY ClosedNext
<1> QED
  BY CoverInit, CoverNext, TypeCorrect, <1>1, <1>2, <1>3, PTL DEF Spec

-----------------------------------------------------------------------------
(* No row above the chain.                                                 *)

\* Neither a stored row nor a decoded block is above the node's newest block.
HeightInv ==
  /\ NoPhantomHeight
  /\ \A r \in Request : raw[r].num <= head

LEMMA HeightInit == Init => HeightInv
  BY DEF Init, NodeInit, StoreInit, HeightInv, NoPhantomHeight, ZeroRow, Heights

LEMMA HeightNext == TypeOK /\ HeightInv /\ [Next]_vars => HeightInv'
<1> SUFFICES ASSUME TypeOK, HeightInv, [Next]_vars PROVE HeightInv'
  OBVIOUS
<1>1. /\ head \in Int /\ head' \in Int /\ head <= head'
      /\ \A row \in BloomRow : row.num \in Int
  <2>1. \A row \in BloomRow : row.num \in Int
    BY MaxHeightAssumption DEF Heights, BloomRow, Block, ZeroRow
  <2> QED
    BY <2>1, Growth, TypeOKNext, MaxHeightAssumption DEF TypeOK, NodeTypeOK, Heights
<1> USE <1>1 DEF HeightInv, NoPhantomHeight, TypeOK
<1>2. ASSUME UNCHANGED <<block_bloom, raw>> PROVE HeightInv'
  BY <1>2
<1>3. ASSUME NEW r \in Request, CallNode(r) PROVE HeightInv'
  BY <1>3 DEF CallNode, CanonicalBlock, storeVars
<1>4. ASSUME NEW r \in Request, SaveBloom(r) PROVE HeightInv'
  BY <1>4 DEF SaveBloom, InsertBloom, storeVars, StoreTypeOK
<1>5. \/ UNCHANGED <<block_bloom, raw>>
      \/ \E r \in Request : CallNode(r) \/ SaveBloom(r)
  BY DEF Next, vars, storeVars, reqVars, Request0, Handler, GiveUp, Crash, Node, InsertLog,
      StartUndialled, StartUnparsed, Start, BloomFound, BloomMissing, BloomQueryFails,
      CallNode, CallNodeFails, SaveBloom, BlocksDone, FilterLogs, FilterLogsFails,
      LogFound, LogMissing, LogQueryFails, SaveLog, SyncSuccessful, Timeout
<1> QED
  BY <1>2, <1>3, <1>4, <1>5

\* GetBlockHeight, the greatest stored number, is never above the node's chain.
THEOREM HeightIsReal == Spec => []NoPhantomHeight
<1>1. HeightInv => NoPhantomHeight
  BY DEF HeightInv
<1> QED
  BY HeightInit, HeightNext, TypeCorrect, <1>1, PTL DEF Spec

-----------------------------------------------------------------------------
(* Every log has its bloom.                                                *)

\* The logs a request is about to store are of blocks its block loop dealt
\* with, or of early ones.
FetchedAt(r) ==
  /\ pc[r] \in {"checkLog", "saveLogs"} =>
       \A l \in ethlogs[r] : l.num \in LookedFor(r) \union early
  /\ pc[r] = "saveLogs" => saving[r] \subseteq ethlogs[r]

BloomInv == LogHasBloom /\ \A r \in Request : FetchedAt(r)

LEMMA BloomInit == Init => BloomInv
  BY DEF Init, StoreInit, BloomInv, LogHasBloom, FetchedAt

LEMMA FetchedNext ==
  ASSUME TypeOK, [Next]_vars, NEW q \in Request, FetchedAt(q)
  PROVE  FetchedAt(q)'
<1>0. early \subseteq early'
  BY Growth
<1> USE <1>0 DEF FetchedAt, LookedFor
<1>1. ASSUME UNCHANGED <<from[q], to[q], head0[q], ethlogs[q], saving[q], pc[q]>>
      PROVE  FetchedAt(q)'
  BY <1>1
<1>2. ASSUME NEW r \in Request, r # q, Request0(r) \/ Handler(r) \/ Timeout(r)
      PROVE  FetchedAt(q)'
  BY <1>1, <1>2, OthersUnchanged
<1> USE DEF TypeOK, reqVars, outVars, histVars, Goto, Return
<1>3. ASSUME pc'[q] \notin {"checkLog", "saveLogs"} PROVE FetchedAt(q)'
  BY <1>3
<1>4. ASSUME FilterLogs(q) PROVE FetchedAt(q)'
  BY <1>4 DEF FilterLogs
<1>5. ASSUME LogFound(q) PROVE FetchedAt(q)'
  BY <1>5 DEF LogFound
<1>6. ASSUME LogMissing(q) PROVE FetchedAt(q)'
  BY <1>6 DEF LogMissing
<1>7. ASSUME SaveLog(q) PROVE FetchedAt(q)'
  BY <1>7 DEF SaveLog
<1>8. ASSUME Request0(q) \/ Handler(q) \/ Timeout(q) PROVE FetchedAt(q)'
  BY <1>1, <1>3, <1>4, <1>5, <1>6, <1>7, <1>8
  DEF Request0, Handler, GiveUp, Running, BlockPhase, LogPhase,
      StartUndialled, StartUnparsed, Start, BloomFound, BloomMissing, BloomQueryFails,
      CallNode, CallNodeFails, SaveBloom, BlocksDone, FilterLogsFails,
      LogQueryFails, SyncSuccessful, Timeout
<1>9. CASE Crash
  BY <1>9 DEF Crash
<1>10. CASE Node \/ UNCHANGED vars
  BY <1>1, <1>10 DEF Node, vars
<1> QED
  BY <1>2, <1>8, <1>9, <1>10 DEF Next

LEMMA LogHasBloomNext ==
  ASSUME TypeOK, [Next]_vars, CoverInv, BloomInv
  PROVE  LogHasBloom'
<1> SUFFICES ASSUME NEW l \in Log, logs'[l] > 0
             PROVE  \/ BloomStored(l.num)'
                    \/ l.num \in early'
                    \/ \E r \in Request : l.num \in lostBlooms'[r]
  BY DEF LogHasBloom
<1>1. l.num \in Heights
  BY LogAssumption
<1>2. \/ BloomStored(l.num)
      \/ l.num \in early
      \/ \E r \in Request : l.num \in lostBlooms[r]
  <2>1. CASE logs[l] > 0
    BY <2>1 DEF BloomInv, LogHasBloom
  <2>2. ASSUME NEW r \in Request, pc[r] = "saveLogs", l \in saving[r]
        PROVE  \/ BloomStored(l.num)
               \/ l.num \in early
               \/ l.num \in lostBlooms[r]
    <3>1. l.num \in LookedFor(r) \union early
      BY <2>2 DEF BloomInv, FetchedAt
    <3>2. \A h \in LookedFor(r) : Stored(r, h)
      BY <2>2 DEF CoverInv, CoverAt, LogPhase
    <3> QED
      BY <3>1, <3>2 DEF Stored
  <2>3. CASE ~(logs[l] > 0)
    <3>1. ~ UNCHANGED logs
      BY <2>3
    <3>2. \E r \in Request : SaveLog(r)
      BY <3>1 DEF Next, vars, storeVars, Request0, Handler, GiveUp, Crash, Node, InsertBloom,
      StartUndialled, StartUnparsed, Start, BloomFound, BloomMissing, BloomQueryFails,
      CallNode, CallNodeFails, SaveBloom, BlocksDone, FilterLogs, FilterLogsFails,
      LogFound, LogMissing, LogQueryFails, SaveLog, SyncSuccessful, Timeout
    <3>3. PICK r \in Request : SaveLog(r)
      BY <3>2
    <3>4. PICK m \in saving[r] : pc[r] = "saveLogs" /\ InsertLog(m)
      BY <3>1, <3>3 DEF SaveLog, storeVars
    <3>5. m = l
      BY <2>3, <3>4 DEF InsertLog, TypeOK, StoreTypeOK
    <3> QED
      BY <2>2, <3>4, <3>5
  <2> QED
    BY <2>1, <2>3
<1> QED
  BY <1>1, <1>2, Growth, StoredStays

\* A stored log is visible to eth_getLogs, which looks at its block's bloom
\* first, but for the two exceptions the property names.
THEOREM StoredLogsHaveBlooms == Spec => []LogHasBloom
<1>1. TypeOK /\ CoverInv /\ BloomInv /\ [Next]_vars => BloomInv'
  BY FetchedNext, LogHasBloomNext DEF BloomInv
<1>2. BloomInv => LogHasBloom
  BY DEF BloomInv
<1> QED
  BY BloomInit, CoverInit, CoverNext, TypeCorrect, <1>1, <1>2, PTL DEF Spec

-----------------------------------------------------------------------------
(* A successful answer means that the logs have rows.                      *)

\* The lookup recognises every log by its index: true of indices below ten.
Faithful == \A l \in Log : QueriedIndex(l) = StoredIndex(l)

Named(r, l) == LogNamed(l) \/ l \in lostLogs[r]

\* The comparing loop is done with the logs outside todo, SaveLogs with those
\* outside saving.
NamedAt(r) ==
  /\ pc[r] = "checkLog" => \A l \in ethlogs[r] \ todo[r] : Named(r, l)
  /\ pc[r] = "saveLogs" => \A l \in ethlogs[r] \ saving[r] : Named(r, l)
  /\ reply[r] = "ok" => pc[r] = "done" /\ \A l \in ethlogs[r] : Named(r, l)

NamedInv == \A r \in Request : NamedAt(r)

\* A lookup that finds a row finds the log's transaction and index, if indices
\* are recognised.
LEMMA FoundIsNamed ==
  ASSUME Faithful, NEW l \in Log, GetLogByTxhashAndLogIndex(l) # {}
  PROVE  LogNamed(l)
  BY DEF Faithful, GetLogByTxhashAndLogIndex, LogNamed, StoredIndex

\* And a log that has such a row is found.
LEMMA NamedIsFound ==
  ASSUME NEW l \in Log, LogNamed(l), QueriedIndex(l) = StoredIndex(l)
  PROVE  GetLogByTxhashAndLogIndex(l) # {}
  BY DEF GetLogByTxhashAndLogIndex, LogNamed, StoredIndex

LEMMA NamedInit == Init => NamedInv
  BY DEF Init, NamedInv, NamedAt

LEMMA NamedNext ==
  ASSUME Faithful, TypeOK, [Next]_vars, NEW q \in Request, NamedAt(q)
  PROVE  NamedAt(q)'
<1>0. \A l \in Log : Named(q, l) => Named(q, l)'
  BY Growth, StoredStays DEF Named
<1> USE <1>0 DEF NamedAt, TypeOK
<1>1. ASSUME UNCHANGED <<ethlogs[q], todo[q], saving[q], reply[q], pc[q]>>
      PROVE  NamedAt(q)'
  BY <1>1
<1>2. ASSUME NEW r \in Request, r # q, Request0(r) \/ Handler(r) \/ Timeout(r)
      PROVE  NamedAt(q)'
  BY <1>1, <1>2, OthersUnchanged
<1> USE DEF reqVars, outVars, histVars, Goto, Return
<1>3. ASSUME pc'[q] \notin {"checkLog", "saveLogs"}, reply'[q] # "ok" PROVE NamedAt(q)'
  BY <1>3
<1>4. ASSUME FilterLogs(q) PROVE NamedAt(q)'
  BY <1>4 DEF FilterLogs
<1>5. ASSUME LogFound(q) PROVE NamedAt(q)'
  BY <1>5, FoundIsNamed DEF LogFound, Named
<1>6. ASSUME LogMissing(q) PROVE NamedAt(q)'
  BY <1>6 DEF LogMissing
<1>7. ASSUME SaveLog(q) PROVE NamedAt(q)'
  <2>1. PICK l \in saving[q] :
          /\ \/ InsertLog(l)
             \/ lostLogs' = [lostLogs EXCEPT ![q] = @ \union {l}]
          /\ saving' = [saving EXCEPT ![q] = @ \ {l}]
          /\ IF saving[q] = {l} THEN Goto(q, "checkLog") ELSE UNCHANGED pc
    BY <1>7 DEF SaveLog
  <2>2. Named(q, l)'
    BY <2>1 DEF Named, LogNamed, InsertLog, StoreTypeOK
  <2> QED
    BY <1>7, <2>1, <2>2 DEF SaveLog
<1>8. ASSUME SyncSuccessful(q) PROVE NamedAt(q)'
  BY <1>8 DEF SyncSuccessful
<1>9. ASSUME Request0(q) \/ Handler(q) \/ Timeout(q) PROVE NamedAt(q)'
  BY <1>1, <1>3, <1>4, <1>5, <1>6, <1>7, <1>8, <1>9
  DEF Request0, Handler, GiveUp, Running, BlockPhase, LogPhase,
      StartUndialled, StartUnparsed, Start, BloomFound, BloomMissing, BloomQueryFails,
      CallNode, CallNodeFails, SaveBloom, BlocksDone, FilterLogsFails,
      LogQueryFails, Timeout
<1>10. CASE Crash
  BY <1>10 DEF Crash, Running, BlockPhase, LogPhase
<1>11. CASE Node \/ UNCHANGED vars
  BY <1>1, <1>11 DEF Node, vars
<1> QED
  BY <1>2, <1>9, <1>10, <1>11 DEF Next

\* If the lookup recognises every log by its index, whoever is told "Sync
\* successful!" has a row with the transaction and the index of every log the
\* node answered with, but for failed inserts of its own, through any
\* reorganisations; the row may be of a block the transaction was in before.
\* sync_alias shows that the hypothesis cannot be left out.
THEOREM SuccessNamesLogs == Faithful => (Spec => []OkMeansLogsNamed)
<1> SUFFICES ASSUME Faithful PROVE Spec => []OkMeansLogsNamed
  OBVIOUS
<1>1. TypeOK /\ NamedInv /\ [Next]_vars => NamedInv'
  BY NamedNext DEF NamedInv
<1>2. NamedInv => OkMeansLogsNamed
  BY DEF NamedInv, NamedAt, OkMeansLogsNamed, Named
<1> QED
  BY NamedInit, TypeCorrect, <1>1, <1>2, PTL DEF Spec

-----------------------------------------------------------------------------
(* Decimal digits read in base sixteen.                                    *)

\* One digit more, given what the digits before it are read as.
Reading(g, n) == IF n < 10 THEN n ELSE 16 * g[n \div 10] + (n % 10)

\* g reads every number up to k.
Reads(g, k) ==
  /\ g \in [0 .. k -> Nat]
  /\ \A n \in 0 .. k : g[n] = Reading(g, n)

LEMMA Digits ==
  ASSUME NEW n \in Nat, n >= 10
  PROVE  /\ n \div 10 \in Nat /\ n % 10 \in Nat
         /\ 1 <= n \div 10 /\ n \div 10 < n
         /\ n = 10 * (n \div 10) + (n % 10)
  OBVIOUS

\* Every number of a range can be read.
LEMMA ReadsExists == \A k \in Nat : \E g : Reads(g, k)
<1> DEFINE T == {k \in Nat : ~ \E g : Reads(g, k)}
<1> SUFFICES ASSUME T # {} PROVE FALSE
  OBVIOUS
<1>1. PICK k \in T : \A j \in T : k <= j
  <2>1. T \subseteq Nat
    OBVIOUS
  <2> HIDE DEF T
  <2> QED
    BY <2>1, LeastNumber
<1>2. CASE k = 0
  <2> DEFINE z == [n \in 0 .. 0 |-> n]
  <2>1. Reads(z, 0)
    BY DEF Reads, Reading
  <2> QED
    BY <1>1, <1>2, <2>1
<1>3. CASE k # 0
  <2>1. k \in Nat /\ k - 1 \in Nat /\ k - 1 \notin T
    BY <1>1, <1>3
  <2>2. PICK g : Reads(g, k - 1)
    BY <2>1
  <2> DEFINE h == [n \in 0 .. k |-> IF n = k THEN Reading(g, k) ELSE g[n]]
  <2>3. \A n \in 0 .. k : Reading(h, n) = Reading(g, n)
    <3> SUFFICES ASSUME NEW n \in 0 .. k PROVE Reading(h, n) = Reading(g, n)
      OBVIOUS
    <3>1. CASE n < 10
      BY <3>1 DEF Reading
    <3>2. CASE n >= 10
      <4>1. n \div 10 \in 0 .. k /\ n \div 10 # k
        BY <3>2, <2>1, Digits
      <4>2. h[n \div 10] = g[n \div 10]
        BY <4>1
      <4> HIDE DEF h
      <4> QED
        BY <3>2, <4>2 DEF Reading
    <3> QED
      BY <3>1, <3>2
  <2>4. Reading(g, k) \in Nat
    <3>1. CASE k < 10
      BY <2>1, <3>1 DEF Reading
    <3>2. CASE k >= 10
      <4>1. k \div 10 \in 0 .. k - 1 /\ k % 10 \in Nat
        BY <3>2, <2>1, Digits
      <4>2. g[k \div 10] \in Nat
        BY <4>1, <2>2 DEF Reads
      <4> QED
        BY <3>2, <4>1, <4>2 DEF Reading
    <3> QED
      BY <2>1, <3>1, <3>2
  <2>5. \A n \in 0 .. k : n # k => n \in 0 .. k - 1
    BY <2>1
  <2>6. h \in [0 .. k -> Nat] /\ \A n \in 0 .. k : h[n] = Reading(g, n)
    BY <2>2, <2>4, <2>5 DEF Reads
  <2>7. Reads(h, k)
    <3> HIDE DEF h
    <3> QED
      BY <2>3, <2>6 DEF Reads
  <2> QED
    BY <1>1, <2>7
<1> QED
  BY <1>2, <1>3

\* Two readings agree on what both read.
LEMMA ReadsAgree ==
  ASSUME NEW j \in Nat, NEW k \in Nat, NEW g, NEW h, Reads(g, j), Reads(h, k)
  PROVE  \A n \in Nat : n <= j /\ n <= k => g[n] = h[n]
<1> DEFINE T == {n \in Nat : n <= j /\ n <= k /\ g[n] # h[n]}
<1> SUFFICES ASSUME T # {} PROVE FALSE
  OBVIOUS
<1>1. PICK n \in T : \A m \in T : n <= m
  <2>1. T \subseteq Nat
    OBVIOUS
  <2> HIDE DEF T
  <2> QED
    BY <2>1, LeastNumber
<1>2. n \in Nat /\ n \in 0 .. j /\ n \in 0 .. k /\ g[n] # h[n]
  BY <1>1
<1>3. g[n] = Reading(g, n) /\ h[n] = Reading(h, n)
  BY <1>2 DEF Reads
<1>4. CASE n < 10
  BY <1>2, <1>3, <1>4 DEF Reading
<1>5. CASE n >= 10
  <2>1. n \div 10 \in Nat /\ n \div 10 <= j /\ n \div 10 <= k /\ ~(n <= n \div 10)
    BY <1>2, <1>5, Digits
  <2>2. g[n \div 10] = h[n \div 10]
    BY <1>1, <2>1
  <2> HIDE DEF T
  <2> QED
    BY <1>2, <1>3, <1>5, <2>2 DEF Reading
<1> QED
  BY <1>2, <1>4, <1>5

\* DecimalReadAsHex is what its definition says.
LEMMA ReadAsHexUnfolds ==
  DecimalReadAsHex =
    [n \in Nat |-> IF n < 10 THEN n ELSE 16 * DecimalReadAsHex[n \div 10] + (n % 10)]
<1> DEFINE By(n) == CHOOSE g : Reads(g, n)
           F == [n \in Nat |-> By(n)[n]]
<1>1. \A n \in Nat : Reads(By(n), n)
  BY ReadsExists
<1>2. ASSUME NEW n \in Nat
      PROVE  F[n] = IF n < 10 THEN n ELSE 16 * F[n \div 10] + (n % 10)
  <2>1. Reads(By(n), n) /\ F[n] = By(n)[n]
    BY <1>1
  <2>2. By(n)[n] = Reading(By(n), n)
    <3> HIDE DEF By, F
    <3> QED
      BY <2>1 DEF Reads
  <2>3. CASE n < 10
    BY <2>1, <2>2, <2>3 DEF Reading
  <2>4. CASE n >= 10
    <3>1. n \div 10 \in Nat /\ n \div 10 <= n
      BY <2>4, Digits
    <3>2. Reads(By(n \div 10), n \div 10) /\ F[n \div 10] = By(n \div 10)[n \div 10]
      BY <1>1, <3>1
    <3>3. By(n \div 10)[n \div 10] = By(n)[n \div 10]
      <4> HIDE DEF By, F
      <4> QED
        BY <2>1, <3>1, <3>2, ReadsAgree
    <3> HIDE DEF By, F
    <3> QED
      BY <2>1, <2>2, <2>4, <3>2, <3>3 DEF Reading
  <2> QED
    BY <2>3, <2>4
<1>3. F = [n \in Nat |-> IF n < 10 THEN n ELSE 16 * F[n \div 10] + (n % 10)]
  <2>1. F = [n \in Nat |-> F[n]]
    OBVIOUS
  <2> HIDE DEF F
  <2> QED
    BY <1>2, <2>1
<1>4. \E f : f = [n \in Nat |-> IF n < 10 THEN n ELSE 16 * f[n \div 10] + (n % 10)]
  <2> HIDE DEF F
  <2> QED
    BY <1>3
<1> QED
  BY <1>4 DEF DecimalReadAsHex

\* One digit is read as itself, more digits as something greater.
LEMMA ReadAsHexGrows ==
  \A n \in Nat : /\ DecimalReadAsHex[n] \in Nat
                 /\ n < 10 => DecimalReadAsHex[n] = n
                 /\ n >= 10 => DecimalReadAsHex[n] > n
<1> DEFINE D == DecimalReadAsHex
           Good(n) == /\ D[n] \in Nat
                      /\ n < 10 => D[n] = n
                      /\ n >= 10 => D[n] > n
           T == {n \in Nat : ~Good(n)}
<1>1. \A n \in Nat : D[n] = IF n < 10 THEN n ELSE 16 * D[n \div 10] + (n % 10)
  <2> DEFINE E == [n \in Nat |-> IF n < 10 THEN n ELSE 16 * D[n \div 10] + (n % 10)]
  <2>1. D = E
    BY ReadAsHexUnfolds
  <2> HIDE DEF D
  <2> QED
    BY <2>1
<1> HIDE DEF D
<1> SUFFICES ASSUME T # {} PROVE FALSE
  BY DEF D
<1>2. PICK n \in T : \A m \in T : n <= m
  <2>1. T \subseteq Nat
    OBVIOUS
  <2> HIDE DEF T
  <2> QED
    BY <2>1, LeastNumber
<1>3. n \in Nat /\ ~Good(n)
  BY <1>2
<1>4. CASE n < 10
  BY <1>1, <1>3, <1>4
<1>5. CASE n >= 10
  <2> DEFINE p == n \div 10
             q == n % 10
  <2>1. p \in Nat /\ q \in Nat /\ 1 <= p /\ ~(n <= p) /\ n = 10 * p + q
    BY <1>3, <1>5, Digits
  <2>2. Good(p)
    BY <1>2, <2>1
  <2>3. D[n] = 16 * D[p] + q
    BY <1>1, <1>3, <1>5
  <2>4. D[p] \in Nat /\ D[p] >= p
    BY <2>1, <2>2
  <2> HIDE DEF p, q, T
  <2>5. D[n] \in Nat /\ D[n] > n
    BY <2>1, <2>3, <2>4
  <2> QED
    BY <1>3, <1>5, <2>5
<1> QED
  BY <1>3, <1>4, <1>5

-----------------------------------------------------------------------------
(* A successful answer means that the logs are stored.                     *)

\* No reorganisation includes a transaction a second time: its logs are all of
\* one block, where its index identifies each.
IncludedOnce ==
  \A l, m \in Log : l.tx = m.tx =>
    /\ l.num = m.num /\ l.fork = m.fork
    /\ l.idx = m.idx => l = m

Kept(r, l) == LogStored(l) \/ l \in lostLogs[r]

\* A log still to come will not be recognised: with it l will be stored again.
Vouched(r, l) == \E m \in todo[r] : m.tx = l.tx /\ m.idx >= 10

\* The answer has all logs of a block or none.
WholeBlocks(r) ==
  \A l \in ethlogs[r], m \in Log : m.num = l.num /\ m.fork = l.fork => m \in ethlogs[r]

\* The comparing loop goes through the answer in its order; what is behind it
\* is kept, or a log ahead vouches for it.
KeptAt(r) ==
  /\ pc[r] \in {"checkLog", "saveLogs"} =>
       /\ WholeBlocks(r)
       /\ todo[r] \subseteq ethlogs[r]
       /\ \A l \in ethlogs[r] \ todo[r], m \in todo[r] : Precedes(l, m)
  /\ pc[r] = "checkLog" => \A l \in ethlogs[r] \ todo[r] : Kept(r, l) \/ Vouched(r, l)
  /\ pc[r] = "saveLogs" => \A l \in ethlogs[r] \ saving[r] : Kept(r, l)
  /\ reply[r] = "ok" => pc[r] = "done" /\ \A l \in ethlogs[r] : Kept(r, l)

KeptInv == \A r \in Request : KeptAt(r)

\* A lookup that finds a row finds the log, or a later one of its transaction
\* whose index has two digits.
LEMMA FoundIsLater ==
  ASSUME IncludedOnce, NEW l \in Log, GetLogByTxhashAndLogIndex(l) # {}
  PROVE  \/ l.idx < 10 /\ LogStored(l)
         \/ \E m \in Log : /\ m.tx = l.tx /\ m.num = l.num /\ m.fork = l.fork
                           /\ l.idx >= 10 /\ m.idx > l.idx
<1>1. PICK m \in Log : logs[m] > 0 /\ m.tx = l.tx /\ m.idx = DecimalReadAsHex[l.idx]
  BY DEF GetLogByTxhashAndLogIndex, StoredIndex, QueriedIndex
<1>2. l.idx \in Nat
  BY LogAssumption
<1>3. m.num = l.num /\ m.fork = l.fork /\ (l.idx = m.idx => l = m)
  BY <1>1 DEF IncludedOnce
<1>4. CASE l.idx < 10
  <2>1. m = l
    BY <1>1, <1>2, <1>3, <1>4, ReadAsHexGrows
  <2> QED
    BY <1>1, <1>4, <2>1 DEF LogStored
<1>5. CASE l.idx >= 10
  BY <1>1, <1>2, <1>3, <1>5, ReadAsHexGrows
<1> QED
  BY <1>2, <1>4, <1>5

LEMMA KeptInit == Init => KeptInv
  BY DEF Init, KeptInv, KeptAt

LEMMA KeptNext ==
  ASSUME IncludedOnce, TypeOK, [Next]_vars, NEW q \in Request, KeptAt(q)
  PROVE  KeptAt(q)'
<1>0. \A l \in Log : Kept(q, l) => Kept(q, l)'
  BY Growth, StoredStays DEF Kept
<1>t. ethlogs[q] \subseteq Log /\ todo[q] \subseteq Log /\ saving[q] \subseteq Log
  BY DEF TypeOK
<1>1. ASSUME UNCHANGED <<ethlogs[q], todo[q], saving[q], reply[q], pc[q]>>
      PROVE  KeptAt(q)'
  BY <1>0, <1>t, <1>1 DEF KeptAt, WholeBlocks, Vouched
<1>2. ASSUME NEW r \in Request, r # q, Request0(r) \/ Handler(r) \/ Timeout(r)
      PROVE  KeptAt(q)'
  BY <1>1, <1>2, OthersUnchanged
<1>3. ASSUME pc'[q] \notin {"checkLog", "saveLogs"}, reply'[q] # "ok" PROVE KeptAt(q)'
  BY <1>3 DEF KeptAt
<1>4. ASSUME FilterLogs(q) PROVE KeptAt(q)'
  <2> DEFINE found == NodeLogs(from[q], to[q])
  <2>1. /\ pc[q] = "filterLogs" /\ pc'[q] = "checkLog" /\ reply'[q] = reply[q]
        /\ ethlogs'[q] = found /\ todo'[q] = found
    BY <1>4 DEF FilterLogs, Goto, TypeOK, outVars
  <2>2. \A l \in found, m \in Log : m.num = l.num /\ m.fork = l.fork => m \in found
    BY DEF NodeLogs
  <2> HIDE DEF found
  <2> QED
    BY <2>1, <2>2 DEF KeptAt, WholeBlocks
<1>5. ASSUME NEW l \in todo[q], Next1(l, todo[q]), todo' = [todo EXCEPT ![q] = @ \ {l}],
             pc[q] = "checkLog", ethlogs'[q] = ethlogs[q]
      PROVE  /\ WholeBlocks(q)'
             /\ todo'[q] = todo[q] \ {l} /\ todo'[q] \subseteq ethlogs'[q]
             /\ \A k \in ethlogs'[q] \ todo'[q], m \in todo'[q] : Precedes(k, m)
  BY <1>5 DEF KeptAt, WholeBlocks, TypeOK, Next1
<1>6. ASSUME LogFound(q) PROVE KeptAt(q)'
  <2>1. PICK l \in todo[q] : /\ Next1(l, todo[q]) /\ GetLogByTxhashAndLogIndex(l) # {}
                             /\ todo' = [todo EXCEPT ![q] = @ \ {l}]
    BY <1>6 DEF LogFound
  <2>2. /\ pc[q] = "checkLog" /\ pc' = pc
        /\ UNCHANGED <<ethlogs, reply, logs, lostLogs>>
    BY <1>6 DEF LogFound, outVars, storeVars, histVars
  <2>3. /\ todo'[q] = todo[q] \ {l}
        /\ \A k \in ethlogs'[q] \ todo'[q], m \in todo'[q] : Precedes(k, m)
    BY <1>5, <2>1, <2>2
  <2>4. l \in Log /\ l \in ethlogs[q]
    BY <1>t, <2>1, <2>2 DEF KeptAt
  <2>5. \A k \in ethlogs[q] : k \notin todo[q] => Kept(q, k) \/ Vouched(q, k)
    BY <2>2 DEF KeptAt
  <2>6. CASE l.idx < 10 /\ LogStored(l)
    <3>1. \A k \in ethlogs[q] : k \notin todo[q] => Kept(q, k)' \/ Vouched(q, k)'
      <4> SUFFICES ASSUME NEW k \in ethlogs[q], k \notin todo[q]
                   PROVE  Kept(q, k)' \/ Vouched(q, k)'
        OBVIOUS
      <4>1. CASE Kept(q, k)
        BY <1>0, <1>t, <4>1
      <4>2. CASE Vouched(q, k)
        <5>1. PICK m \in todo[q] : m.tx = k.tx /\ m.idx >= 10
          BY <4>2 DEF Vouched
        <5>2. m # l /\ m \in todo'[q]
          BY <1>t, <2>3, <2>4, <2>6, <5>1, LogAssumption
        <5> QED
          BY <5>1, <5>2 DEF Vouched
      <4> QED
        BY <2>5, <4>1, <4>2
    <3>2. Kept(q, l)'
      BY <1>0, <2>4, <2>6 DEF Kept
    <3> QED
      BY <1>5, <2>1, <2>2, <2>3, <3>1, <3>2 DEF KeptAt
  <2>7. CASE \E m \in Log : /\ m.tx = l.tx /\ m.num = l.num /\ m.fork = l.fork
                          /\ l.idx >= 10 /\ m.idx > l.idx
    <3>1. PICK m \in Log : /\ m.tx = l.tx /\ m.num = l.num /\ m.fork = l.fork
                           /\ l.idx >= 10 /\ m.idx > l.idx
      BY <2>7
    <3>2. m \in ethlogs[q]
      BY <2>2, <2>4, <3>1 DEF KeptAt, WholeBlocks
    <3>3. m.idx \in Nat /\ l.idx \in Nat /\ l.num \in Int
      BY <2>4, LogAssumption, MaxHeightAssumption DEF Heights
    <3>4. m \in todo[q]
      <4>1. ~ Precedes(m, l)
        BY <3>1, <3>3 DEF Precedes
      <4> QED
        BY <2>1, <2>2, <3>2, <4>1 DEF KeptAt
    <3>5. m \in todo'[q] /\ m.idx >= 10
      BY <2>3, <3>1, <3>3, <3>4
    <3>6. \A k \in ethlogs[q] : k \notin todo'[q] => Kept(q, k)' \/ Vouched(q, k)'
      <4> SUFFICES ASSUME NEW k \in ethlogs[q], k \notin todo'[q]
                   PROVE  Kept(q, k)' \/ Vouched(q, k)'
        OBVIOUS
      <4>1. CASE k.tx = l.tx
        BY <3>1, <3>5, <4>1 DEF Vouched
      <4>2. CASE k.tx # l.tx
        <5>1. k \notin todo[q]
          BY <2>3, <4>2
        <5>2. \A v \in todo[q] : v.tx = k.tx => v \in todo'[q]
          BY <2>3, <4>2
        <5> QED
          BY <1>0, <1>t, <2>5, <5>1, <5>2 DEF Vouched
      <4> QED
        BY <4>1, <4>2
    <3> QED
      BY <1>5, <2>1, <2>2, <3>6 DEF KeptAt
  <2> QED
    BY <2>1, <2>4, <2>6, <2>7, FoundIsLater
<1>7. ASSUME LogMissing(q) PROVE KeptAt(q)'
  <2>1. PICK l \in todo[q] : Next1(l, todo[q]) /\ todo' = [todo EXCEPT ![q] = @ \ {l}]
    BY <1>7 DEF LogMissing
  <2>2. /\ pc[q] = "checkLog" /\ pc'[q] = "saveLogs" /\ reply'[q] = reply[q]
        /\ ethlogs' = ethlogs /\ saving'[q] = ethlogs[q]
    BY <1>7 DEF LogMissing, Goto, TypeOK, outVars
  <2> QED
    BY <1>5, <2>1, <2>2 DEF KeptAt
<1>8. ASSUME SaveLog(q) PROVE KeptAt(q)'
  <2>1. PICK l \in saving[q] :
          /\ \/ InsertLog(l)
             \/ lostLogs' = [lostLogs EXCEPT ![q] = @ \union {l}]
          /\ saving' = [saving EXCEPT ![q] = @ \ {l}]
          /\ IF saving[q] = {l} THEN Goto(q, "checkLog") ELSE UNCHANGED pc
    BY <1>8 DEF SaveLog
  <2>2. Kept(q, l)'
    BY <1>t, <2>1 DEF Kept, LogStored, InsertLog, TypeOK, StoreTypeOK
  <2>3. pc[q] = "saveLogs" /\ UNCHANGED <<ethlogs, todo, reply>>
    BY <1>8 DEF SaveLog, outVars
  <2>4. \A k \in ethlogs'[q] \ saving'[q] : Kept(q, k)'
    BY <1>0, <1>t, <2>1, <2>2, <2>3 DEF KeptAt, TypeOK
  <2>5. \/ pc'[q] = "saveLogs"
        \/ pc'[q] = "checkLog" /\ saving'[q] = {}
    BY <2>1, <2>3 DEF Goto, TypeOK
  <2> QED
    BY <2>3, <2>4, <2>5 DEF KeptAt, WholeBlocks
<1>9. ASSUME SyncSuccessful(q) PROVE KeptAt(q)'
  <2>1. /\ pc[q] = "checkLog" /\ todo[q] = {} /\ pc'[q] = "done"
        /\ UNCHANGED <<ethlogs, logs, lostLogs>>
    BY <1>9 DEF SyncSuccessful, Return, Goto, TypeOK, storeVars, histVars
  <2>2. \A l \in ethlogs[q] : Kept(q, l)
    BY <2>1 DEF KeptAt, Vouched
  <2> QED
    BY <1>0, <1>t, <2>1, <2>2 DEF KeptAt
<1>r. pc[q] # "done" => reply[q] # "ok"
  BY DEF KeptAt
<1> USE DEF TypeOK, reqVars, outVars, histVars, Goto, Return
<1>10. ASSUME Request0(q) \/ Handler(q) \/ Timeout(q) PROVE KeptAt(q)'
  <2>1. \/ pc'[q] \notin {"checkLog", "saveLogs"} /\ reply'[q] # "ok"
        \/ UNCHANGED <<ethlogs[q], todo[q], saving[q], reply[q], pc[q]>>
        \/ FilterLogs(q) \/ LogFound(q) \/ LogMissing(q) \/ SaveLog(q) \/ SyncSuccessful(q)
    <3>1. ASSUME Request0(q) PROVE pc'[q] \notin {"checkLog", "saveLogs"} /\ reply'[q] # "ok"
      BY <1>r, <3>1 DEF Request0, GiveUp, StartUndialled, StartUnparsed, Start
    <3>2. ASSUME \/ BloomQueryFails(q) \/ CallNodeFails(q) \/ FilterLogsFails(q)
                 \/ LogQueryFails(q)
          PROVE  pc'[q] \notin {"checkLog", "saveLogs"} /\ reply'[q] # "ok"
      BY <3>2 DEF GiveUp, BloomQueryFails, CallNodeFails, FilterLogsFails, LogQueryFails
    <3>3. ASSUME \/ BloomFound(q) \/ BloomMissing(q) \/ CallNode(q) \/ SaveBloom(q)
                 \/ BlocksDone(q)
          PROVE  pc'[q] \notin {"checkLog", "saveLogs"} /\ reply'[q] # "ok"
      BY <1>r, <3>3 DEF BloomFound, BloomMissing, CallNode, SaveBloom, BlocksDone
    <3>4. ASSUME Timeout(q)
          PROVE  UNCHANGED <<ethlogs[q], todo[q], saving[q], reply[q], pc[q]>>
      BY <3>4 DEF Timeout
    <3> QED
      BY <1>10, <3>1, <3>2, <3>3, <3>4 DEF Handler
  <2> QED
    BY <1>1, <1>3, <1>4, <1>6, <1>7, <1>8, <1>9, <2>1
<1>11. CASE Crash
  BY <1>0, <1>t, <1>11 DEF KeptAt, Crash, Running, BlockPhase, LogPhase
<1>12. CASE Node \/ UNCHANGED vars
  BY <1>1, <1>12 DEF Node, vars
<1> QED
  BY <1>2, <1>10, <1>11, <1>12 DEF Next

\* If every transaction is included in one block only, whoever is told "Sync
\* successful!" has every log the node answered with in the table, block and
\* all, but for failed inserts of its own; with indices of any number of
\* digits, although the lookup mistakes one for another from ten upwards.
\* The hypothesis cannot be left out: when a reorganisation includes a
\* transaction again, the lookup takes its row of the old block for the log.
THEOREM SuccessStoresLogs == IncludedOnce => (Spec => []OkMeansLogsStored)
<1> SUFFICES ASSUME IncludedOnce PROVE Spec => []OkMeansLogsStored
  OBVIOUS
<1>1. TypeOK /\ KeptInv /\ [Next]_vars => KeptInv'
  BY KeptNext DEF KeptInv
<1>2. KeptInv => OkMeansLogsStored
  BY DEF KeptInv, KeptAt, OkMeansLogsStored, Kept
<1> QED
  BY KeptInit, TypeCorrect, <1>1, <1>2, PTL DEF Spec

-----------------------------------------------------------------------------
(* Synchronising again writes nothing.                                     *)

\* While a quiet request compares, the logs still ahead of it have rows and
\* are recognisable, so that only an error can send it to SaveLogs.
QuietAt(r) ==
  quiet[r] =>
    /\ pc[r] \in {"checkLog", "saveLogs"} =>
         \A l \in todo[r] : LogNamed(l) /\ QueriedIndex(l) = StoredIndex(l)
    /\ faults = 0 => pc[r] # "saveLogs"

QuietInv == \A r \in Request : QuietAt(r)

LEMMA QuietInit == Init => QuietInv
  BY DEF Init, QuietInv, QuietAt

LEMMA QuietNext ==
  ASSUME TypeOK, [Next]_vars, NEW q \in Request, QuietAt(q)
  PROVE  QuietAt(q)'
<1>0. /\ \A l \in Log : LogNamed(l) => LogNamed(l)'
      /\ faults' = 0 => faults = 0
  BY Growth, StoredStays
<1>1. \A l \in Log : UNCHANGED <<QueriedIndex(l), StoredIndex(l)>>
  BY DEF QueriedIndex, StoredIndex
<1> USE <1>0, <1>1 DEF QuietAt, TypeOK
<1>2. ASSUME UNCHANGED <<todo[q], quiet[q], pc[q]>> PROVE QuietAt(q)'
  BY <1>2
<1>3. ASSUME NEW r \in Request, r # q, Request0(r) \/ Handler(r) \/ Timeout(r)
      PROVE  QuietAt(q)'
  BY <1>2, <1>3, OthersUnchanged
<1> USE DEF reqVars, outVars, histVars, Goto, Return
<1>4. ASSUME pc'[q] \notin {"checkLog", "saveLogs"} PROVE QuietAt(q)'
  BY <1>4
<1>5. ASSUME FilterLogs(q) PROVE QuietAt(q)'
  BY <1>5 DEF FilterLogs, NodeLogs
<1>6. ASSUME LogFound(q) PROVE QuietAt(q)'
  BY <1>6 DEF LogFound
<1>7. ASSUME LogMissing(q) PROVE QuietAt(q)'
  BY <1>7, NamedIsFound DEF LogMissing, Fault
<1>8. ASSUME SaveLog(q) PROVE QuietAt(q)'
  BY <1>8 DEF SaveLog
<1>9. ASSUME Request0(q) \/ Handler(q) \/ Timeout(q) PROVE QuietAt(q)'
  BY <1>2, <1>4, <1>5, <1>6, <1>7, <1>8, <1>9
  DEF Request0, Handler, GiveUp, Running, BlockPhase, LogPhase,
      StartUndialled, StartUnparsed, Start, BloomFound, BloomMissing, BloomQueryFails,
      CallNode, CallNodeFails, SaveBloom, BlocksDone, FilterLogsFails,
      LogQueryFails, SyncSuccessful, Timeout
<1>10. CASE Crash
  BY <1>10 DEF Crash, Running, BlockPhase, LogPhase
<1>11. CASE Node \/ UNCHANGED vars
  BY <1>2, <1>11 DEF Node, vars
<1> QED
  BY <1>3, <1>9, <1>10, <1>11 DEF Next

\* A request whose logs were all there, and recognisable, never reaches
\* SaveLogs as long as there is no error, whatever the others are writing.
THEOREM ResyncWritesNothing == Spec => []ResyncIsQuiet
<1>1. TypeOK /\ QuietInv /\ [Next]_vars => QuietInv'
  BY QuietNext DEF QuietInv
<1>2. QuietInv => ResyncIsQuiet
  BY DEF QuietInv, QuietAt, ResyncIsQuiet
<1> QED
  BY QuietInit, TypeCorrect, <1>1, <1>2, PTL DEF Spec
-----------------------------------------------------------------------------
(* The tables are an append-only mirror of the chain.                      *)

\* The block of a log.
BlockOf(l) == [num |-> l.num, fork |-> l.fork]

\* Everything a request has read and not yet stored is of a block the node has
\* or had, but for the empty row; and the node has the blocks of its chain.
ReadInv ==
  /\ \A h \in Heights : h <= head => CanonicalBlock(h) \in had
  /\ \A r \in Request : raw[r] \in had \union {ZeroRow}
  /\ \A r \in Request : \A l \in ethlogs[r] \union saving[r] : BlockOf(l) \in had

LEMMA ReadInit == Init => ReadInv
  BY MaxHeightAssumption
  DEF Init, NodeInit, ReadInv, CanonicalBlock, ZeroRow, Heights

\* The chain remembers its blocks, and has those it consists of.
LEMMA ChainMoves ==
  ASSUME TypeOK, ReadInv, [Next]_vars
  PROVE  /\ \A h \in Heights : h <= head' => CanonicalBlock(h)' \in had'
         /\ had \subseteq had'
<1> USE DEF CanonicalBlock
<1>1. \/ UNCHANGED nodeVars
      \/ NewBlock
      \/ \E h \in Heights : Reorg(h)
  BY DEF Next, vars, nodeVars, Request0, Handler, GiveUp, Crash, Node,
      StartUndialled, StartUnparsed, Start, BloomFound, BloomMissing, BloomQueryFails,
      CallNode, CallNodeFails, SaveBloom, BlocksDone, FilterLogs, FilterLogsFails,
      LogFound, LogMissing, LogQueryFails, SaveLog, SyncSuccessful, Timeout
<1>2. CASE UNCHANGED nodeVars
  BY <1>2 DEF nodeVars, ReadInv
<1>3. CASE NewBlock
  <2>1. \A h \in Heights : h <= head' => h <= head \/ h = head + 1
    BY <1>3, MaxHeightAssumption DEF NewBlock, TypeOK, NodeTypeOK, Heights
  <2> QED
    BY <1>3, <2>1 DEF NewBlock, ReadInv
<1>4. ASSUME NEW h \in Heights, Reorg(h)
      PROVE  /\ \A k \in Heights : k <= head' => CanonicalBlock(k)' \in had'
             /\ had \subseteq had'
  <2>1. ASSUME NEW k \in Heights, k <= head' PROVE CanonicalBlock(k)' \in had'
    <3>1. k \in Int /\ h \in Int /\ head \in Int /\ head' = head
      BY <1>4, MaxHeightAssumption DEF Reorg, Heights, TypeOK, NodeTypeOK
    <3>2. CASE k >= h
      <4>1. canon'[k] = reorgs + 1 /\ k \in h .. head
        BY <1>4, <2>1, <3>1, <3>2 DEF Reorg
      <4> QED
        BY <1>4, <4>1 DEF Reorg
    <3>3. CASE ~(k >= h)
      <4>1. canon'[k] = canon[k] /\ k <= head
        BY <1>4, <2>1, <3>1, <3>3 DEF Reorg
      <4> QED
        BY <1>4, <4>1 DEF Reorg, ReadInv
    <3> QED
      BY <3>2, <3>3
  <2> QED
    BY <1>4, <2>1 DEF Reorg
<1> QED
  BY <1>1, <1>2, <1>3, <1>4

LEMMA ReadNext == TypeOK /\ ReadInv /\ [Next]_vars => ReadInv'
<1> SUFFICES ASSUME TypeOK, ReadInv, [Next]_vars PROVE ReadInv'
  OBVIOUS
<1> DEFINE Rest(q) == ethlogs[q] \union saving[q]
<1> DEFINE Read(q) == raw[q] \in had \union {ZeroRow} /\ \A l \in Rest(q) : BlockOf(l) \in had
<1>1. /\ \A h \in Heights : h <= head' => CanonicalBlock(h)' \in had'
      /\ had \subseteq had'
  BY ChainMoves
<1>2. SUFFICES ASSUME NEW q \in Request PROVE Read(q)'
  BY <1>1, <1>2 DEF ReadInv, BlockOf
<1>3. Read(q)
  BY DEF ReadInv
<1>4. ASSUME raw'[q] = raw[q], Rest(q)' \subseteq Rest(q) PROVE Read(q)'
  BY <1>1, <1>3, <1>4 DEF ZeroRow, BlockOf
<1>5. ASSUME NEW r \in Request, CallNode(r) PROVE Read(q)'
  <2>1. CASE raw'[q] = raw[q]
    BY <1>4, <1>5, <2>1 DEF CallNode
  <2>2. CASE raw'[q] = CanonicalBlock(i[q]) /\ 0 <= i[q] /\ i[q] <= head
    <3>1. i[q] \in Heights /\ had' = had
      BY <1>5, <2>2, MaxHeightAssumption DEF CallNode, nodeVars, TypeOK, NodeTypeOK, Heights
    <3> QED
      BY <1>3, <1>5, <2>2, <3>1 DEF CallNode, ReadInv, BlockOf
  <2> QED
    BY <1>5, <2>1, <2>2 DEF CallNode, TypeOK
<1>6. ASSUME NEW r \in Request, FilterLogs(r) PROVE Read(q)'
  <2>1. ASSUME NEW l \in NodeLogs(from[r], to[r]) PROVE BlockOf(l) \in had
    <3>1. l.num \in Heights /\ l.num <= head /\ l.fork = canon[l.num]
      BY LogAssumption DEF NodeLogs
    <3> QED
      BY <3>1 DEF ReadInv, CanonicalBlock, BlockOf
  <2>2. raw'[q] = raw[q] /\ Rest(q)' \subseteq Rest(q) \union NodeLogs(from[r], to[r])
    BY <1>6 DEF FilterLogs, TypeOK
  <2> QED
    BY <1>1, <1>3, <2>1, <2>2 DEF ZeroRow, BlockOf
<1>7. ASSUME NEW r \in Request, LogMissing(r) \/ SaveLog(r)
      PROVE  raw'[q] = raw[q] /\ Rest(q)' \subseteq Rest(q)
  BY <1>7 DEF LogMissing, SaveLog, TypeOK
<1>8. \/ UNCHANGED <<raw, ethlogs, saving>>
      \/ \E r \in Request : CallNode(r) \/ FilterLogs(r) \/ LogMissing(r) \/ SaveLog(r)
  BY DEF Next, vars, reqVars, Request0, Handler, GiveUp, Crash, Node,
      StartUndialled, StartUnparsed, Start, BloomFound, BloomMissing, BloomQueryFails,
      CallNode, CallNodeFails, SaveBloom, BlocksDone, FilterLogs, FilterLogsFails,
      LogFound, LogMissing, LogQueryFails, SaveLog, SyncSuccessful, Timeout
<1>9. CASE UNCHANGED <<raw, ethlogs, saving>>
  BY <1>4, <1>9
<1> QED
  BY <1>4, <1>5, <1>6, <1>7, <1>8, <1>9

\* Every step maps to a step of the mirror, or leaves it alone.
LEMMA MirrorStep ==
  ASSUME TypeOK, ReadInv, [Next]_vars
  PROVE  [Tables!Add \/ Tables!Grow]_<<block_bloom, logs, had>>
<1>1. ASSUME NEW r \in Request, SaveBloom(r), InsertBloom(raw[r]) PROVE Tables!Add
  <2>1. raw[r] \in had \union {ZeroRow} /\ UNCHANGED had
    BY <1>1 DEF SaveBloom, nodeVars, ReadInv
  <2>2. Tables!InsertBloom(raw[r]) /\ Tables!ZeroRow = ZeroRow
    BY <1>1 DEF InsertBloom, Tables!InsertBloom, Tables!ZeroRow, ZeroRow
  <2> QED
    BY <2>1, <2>2 DEF Tables!Add
<1>2. ASSUME NEW r \in Request, SaveLog(r), NEW l \in saving[r], InsertLog(l)
      PROVE  Tables!Add
  <2>1. l \in Log /\ BlockOf(l) \in had /\ UNCHANGED had
    BY <1>2 DEF SaveLog, nodeVars, TypeOK, ReadInv
  <2> QED
    BY <1>2, <2>1 DEF BlockOf, Tables!BlockOf, InsertLog, Tables!Add, Tables!InsertLog
<1>3. CASE UNCHANGED storeVars
  <2>1. had' \in SUBSET Block /\ had \subseteq had'
    BY ChainMoves, TypeOKNext DEF TypeOK, NodeTypeOK
  <2> QED
    BY <1>3, <2>1 DEF storeVars, Tables!Grow, Tables!storeVars, Tables!Block, Block,
        Tables!Heights, Heights, Tables!Forks, Forks
<1>4. \/ UNCHANGED storeVars
      \/ \E r \in Request : SaveBloom(r) /\ InsertBloom(raw[r])
      \/ \E r \in Request : SaveLog(r) /\ \E l \in saving[r] : InsertLog(l)
  BY DEF Next, vars, Request0, Handler, GiveUp, Crash, Node,
      StartUndialled, StartUnparsed, Start, BloomFound, BloomMissing, BloomQueryFails,
      CallNode, CallNodeFails, SaveBloom, BlocksDone, FilterLogs, FilterLogsFails,
      LogFound, LogMissing, LogQueryFails, SaveLog, SyncSuccessful, Timeout
<1> QED
  BY <1>1, <1>2, <1>3, <1>4

\* The tables are an append-only mirror of the blocks the node has or once had,
\* but for the empty row, in the sense of module Mirror: whatever the requests,
\* failures, crashes and reorganisations.
THEOREM TablesAreMirror == Spec => MirrorSpec
<1>1. Init => Tables!Init
  BY TypeOKInit
  DEF Init, TypeOK, NodeTypeOK, StoreInit, Tables!Init, Tables!StoreInit, Heights, Tables!Heights,
      BloomRow, Tables!BloomRow, ZeroRow, Tables!ZeroRow, Block, Tables!Block, Forks, Tables!Forks
<1> QED
  BY ReadInit, ReadNext, TypeCorrect, MirrorStep, <1>1, PTL
  DEF Spec, MirrorSpec, Tables!Spec, Tables!mirrorVars
=============================================================================
