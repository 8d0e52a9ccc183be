------------------------------- MODULE LogQuery -------------------------------
(***************************************************************************)
(* PublicRPCAPI.GetLogs (eth_getLogs): rpc/rpcserver/http.go, HandleGetLogs *)
(* of rpc/filter/api.go, Filter.Logs and blockLogs of filters.go and the   *)
(* matching of utils.go.  A call only reads the tables, so that one call   *)
(* stands for all of them; one action per query, and between two queries   *)
(* the synchronisations insert any rows.                                   *)
(***************************************************************************)
EXTENDS EventStore, Sequences, FiniteSetsExt

CONSTANTS
  Criteria,       \* the filter criteria a client may send: hash, from, to,
                  \* addresses (a set) and topics (a sequence of sets)
  NoBound,        \* FromBlock or ToBlock is absent
  NoHash,         \* BlockHash is absent; it names a block otherwise, or is
  ZeroHash,       \* the hash of 32 zero bytes
  BlockRangeCap,  \* DefaultBlockRangeCap
  LogsCap,        \* DefaultLogsCap
  MaxToOverhang,  \* maxToOverhang
  MaxRows,        \* bound: copies of a log in the table
  MaxFaults       \* bound: how many database errors may happen

Topic == STRING \ {""}

\* Decoding the parameters refuses a hash together with a bound.
ASSUME CriteriaAssumption ==
  \A c \in Criteria :
    /\ c.from \in Int \union {NoBound}
    /\ c.to \in Int \union {NoBound}
    /\ c.hash \in Block \union {NoHash, ZeroHash}
    /\ c.hash # NoHash => c.from = NoBound /\ c.to = NoBound
    /\ c.topics \in Seq(SUBSET Topic)
ASSUME TopicsAssumption == \A l \in Log : l.topics \in Seq(Topic)
ASSUME NamesAssumption ==
  /\ NoBound \notin Int
  /\ NoHash \notin Block
  /\ ZeroHash \notin Block
  /\ NoHash # ZeroHash
\* The logs of finitely many blocks.
ASSUME LogsAssumption == IsFiniteSet(Log)
ASSUME CapsAssumption == {BlockRangeCap, LogsCap, MaxToOverhang} \subseteq Nat

VARIABLES
  pc,       \* where the call is
  crit,     \* crit
  from, to, \* begin and end, then criteria.FromBlock and criteria.ToBlock
  height,   \* loop variable; the number of the block for a call by hash
  found,    \* logs: how many copies of each the call has collected
  reply,    \* what the handler put in *reply; "lost" when it panicked
  faults    \* errors so far

\* History variables: the tables when the call started.
VARIABLES blooms0, logs0

callVars == <<crit, from, to, height>>
histVars == <<blooms0, logs0>>
vars == <<storeVars, pc, callVars, found, reply, faults, histVars>>

None == [l \in Log |-> 0]

Querying == {"begin", "end", "range", "bloom", "hash", "logs"}

TypeOK ==
  /\ StoreTypeOK
  /\ pc \in {"idle", "done"} \union Querying
  /\ crit \in Criteria
  /\ from \in Int \union {NoBound}
  /\ to \in Int \union {NoBound}
  /\ height \in Int
  /\ found \in [Log -> Nat]
  /\ reply \in {"none", "ok", "InvalidParams", "lost"}
  /\ faults \in Nat
  /\ blooms0 \in [BloomRow -> Nat]
  /\ logs0 \in [Log -> Nat]

Init ==
  /\ StoreInit
  /\ pc = "idle"
  /\ crit \in Criteria
  /\ from = crit.from
  /\ to = crit.to
  /\ height = 0
  /\ found = None
  /\ reply = "none"
  /\ faults = 0
  /\ blooms0 = block_bloom
  /\ logs0 = logs

-----------------------------------------------------------------------------
(* Matching.                                                               *)

\* The addresses and topics of the logs of a block: what its bloom holds.
\* (A real bloom may hold more; FilterLogs decides about every row again.)
BloomItems(row) ==
  UNION {{l.address} \union {l.topics[n] : n \in DOMAIN l.topics} :
           l \in {k \in Log : k.num = row.num /\ k.fork = row.fork}}

\* A bloom is stored as the text the node sent, which begins with "0x".
\* hex.DecodeString stops at the x; its error is ignored, and so the bloom of
\* every block decodes to the empty one.
BloomText(row) == [prefix |-> IF HasBloom(row) THEN "0x" ELSE "",
                   items  |-> BloomItems(row)]
DecodeString(text) == IF text.prefix = "" THEN text.items ELSE {}

BloomFilter(bloom) ==
  /\ crit.addresses = {} \/ crit.addresses \intersect bloom # {}
  /\ \A n \in DOMAIN crit.topics :
       crit.topics[n] = {} \/ crit.topics[n] \intersect bloom # {}

\* The topics of a log are stored as one text, separated by commas.  Split at
\* the commas, the text of a log without topics is one empty topic.
SplitTopics(l) == IF l.topics = <<>> THEN <<"">> ELSE l.topics

Passes(l) ==
  /\ crit.addresses = {} \/ l.address \in crit.addresses
  /\ Len(crit.topics) <= Len(SplitTopics(l))
  /\ \A n \in DOMAIN crit.topics :
       crit.topics[n] = {} \/ SplitTopics(l)[n] \in crit.topics[n]

FilterLogs(rows) == [l \in Log |-> IF Passes(l) THEN rows[l] ELSE 0]

Size(rows) == MapThenSumSet(LAMBDA l : rows[l], Log)

-----------------------------------------------------------------------------
Fault ==
  /\ faults < MaxFaults
  /\ faults' = faults + 1

Reply(what, rows) ==
  /\ pc' = "done"
  /\ reply' = what
  /\ found' = rows

\* Neither address, topic nor hash is given.
Unspecific == crit.addresses = {} /\ crit.topics = <<>> /\ crit.hash = NoHash

Reject ==
  /\ pc = "idle"
  /\ Unspecific
  /\ Reply("InvalidParams", None)
  /\ UNCHANGED <<storeVars, callVars, faults, histVars>>

Start ==
  /\ pc = "idle"
  /\ ~Unspecific
  /\ blooms0' = block_bloom
  /\ logs0' = logs
  /\ \/ crit.hash = NoHash /\ pc' = "begin"
     \/ crit.hash = ZeroHash /\ pc' = "range"
     \/ crit.hash \in Block /\ pc' = "hash"
  /\ UNCHANGED <<storeVars, callVars, found, reply, faults>>

\* GetBlockHeight answers n: the height, or 0 when an error met while
\* iterating the rows is recovered from and dropped.
ReadHeight(n) ==
  \/ n \in GetBlockHeight /\ UNCHANGED faults
  \/ n = 0 /\ Fault

(* HandleGetLogs: begin and end.                                           *)

\* Bug (never part of Next, like those below): begin is 0 unless it is given.
GetBeginZero ==
  /\ pc = "begin"
  /\ from' = IF crit.from = NoBound THEN 0 ELSE crit.from
  /\ pc' = "end"
  /\ UNCHANGED <<storeVars, crit, to, height, found, reply, faults, histVars>>

GetBegin ==
  /\ pc = "begin"
  /\ \E n \in Heights :
       ReadHeight(n) /\ from' = IF crit.from = NoBound THEN n ELSE crit.from
  /\ pc' = "end"
  /\ UNCHANGED <<storeVars, crit, to, height, found, reply, histVars>>

GetEnd ==
  /\ pc = "end"
  /\ \E n \in Heights :
       ReadHeight(n) /\ to' = IF crit.to = NoBound THEN n ELSE crit.to
  /\ pc' = "range"
  /\ UNCHANGED <<storeVars, crit, from, height, found, reply, histVars>>

(* Logs: the limits of the range, then one turn per height.                *)

\* The block a bound stands for when the height is n.
Resolve(bound, n) == IF bound < 0 THEN n ELSE IF bound = 0 THEN 1 ELSE bound

\* Bug: the number of blocks is compared instead of the distance.
TooLongCounting(first, last) == last - first + 1 > BlockRangeCap

TooLong(first, last) == last - first > BlockRangeCap

\* The turn once the height is read as n.
Limit(n) ==
  LET first == Resolve(from, n)
      last  == Resolve(to, n) IN
  \/ /\ TooLong(first, last)
     /\ Reply("InvalidParams", None)
     /\ UNCHANGED <<from, to, height>>
  \/ /\ ~TooLong(first, last)
     /\ first > n
     /\ Reply("ok", None)
     /\ UNCHANGED <<from, to, height>>
  \/ /\ ~TooLong(first, last)
     /\ first <= n
     /\ from' = first
     /\ to' = IF last > n + MaxToOverhang THEN n + MaxToOverhang ELSE last
     /\ height' = first
     /\ pc' = "bloom"
     /\ UNCHANGED <<found, reply>>

CheckRange ==
  /\ pc = "range"
  /\ crit.hash = NoHash
  /\ \E n \in Heights : ReadHeight(n) /\ Limit(n)
  /\ UNCHANGED <<storeVars, crit, histVars>>

\* The zero hash takes this path without bounds: FromBlock is nil, and the
\* panic is recovered from in ServeHTTP, which replies nothing.
Panic ==
  /\ pc = "range"
  /\ crit.hash = ZeroHash
  /\ \E n \in Heights : ReadHeight(n)
  /\ Reply("lost", None)
  /\ UNCHANGED <<storeVars, callVars, histVars>>

\* Bug: height < to.
MoreBeforeLast == height < to

More == height <= to

\* The bloom of a height, or the empty string when an iteration error is dropped.
ReadBloom(row) ==
  \/ row \in GetBloomByBlockNumber(height) /\ UNCHANGED faults
  \/ row = ZeroRow /\ Fault

\* Bug: what was found so far is returned.
NoBloomPartial ==
  /\ pc = "bloom"
  /\ More
  /\ \E row \in BloomRow : ReadBloom(row) /\ ~HasBloom(row)
  /\ Reply("ok", found)
  /\ UNCHANGED <<storeVars, callVars, histVars>>

\* No bloom: return nil, nil.  What was found so far is dropped.
NoBloom ==
  /\ pc = "bloom"
  /\ More
  /\ \E row \in BloomRow : ReadBloom(row) /\ ~HasBloom(row)
  /\ Reply("ok", None)
  /\ UNCHANGED <<storeVars, callVars, histVars>>

\* Bug: a height that the bloom rules out is looked at again.
BloomRulesOutStays ==
  /\ pc = "bloom"
  /\ More
  /\ \E row \in GetBloomByBlockNumber(height) :
       HasBloom(row) /\ ~BloomFilter(DecodeString(BloomText(row)))
  /\ UNCHANGED vars

BloomRulesOut ==
  /\ pc = "bloom"
  /\ More
  /\ \E row \in GetBloomByBlockNumber(height) :
       HasBloom(row) /\ ~BloomFilter(DecodeString(BloomText(row)))
  /\ height' = height + 1
  /\ UNCHANGED <<storeVars, pc, crit, from, to, found, reply, faults, histVars>>

BloomPasses ==
  /\ pc = "bloom"
  /\ More
  /\ \E row \in GetBloomByBlockNumber(height) :
       HasBloom(row) /\ BloomFilter(DecodeString(BloomText(row)))
  /\ pc' = "logs"
  /\ UNCHANGED <<storeVars, callVars, found, reply, faults, histVars>>

RangeDone ==
  /\ pc = "bloom"
  /\ ~More
  /\ Reply("ok", found)
  /\ UNCHANGED <<storeVars, callVars, faults, histVars>>

\* The rows of a height; an iteration error drops those not yet read.
ReadLogs(rows) ==
  \/ rows = GetLogsByBlockNumber(height) /\ UNCHANGED faults
  \/ /\ rows \in [Log -> 0 .. MaxRows]
     /\ \A l \in Log : rows[l] <= GetLogsByBlockNumber(height)[l]
     /\ Fault

\* The matching ones of the rows read join those found.
Collect(rows) ==
  LET all == [l \in Log |-> found[l] + FilterLogs(rows)[l]] IN
  \/ /\ Size(all) > LogsCap
     /\ Reply("InvalidParams", None)
     /\ UNCHANGED height
  \/ /\ Size(all) <= LogsCap
     /\ found' = all
     /\ height' = height + 1
     /\ pc' = "bloom"
     /\ UNCHANGED reply

GetLogsOfHeight ==
  /\ pc = "logs"
  /\ crit.hash = NoHash
  /\ \E rows \in [Log -> 0 .. MaxRows] : ReadLogs(rows) /\ Collect(rows)
  /\ UNCHANGED <<storeVars, crit, from, to, histVars>>

(* Logs for a block hash.  The zero value stands for an unknown block: its *)
(* number is 0, and a pointer to it is never nil.                          *)
GetBlock ==
  /\ pc = "hash"
  /\ \E row \in BloomRow :
       /\ \/ row = GetBlockNumAndBloomByBlockHash(crit.hash) /\ UNCHANGED faults
          \/ row = ZeroRow /\ Fault
       /\ height' = row.num
       /\ \/ /\ BloomFilter(DecodeString(BloomText(row)))
             /\ pc' = "logs"
             /\ UNCHANGED <<found, reply>>
          \/ /\ ~BloomFilter(DecodeString(BloomText(row)))
             /\ Reply("ok", None)
  /\ UNCHANGED <<storeVars, crit, from, to, histVars>>

GetLogsOfBlock ==
  /\ pc = "logs"
  /\ crit.hash # NoHash
  /\ \E rows \in [Log -> 0 .. MaxRows] :
       ReadLogs(rows) /\ Reply("ok", FilterLogs(rows))
  /\ UNCHANGED <<storeVars, callVars, histVars>>

\* Every query of the call may fail, and then the call does.
QueryFails ==
  /\ pc \in Querying
  /\ pc = "bloom" => More
  /\ Fault
  /\ Reply("InvalidParams", None)
  /\ UNCHANGED <<storeVars, callVars, histVars>>

-----------------------------------------------------------------------------
\* The synchronisations insert a row.
Writer ==
  /\ \/ \E row \in BloomRow : block_bloom[row] = 0 /\ InsertBloom(row)
     \/ \E l \in Log : logs[l] < MaxRows /\ InsertLog(l)
  /\ UNCHANGED <<pc, callVars, found, reply, faults, histVars>>

Query ==
  \/ QueryFails
  \/ GetBegin \/ GetEnd \/ CheckRange \/ Panic
  \/ NoBloom \/ BloomRulesOut \/ BloomPasses \/ GetLogsOfHeight \/ RangeDone
  \/ GetBlock \/ GetLogsOfBlock

Next == Reject \/ Start \/ Query \/ Writer

Spec == Init /\ [][Next]_vars

\* A goroutine that has started keeps running, and its queries return.
FairSpec == Spec /\ WF_vars(Query)

-----------------------------------------------------------------------------
(* Properties.                                                             *)

\* Where a position of the topics names topics, the log has one of them there
\* (utils.go:13-17), and one of the addresses if any are named.
Matches(l) ==
  /\ crit.addresses = {} \/ l.address \in crit.addresses
  /\ \A n \in DOMAIN crit.topics :
       crit.topics[n] = {} \/ (n <= Len(l.topics) /\ l.topics[n] \in crit.topics[n])

Given(bound) == bound # NoBound /\ bound > 0

BloomStored0(h) == \E row \in BloomRow : row.num = h /\ HasBloom(row) /\ blooms0[row] > 0

\* The heights the client asked for, as far as they were settled when it asked.
InScope(h) ==
  /\ Given(crit.from) => crit.from <= h
  /\ Given(crit.to) => h <= crit.to
  /\ crit.to # NoBound /\ crit.to = 0 => h <= 1
  /\ (crit.from = NoBound \/ crit.from < 0) /\ faults = 0 =>
       \A row \in BloomRow : blooms0[row] > 0 => row.num <= h

\* Whatever is inserted during the call: a reply lists a log no more often than
\* the table does, only logs that match, only of heights that were asked for
\* (from the height at the start of the call on, when no first block is given
\* and no query fails), and never a log whose block has no bloom.
ReplySound ==
  reply = "ok" => \A l \in Log :
    /\ found[l] <= logs[l]
    /\ found[l] > 0 =>
         /\ Matches(l)
         /\ crit.hash = NoHash => InScope(l.num) /\ BloomStored(l.num)
         /\ crit.hash # NoHash => l.num \in {0, crit.hash.num}

\* No address or topic is named: the bloom rules nothing out.
Wildcard == crit.addresses = {} /\ \A n \in DOMAIN crit.topics : crit.topics[n] = {}

LongEnough(l) == Len(crit.topics) <= Len(SplitTopics(l))

\* A wildcard call for a range answers either nothing or every log of the
\* range that was there when it started: a height without a bloom anywhere in
\* the range takes the logs of all other heights with it.
CompleteOrEmpty ==
  reply = "ok" /\ crit.hash = NoHash /\ Wildcard /\ faults = 0 /\ found # None =>
    \A l \in Log : from <= l.num /\ l.num <= to /\ LongEnough(l) => found[l] >= logs0[l]

\* A wildcard call for heights that all have a bloom when it starts answers
\* every log of them that is stored by then: rows inserted meanwhile cannot
\* make it lose one.
MirroredRangeAnswered ==
  reply = "ok" /\ Given(crit.from) /\ Given(crit.to) /\ Wildcard /\ faults = 0
  /\ (\A h \in crit.from .. crit.to : BloomStored0(h)) =>
    \A l \in Log : InScope(l.num) /\ LongEnough(l) => found[l] >= logs0[l]

\* A call that gives bounds is refused only for one of the two limits, when no
\* query fails.
OnlyLimitsRefuse ==
  reply = "InvalidParams" /\ faults = 0 /\ Given(crit.from) /\ Given(crit.to) =>
    \/ Unspecific
    \/ crit.to - crit.from > BlockRangeCap
    \/ Size([l \in Log |-> IF InScope(l.num) /\ Matches(l) THEN logs[l] ELSE 0]) > LogsCap

\* Every started call comes to an end, although the height it reads grows.
QueryEnds == pc \in Querying ~> pc = "done"

(* What the source says of itself, and the code does not do.               *)

\* "Logs searches the blockchain for matching log entries, returning all from
\* the first block that contains matches" (filters.go:144): a log that matches,
\* lies in the range given and was stored, with its block's bloom, before the
\* call started is in the reply.
MatchesReturned ==
  reply = "ok" /\ Given(crit.from) /\ Given(crit.to) /\ faults = 0 =>
    \A l \in Log :
      logs0[l] > 0 /\ BloomStored0(l.num) /\ InScope(l.num) /\ Matches(l) => found[l] > 0
=============================================================================
