---------------------------- MODULE LogQueryProofs ----------------------------
(***************************************************************************)
(* What eth_getLogs replies is sound for every chain, criterion and limit, *)
(* and whatever is inserted into the tables while the call runs.           *)
(***************************************************************************)
EXTENDS LogQuery, FiniteSums, TLAPS

\* Where a call is says what it was asked for.
Kinds ==
  /\ pc \in {"begin", "end", "bloom"} => crit.hash = NoHash
  /\ pc = "hash" => crit.hash \in Block
  /\ pc = "range" => crit.hash \in {NoHash, ZeroHash}
  /\ pc = "logs" => crit.hash \in Block \union {NoHash}

\* A call for a range knows its bounds once it has resolved them: without
\* this, FromBlock is nil where Logs reads it (the panic of the zero hash).
BoundsKnown ==
  crit.hash = NoHash =>
    /\ pc \in {"end", "range", "bloom", "logs"} => from \in Int
    /\ pc \in {"range", "bloom", "logs"} => to \in Int

TypeInv == TypeOK /\ Kinds /\ BoundsKnown

-----------------------------------------------------------------------------
(* Type correctness.                                                       *)

\* The rows a call filters are no others than those it read.
LEMMA FilteredType ==
  ASSUME NEW rows \in [Log -> Nat]
  PROVE  /\ FilterLogs(rows) \in [Log -> Nat]
         /\ \A l \in Log : FilterLogs(rows)[l] <= rows[l]
  BY DEF FilterLogs

\* Blocks and the zero row have heights for numbers.
LEMMA RowNumber == \A row \in BloomRow : row.num \in Heights
  BY MaxHeightAssumption DEF BloomRow, Block, ZeroRow, Heights

\* The initial state is well typed.
LEMMA QueryTypeInit == Init => TypeInv
  BY CriteriaAssumption
     DEF Init, StoreInit, TypeInv, TypeOK, StoreTypeOK, None, Kinds, BoundsKnown

\* Settling the range keeps the state well typed.
LEMMA QueryTypeLimit ==
  ASSUME TypeInv, CheckRange
  PROVE  TypeInv'
<1> USE DEF TypeInv, TypeOK, StoreTypeOK, Querying, storeVars, histVars
<1>1. PICK n \in Heights : ReadHeight(n) /\ Limit(n)
  BY DEF CheckRange
<1>2. /\ None \in [Log -> Nat]
      /\ n \in Int
      /\ faults' \in Nat
  BY <1>1 DEF None, Heights, ReadHeight, Fault
<1>3. /\ pc = "range"
      /\ crit.hash = NoHash
      /\ from \in Int /\ to \in Int
      /\ UNCHANGED <<storeVars, crit, histVars>>
  BY DEF CheckRange, BoundsKnown
<1> DEFINE first == Resolve(from, n)
           last  == Resolve(to, n)
<1>4. first \in Int /\ last \in Int
  BY <1>2, <1>3 DEF Resolve
<1>5. CASE pc' = "done" /\ found' = None /\ reply' \in {"ok", "InvalidParams"}
           /\ UNCHANGED <<from, to, height>>
  BY <1>2, <1>3, <1>5 DEF Kinds, BoundsKnown
<1>6. CASE /\ from' = first
           /\ to' = IF last > n + MaxToOverhang THEN n + MaxToOverhang ELSE last
           /\ height' = first
           /\ pc' = "bloom"
           /\ UNCHANGED <<found, reply>>
  <2>1. to' \in Int
    BY <1>2, <1>4, <1>6, CapsAssumption
  <2> QED
    BY <1>2, <1>3, <1>4, <1>6, <2>1 DEF Kinds, BoundsKnown
<1> QED
  BY <1>1, <1>5, <1>6 DEF Limit, Reply

\* Reading the rows of a height keeps the state well typed.
LEMMA QueryTypeHeight ==
  ASSUME TypeInv, GetLogsOfHeight
  PROVE  TypeInv'
<1> USE DEF TypeInv, TypeOK, StoreTypeOK, Querying, storeVars, histVars
<1>1. PICK rows \in [Log -> 0 .. MaxRows] : ReadLogs(rows) /\ Collect(rows)
  BY DEF GetLogsOfHeight
<1>2. /\ pc = "logs" /\ crit.hash = NoHash
      /\ UNCHANGED <<storeVars, crit, from, to, histVars>>
  BY DEF GetLogsOfHeight
<1>3. rows \in [Log -> Nat]
  OBVIOUS
<1>4. /\ FilterLogs(rows) \in [Log -> Nat]
      /\ None \in [Log -> Nat]
      /\ faults' \in Nat
  BY <1>1, <1>3, FilteredType DEF None, ReadLogs, Fault
<1> DEFINE all == [l \in Log |-> found[l] + FilterLogs(rows)[l]]
<1>5. all \in [Log -> Nat]
  BY <1>4
<1> HIDE DEF all
<1>6. CASE Reply("InvalidParams", None) /\ UNCHANGED height
  BY <1>2, <1>4, <1>6 DEF Kinds, BoundsKnown, Reply
<1>7. CASE found' = all /\ height' = height + 1 /\ pc' = "bloom" /\ UNCHANGED reply
  BY <1>2, <1>4, <1>5, <1>7 DEF Kinds, BoundsKnown
<1> QED
  BY <1>1, <1>6, <1>7 DEF Collect, all

\* Reading the rows of a block keeps the state well typed.
LEMMA QueryTypeBlock ==
  ASSUME TypeInv, GetLogsOfBlock
  PROVE  TypeInv'
<1> USE DEF TypeInv, TypeOK, StoreTypeOK, storeVars, histVars
<1>1. PICK rows \in [Log -> 0 .. MaxRows] :
        ReadLogs(rows) /\ Reply("ok", FilterLogs(rows))
  BY DEF GetLogsOfBlock
<1>2. rows \in [Log -> Nat]
  OBVIOUS
<1>3. /\ FilterLogs(rows) \in [Log -> Nat]
      /\ faults' \in Nat
  BY <1>1, <1>2, FilteredType DEF ReadLogs, Fault
<1> QED
  BY <1>1, <1>3 DEF GetLogsOfBlock, Reply, Kinds, BoundsKnown, callVars

\* Looking a block up keeps the state well typed.
LEMMA QueryTypeGetBlock ==
  ASSUME TypeInv, GetBlock
  PROVE  TypeInv'
<1> USE DEF TypeInv, TypeOK, StoreTypeOK, Querying, storeVars, histVars
<1>1. PICK row \in BloomRow :
        /\ UNCHANGED faults \/ Fault
        /\ height' = row.num
        /\ \/ pc' = "logs" /\ UNCHANGED <<found, reply>>
           \/ Reply("ok", None)
  BY DEF GetBlock
<1>2. /\ None \in [Log -> Nat]
      /\ row.num \in Int
      /\ faults' \in Nat
  BY <1>1, RowNumber DEF None, Heights, Fault
<1>3. /\ pc = "hash" /\ crit.hash \in Block /\ crit.hash # NoHash
      /\ UNCHANGED <<storeVars, crit, from, to, histVars>>
  BY NamesAssumption DEF GetBlock, Kinds
<1> QED
  BY <1>1, <1>2, <1>3 DEF Reply, Kinds, BoundsKnown

\* Every step keeps the state well typed.
LEMMA QueryTypeNext == TypeInv /\ [Next]_vars => TypeInv'
<1> SUFFICES ASSUME TypeInv, [Next]_vars PROVE TypeInv'
  OBVIOUS
<1> USE DEF TypeInv, TypeOK, StoreTypeOK, storeVars, callVars, histVars, Querying,
            Kinds, BoundsKnown
<1>0. /\ None \in [Log -> Nat]
      /\ Heights \subseteq Int
  BY DEF None, Heights
<1>1. CASE Reject
  BY <1>0, <1>1 DEF Reject, Reply
<1>2. CASE Start
  BY <1>2, NamesAssumption DEF Start
<1>3. CASE QueryFails
  BY <1>0, <1>3 DEF QueryFails, Reply, Fault
<1>4. CASE GetBegin
  BY <1>0, <1>4, CriteriaAssumption DEF GetBegin, ReadHeight, Fault
<1>5. CASE GetEnd
  BY <1>0, <1>5, CriteriaAssumption DEF GetEnd, ReadHeight, Fault
<1>6. CASE CheckRange
  BY <1>6, QueryTypeLimit
<1>7. CASE Panic
  BY <1>0, <1>7 DEF Panic, Reply, ReadHeight, Fault
<1>8. CASE NoBloom
  BY <1>0, <1>8 DEF NoBloom, Reply, ReadBloom, Fault
<1>9. CASE BloomRulesOut
  BY <1>9 DEF BloomRulesOut
<1>10. CASE BloomPasses
  BY <1>10 DEF BloomPasses
<1>11. CASE GetLogsOfHeight
  BY <1>11, QueryTypeHeight
<1>12. CASE RangeDone
  BY <1>12 DEF RangeDone, Reply
<1>13. CASE GetBlock
  BY <1>13, QueryTypeGetBlock
<1>14. CASE GetLogsOfBlock
  BY <1>14, QueryTypeBlock
<1>15. CASE Writer
  BY <1>15 DEF Writer, InsertBloom, InsertLog
<1>16. CASE UNCHANGED vars
  BY <1>16 DEF vars
<1> QED
  BY <1>1, <1>2, <1>3, <1>4, <1>5, <1>6, <1>7, <1>8, <1>9, <1>10, <1>11,
     <1>12, <1>13, <1>14, <1>15, <1>16 DEF Next, Query

\* Type correctness of a call of eth_getLogs; in particular a call for a range
\* has both its bounds wherever Logs reads them.
THEOREM QueryTypeCorrect == Spec => [](TypeOK /\ BoundsKnown)
<1>1. TypeInv => TypeOK /\ BoundsKnown
  BY DEF TypeInv
<1> QED
  BY <1>1, QueryTypeInit, QueryTypeNext, PTL DEF Spec

-----------------------------------------------------------------------------
(* What a reply lists.  ReplySound speaks of replies only; the invariant   *)
(* says for every place in the code what the call has collected and why it *)
(* looks at the height it looks at.                                        *)

\* Rows are only ever inserted.
Grows == \A row \in BloomRow : blooms0[row] <= block_bloom[row]

\* Where a range begins that is not yet resolved.
Lower(first) ==
  /\ crit.from # NoBound => first = crit.from
  /\ crit.from = NoBound /\ faults = 0 =>
       \A row \in BloomRow : blooms0[row] > 0 => row.num <= first

\* The heights a call reads are heights it was asked for.
Asked ==
  /\ crit.hash = NoHash =>
       /\ pc \in {"end", "range"} => Lower(from)
       /\ pc = "range" /\ crit.to # NoBound => to = crit.to
       /\ pc \in {"bloom", "logs"} =>
            from <= height /\ \A h \in Int : from <= h /\ h <= to => InScope(h)
       /\ pc = "logs" => height <= to /\ BloomStored(height)
  /\ crit.hash # NoHash /\ pc = "logs" => height \in {0, crit.hash.num}

\* What has been collected of a log is sound.
Sound(l) ==
  /\ found[l] <= logs[l]
  /\ found[l] > 0 =>
       /\ Matches(l)
       /\ crit.hash = NoHash => InScope(l.num) /\ BloomStored(l.num)
       /\ crit.hash # NoHash => l.num \in {0, crit.hash.num}

Collected ==
  /\ \A l \in Log : Sound(l)
  /\ pc \in {"bloom", "logs"} /\ crit.hash = NoHash =>
       \A l \in Log : found[l] > 0 => l.num < height
  /\ pc # "done" /\ ~(pc \in {"bloom", "logs"} /\ crit.hash = NoHash) => found = None

QueryInv == TypeInv /\ Grows /\ Asked /\ Collected

\* A log that passes the filter matches the criteria: a position of the topics
\* that names any names none that is empty.
LEMMA PassesMatches ==
  ASSUME NEW l \in Log, TypeOK, Passes(l)
  PROVE  Matches(l)
<1>1. /\ crit.topics \in Seq(SUBSET Topic)
      /\ l.topics \in Seq(Topic)
  BY CriteriaAssumption, TopicsAssumption DEF TypeOK
<1>2. crit.addresses = {} \/ l.address \in crit.addresses
  BY DEF Passes
<1>3. ASSUME NEW n \in DOMAIN crit.topics, crit.topics[n] # {}
      PROVE  n <= Len(l.topics) /\ l.topics[n] \in crit.topics[n]
  <2>1. /\ n \in Nat /\ 1 <= n /\ n <= Len(crit.topics)
        /\ crit.topics[n] \subseteq Topic
    BY <1>1, <1>3
  <2>2. /\ SplitTopics(l)[n] \in crit.topics[n]
        /\ Len(crit.topics) <= Len(SplitTopics(l))
    BY <1>3 DEF Passes
  <2>3. CASE l.topics = <<>>
    <3>1. Len(SplitTopics(l)) = 1 /\ SplitTopics(l)[1] = ""
      BY <2>3 DEF SplitTopics
    <3>2. n = 1
      <4>1. Len(crit.topics) \in Nat
        BY <1>1
      <4>2. n \in Nat /\ 1 <= n /\ n <= Len(crit.topics)
        BY <2>1
      <4>3. Len(crit.topics) <= 1
        BY <2>2, <3>1
      <4> QED
        BY <4>1, <4>2, <4>3
    <3>3. "" \in Topic
      BY <2>1, <2>2, <3>1, <3>2
    <3> QED
      BY <3>3 DEF Topic
  <2>4. CASE l.topics # <<>>
    BY <1>1, <2>1, <2>2, <2>4 DEF SplitTopics
  <2> QED
    BY <2>3, <2>4
<1> QED
  BY <1>2, <1>3 DEF Matches

\* What is in scope, matches or has a bloom stays so while the tables grow and
\* errors are only added.
LEMMA Stable ==
  ASSUME TypeInv, TypeInv', UNCHANGED <<crit, blooms0>>, faults <= faults',
         \A row \in BloomRow : block_bloom[row] <= block_bloom'[row],
         \A l \in Log : logs[l] <= logs'[l]
  PROVE  /\ \A h \in Int : InScope(h) => InScope(h)'
         /\ \A h \in Int : BloomStored(h) => BloomStored(h)'
         /\ \A l \in Log : Matches(l) => Matches(l)'
         /\ \A first \in Int : Lower(first) => Lower(first)'
         /\ Grows => Grows'
<1>1. faults' = 0 => faults = 0
  BY DEF TypeInv, TypeOK
<1>2. \A row \in BloomRow : block_bloom[row] \in Nat /\ block_bloom'[row] \in Nat
                             /\ blooms0[row] \in Nat
  BY DEF TypeInv, TypeOK, StoreTypeOK
<1>3. \A h \in Int : InScope(h) => InScope(h)'
  BY <1>1 DEF InScope, Given
<1>4. \A h \in Int : BloomStored(h) => BloomStored(h)'
  BY <1>2 DEF BloomStored, BloomRowsAt, HasBloom
<1>5. \A l \in Log : Matches(l) => Matches(l)'
  BY DEF Matches
<1>6. \A first \in Int : Lower(first) => Lower(first)'
  BY <1>1 DEF Lower
<1>7. Grows => Grows'
  BY <1>2 DEF Grows
<1> QED
  BY <1>3, <1>4, <1>5, <1>6, <1>7

\* What was collected stays sound.
LEMMA SoundStable ==
  ASSUME TypeInv, TypeInv', UNCHANGED <<crit, blooms0>>, faults <= faults',
         \A row \in BloomRow : block_bloom[row] <= block_bloom'[row],
         \A l \in Log : logs[l] <= logs'[l],
         NEW l \in Log, Sound(l), found'[l] = found[l] \/ found'[l] = 0
  PROVE  Sound(l)'
<1>1. /\ found[l] \in Nat /\ logs[l] \in Nat /\ logs'[l] \in Nat
      /\ l.num \in Int
  BY LogAssumption DEF TypeInv, TypeOK, StoreTypeOK, Heights
<1>2. /\ Matches(l) => Matches(l)'
      /\ InScope(l.num) => InScope(l.num)'
      /\ BloomStored(l.num) => BloomStored(l.num)'
  BY <1>1, Stable
<1> QED
  BY <1>1, <1>2 DEF Sound

\* The initial state satisfies the invariant.
LEMMA QueryInvInit == Init => QueryInv
<1> SUFFICES ASSUME Init PROVE QueryInv
  OBVIOUS
<1>1. TypeInv
  BY QueryTypeInit
<1>2. /\ pc = "idle"
      /\ found = None
      /\ blooms0 = block_bloom
  BY DEF Init
<1>3. Grows
  BY <1>1, <1>2 DEF Grows, TypeInv, TypeOK, StoreTypeOK
<1>4. Asked
  BY <1>2 DEF Asked
<1>5. Collected
  BY <1>1, <1>2 DEF Collected, Sound, None, TypeInv, TypeOK, StoreTypeOK
<1> QED
  BY <1>1, <1>3, <1>4, <1>5 DEF QueryInv

\* A step of the call, once it has started, leaves the tables as they are,
\* and what it was asked for; what it had collected stays sound.
LEMMA CallStep ==
  ASSUME QueryInv, TypeInv', Query
  PROVE  /\ UNCHANGED <<storeVars, crit, histVars>>
         /\ faults <= faults'
         /\ Grows'
         /\ \A h \in Int : InScope(h) => InScope(h)'
         /\ \A h \in Int : BloomStored(h) => BloomStored(h)'
         /\ \A l \in Log : Matches(l) => Matches(l)'
         /\ \A first \in Int : Lower(first) => Lower(first)'
         /\ \A l \in Log : found'[l] = found[l] \/ found'[l] = 0 => Sound(l)'
<1> USE DEF storeVars, histVars, callVars
<1>1. UNCHANGED <<storeVars, crit, histVars>>
  BY DEF Query, QueryFails, GetBegin, GetEnd, CheckRange, Panic, NoBloom,
         BloomRulesOut, BloomPasses, GetLogsOfHeight, RangeDone, GetBlock,
         GetLogsOfBlock
<1>2. faults' = faults \/ faults' = faults + 1
  BY DEF Query, QueryFails, GetBegin, GetEnd, CheckRange, Panic, NoBloom,
         BloomRulesOut, BloomPasses, GetLogsOfHeight, RangeDone, GetBlock,
         GetLogsOfBlock, ReadHeight, ReadBloom, ReadLogs, Fault
<1>3. /\ faults <= faults'
      /\ \A row \in BloomRow : block_bloom[row] <= block_bloom'[row]
      /\ \A l \in Log : logs[l] <= logs'[l]
  BY <1>1, <1>2 DEF QueryInv, TypeInv, TypeOK, StoreTypeOK
<1>4. \A l \in Log : found'[l] = found[l] \/ found'[l] = 0 => Sound(l)'
  BY <1>1, <1>3, SoundStable DEF QueryInv, Collected
<1> QED
  BY <1>1, <1>3, <1>4, Stable DEF QueryInv

\* A reply of nothing is sound.
LEMMA NothingSound ==
  ASSUME QueryInv, TypeInv', Query, pc' = "done", found' = None
  PROVE  Asked' /\ Collected'
<1>1. \A l \in Log : Sound(l)'
  BY CallStep DEF None
<1> QED
  BY <1>1 DEF Asked, Collected

\* The first block of the range is settled.
LEMMA BeginAsked ==
  ASSUME QueryInv, TypeInv', GetBegin
  PROVE  Asked' /\ Collected'
<1>1. PICK n \in Heights :
        ReadHeight(n) /\ from' = IF crit.from = NoBound THEN n ELSE crit.from
  BY DEF GetBegin
<1>2. /\ pc = "begin" /\ pc' = "end" /\ crit.hash = NoHash
      /\ UNCHANGED <<crit, found, blooms0, block_bloom>>
  BY DEF GetBegin, QueryInv, TypeInv, Kinds, storeVars, histVars
<1>3. ASSUME crit.from = NoBound, faults' = 0,
             NEW row \in BloomRow, blooms0[row] > 0
      PROVE  row.num <= n
  <2>1. n \in GetBlockHeight
    BY <1>1, <1>3 DEF ReadHeight, Fault, QueryInv, TypeInv, TypeOK
  <2>2. block_bloom[row] > 0
    BY <1>3 DEF QueryInv, Grows, TypeInv, TypeOK, StoreTypeOK
  <2> QED
    BY <2>1, <2>2 DEF GetBlockHeight
<1>4. Lower(from)'
  BY <1>1, <1>2, <1>3 DEF Lower
<1>5. Asked'
  BY <1>2, <1>4 DEF Asked
<1>6. Collected'
  BY <1>2, CallStep DEF Query, Collected, QueryInv, None
<1> QED
  BY <1>5, <1>6

\* The last block of the range is settled.
LEMMA EndAsked ==
  ASSUME QueryInv, TypeInv', GetEnd
  PROVE  Asked' /\ Collected'
<1>1. /\ pc = "end" /\ pc' = "range" /\ crit.hash = NoHash
      /\ UNCHANGED <<crit, found, from>>
      /\ crit.to # NoBound => to' = crit.to
      /\ from \in Int
  BY DEF GetEnd, QueryInv, TypeInv, Kinds, BoundsKnown
<1>2. Lower(from)'
  BY <1>1, CallStep DEF Query, QueryInv, Asked, Lower
<1>3. Asked'
  BY <1>1, <1>2 DEF Asked
<1>4. Collected'
  BY <1>1, CallStep DEF Query, Collected, QueryInv, None
<1> QED
  BY <1>3, <1>4

\* The range resolved lies within what was asked for.
LEMMA RangeAsked ==
  ASSUME QueryInv, TypeInv', CheckRange
  PROVE  Asked' /\ Collected'
<1>1. PICK n \in Heights : ReadHeight(n) /\ Limit(n)
  BY DEF CheckRange
<1>2. /\ pc = "range" /\ crit.hash = NoHash
      /\ UNCHANGED <<crit, blooms0, block_bloom>>
      /\ from \in Int /\ to \in Int /\ n \in Int
      /\ crit.from \in Int \union {NoBound} /\ crit.to \in Int \union {NoBound}
      /\ Lower(from)
      /\ crit.to # NoBound => to = crit.to
      /\ found = None
  BY CriteriaAssumption DEF CheckRange, QueryInv, TypeInv, TypeOK, BoundsKnown, Heights,
     Asked, Collected, storeVars, histVars
<1> DEFINE first == Resolve(from, n)
           last  == Resolve(to, n)
<1>3. CASE pc' = "done" /\ found' = None
  BY <1>3, NothingSound DEF Query
<1>4. CASE /\ from' = first
           /\ to' = IF last > n + MaxToOverhang THEN n + MaxToOverhang ELSE last
           /\ height' = first
           /\ pc' = "bloom"
           /\ UNCHANGED found
  <2>1. first \in Int /\ last \in Int /\ to' <= last
    BY <1>2, <1>4, CapsAssumption DEF Resolve
  <2>2. ASSUME NEW h \in Int, from' <= h, h <= to'
        PROVE  InScope(h)'
    <3>1. first <= h /\ h <= last
      BY <1>4, <2>1, <2>2 DEF TypeInv, TypeOK
    <3>2. Given(crit.from) => crit.from <= h
      BY <1>2, <3>1 DEF Given, Lower, Resolve
    <3>3. /\ Given(crit.to) => h <= crit.to
          /\ crit.to # NoBound /\ crit.to = 0 => h <= 1
      BY <1>2, <3>1 DEF Given, Resolve
    <3>4. ASSUME crit.from = NoBound \/ crit.from < 0, faults' = 0,
                 NEW row \in BloomRow, blooms0[row] > 0
          PROVE  row.num <= h
      <4>1. n \in GetBlockHeight /\ faults = 0
        BY <1>1, <3>4 DEF ReadHeight, Fault, QueryInv, TypeInv, TypeOK
      <4>2. block_bloom[row] > 0
        BY <3>4 DEF QueryInv, Grows, TypeInv, TypeOK, StoreTypeOK
      <4>3. row.num <= n /\ row.num \in Int
        BY <4>1, <4>2, RowNumber DEF GetBlockHeight, Heights
      <4>4. CASE from < 0
        BY <1>2, <3>1, <4>3, <4>4 DEF Resolve
      <4>5. CASE ~(from < 0)
        <5>1. crit.from = NoBound
          BY <1>2, <3>4, <4>5 DEF Lower
        <5>2. row.num <= from
          BY <1>2, <3>4, <4>1, <5>1 DEF Lower
        <5> QED
          BY <1>2, <3>1, <4>3, <4>5, <5>2 DEF Resolve
      <4> QED
        BY <4>4, <4>5
    <3> QED
      BY <1>2, <3>2, <3>3, <3>4 DEF InScope, Given
  <2>3. Asked'
    BY <1>2, <1>4, <2>1, <2>2 DEF Asked
  <2>4. Collected'
    BY <1>2, <1>4, CallStep DEF Query, Collected, None
  <2> QED
    BY <2>3, <2>4
<1> QED
  BY <1>1, <1>3, <1>4 DEF Limit, Reply

\* The turn of a height that the bloom rules out, or does not.
LEMMA BloomAsked ==
  ASSUME QueryInv, TypeInv', BloomRulesOut \/ BloomPasses
  PROVE  Asked' /\ Collected'
<1>1. /\ pc = "bloom" /\ crit.hash = NoHash
      /\ UNCHANGED <<crit, from, to, found>>
      /\ from \in Int /\ to \in Int /\ height \in Int /\ height <= to
      /\ from <= height
      /\ \A h \in Int : from <= h /\ h <= to => InScope(h)
      /\ \A l \in Log : found[l] > 0 => l.num < height
  BY DEF BloomRulesOut, BloomPasses, More, QueryInv, TypeInv, TypeOK, Kinds,
     BoundsKnown, Asked, Collected, callVars
<1>2. \/ pc' = "bloom" /\ height' = height + 1
      \/ pc' = "logs" /\ height' = height
  BY <1>1 DEF BloomRulesOut, BloomPasses, callVars
<1>3. \A h \in Int : from' <= h /\ h <= to' => InScope(h)'
  BY <1>1, CallStep DEF Query
<1>4. pc' = "logs" => BloomStored(height)'
  <2> SUFFICES ASSUME pc' = "logs" PROVE BloomStored(height)'
    OBVIOUS
  <2>1. PICK row \in GetBloomByBlockNumber(height) : HasBloom(row)
    BY <1>1 DEF BloomPasses, BloomRulesOut
  <2>2. ~HasBloom(ZeroRow)
    BY MaxReorgsAssumption DEF HasBloom, ZeroRow, Forks
  <2>3. row \in BloomRowsAt(height)
    BY <2>1, <2>2 DEF GetBloomByBlockNumber
  <2>4. BloomStored(height)
    BY <2>1, <2>3 DEF BloomStored
  <2>5. height' = height
    BY <1>1, <1>2
  <2> QED
    BY <1>1, <2>4, <2>5, CallStep DEF Query
<1>5. Asked'
  BY <1>1, <1>2, <1>3, <1>4 DEF Asked
<1>6. \A l \in Log : l.num \in Int
  BY LogAssumption DEF Heights
<1>7. Collected'
  BY <1>1, <1>2, <1>6, CallStep DEF Query, Collected
<1> QED
  BY <1>5, <1>7

\* The logs of a height join those found: none of them is of that height.
LEMMA HeightAsked ==
  ASSUME QueryInv, TypeInv', GetLogsOfHeight
  PROVE  Asked' /\ Collected'
<1>1. PICK rows \in [Log -> 0 .. MaxRows] : ReadLogs(rows) /\ Collect(rows)
  BY DEF GetLogsOfHeight
<1>2. /\ pc = "logs" /\ crit.hash = NoHash
      /\ UNCHANGED <<logs, crit, from, to>>
      /\ from \in Int /\ to \in Int /\ height \in Int /\ height <= to
      /\ from <= height /\ BloomStored(height)
      /\ \A h \in Int : from <= h /\ h <= to => InScope(h)
      /\ \A l \in Log : found[l] > 0 => l.num < height
  BY DEF GetLogsOfHeight, QueryInv, TypeInv, TypeOK, BoundsKnown, Asked, Collected,
     storeVars
<1>3. CASE Reply("InvalidParams", None)
  BY <1>3, NothingSound DEF Reply, Query
<1>4. CASE /\ found' = [l \in Log |-> found[l] + FilterLogs(rows)[l]]
           /\ height' = height + 1
           /\ pc' = "bloom"
  <2>1. \A h \in Int : from' <= h /\ h <= to' => InScope(h)'
    BY <1>2, CallStep DEF Query
  <2>2. Asked'
    BY <1>2, <1>4, <2>1 DEF Asked
  <2>3. ASSUME NEW l \in Log
        PROVE  Sound(l)' /\ (found'[l] > 0 => l.num < height')
    <3>1. /\ rows[l] \in Nat /\ found[l] \in Nat /\ logs[l] \in Nat /\ l.num \in Int
          /\ rows[l] <= GetLogsByBlockNumber(height)[l]
      <4>1. /\ rows[l] \in Nat /\ found[l] \in Nat /\ logs[l] \in Nat /\ l.num \in Int
        BY LogAssumption DEF QueryInv, TypeInv, TypeOK, StoreTypeOK, Heights
      <4> QED
        BY <1>1, <4>1 DEF ReadLogs
    <3>2. found'[l] = found[l] + IF Passes(l) THEN rows[l] ELSE 0
      BY <1>4 DEF FilterLogs
    <3>3. CASE Passes(l) /\ rows[l] > 0
      <4>1. l.num = height /\ rows[l] <= logs[l]
        BY <3>1, <3>3 DEF GetLogsByBlockNumber
      <4>2. found[l] = 0
        BY <1>2, <3>1, <4>1
      <4>3. found'[l] <= logs'[l]
        BY <1>2, <3>1, <3>2, <3>3, <4>1, <4>2
      <4>4. Matches(l)'
        BY <3>3, PassesMatches, CallStep DEF Query, QueryInv, TypeInv
      <4>5. InScope(l.num)' /\ BloomStored(l.num)'
        BY <1>2, <3>1, <4>1, CallStep DEF Query
      <4> QED
        BY <1>2, <1>4, <4>1, <4>3, <4>4, <4>5 DEF Sound
    <3>4. CASE ~(Passes(l) /\ rows[l] > 0)
      <4>1. found'[l] = found[l]
        BY <3>1, <3>2, <3>4
      <4> QED
        BY <1>2, <1>4, <3>1, <4>1, CallStep DEF Query
    <3> QED
      BY <3>3, <3>4
  <2>4. Collected'
    BY <1>2, <1>4, <2>3 DEF Collected
  <2> QED
    BY <2>2, <2>4
<1> QED
  BY <1>1, <1>3, <1>4 DEF Collect

\* The number of a block looked up by hash is its own, or 0.
LEMMA GetBlockAsked ==
  ASSUME QueryInv, TypeInv', GetBlock
  PROVE  Asked' /\ Collected'
<1>1. PICK row \in BloomRow :
        /\ row = GetBlockNumAndBloomByBlockHash(crit.hash) \/ row = ZeroRow
        /\ height' = row.num
        /\ \/ pc' = "logs" /\ UNCHANGED found
           \/ Reply("ok", None)
  BY DEF GetBlock
<1>2. /\ pc = "hash" /\ crit.hash # NoHash /\ crit'.hash = crit.hash
      /\ found = None
  BY NamesAssumption DEF GetBlock, QueryInv, TypeInv, Kinds, Collected
<1>3. height' \in {0, crit.hash.num}
  BY <1>1 DEF GetBlockNumAndBloomByBlockHash, ZeroRow
<1>4. CASE pc' = "logs" /\ UNCHANGED found
  BY <1>2, <1>3, <1>4, CallStep DEF Query, Asked, Collected
<1>5. CASE Reply("ok", None)
  BY <1>5, NothingSound DEF Query, Reply
<1> QED
  BY <1>1, <1>4, <1>5

\* The reply to a call by hash lists rows of the number of its block.
LEMMA BlockAsked ==
  ASSUME QueryInv, TypeInv', GetLogsOfBlock
  PROVE  Asked' /\ Collected'
<1>1. PICK rows \in [Log -> 0 .. MaxRows] :
        ReadLogs(rows) /\ Reply("ok", FilterLogs(rows))
  BY DEF GetLogsOfBlock
<1>2. /\ pc = "logs" /\ pc' = "done" /\ crit.hash # NoHash
      /\ UNCHANGED <<logs, crit>>
      /\ height \in {0, crit.hash.num} /\ height \in Int
  BY <1>1 DEF GetLogsOfBlock, QueryInv, TypeInv, TypeOK, Asked, Reply, storeVars,
     callVars
<1>3. ASSUME NEW l \in Log PROVE Sound(l)'
  <2>1. /\ rows[l] \in Nat /\ logs[l] \in Nat /\ l.num \in Int
    BY LogAssumption DEF QueryInv, TypeInv, TypeOK, StoreTypeOK, Heights
  <2>2. rows[l] <= GetLogsByBlockNumber(height)[l]
    BY <1>1, <2>1 DEF ReadLogs, GetLogsByBlockNumber
  <2>3. found'[l] = IF Passes(l) THEN rows[l] ELSE 0
    BY <1>1 DEF Reply, FilterLogs
  <2>4. CASE Passes(l) /\ rows[l] > 0
    <3>1. l.num = height /\ rows[l] <= logs[l]
      BY <2>1, <2>2, <2>4 DEF GetLogsByBlockNumber
    <3>2. Matches(l)'
      BY <2>4, PassesMatches, CallStep DEF Query, QueryInv, TypeInv
    <3> QED
      BY <1>2, <2>3, <2>4, <3>1, <3>2 DEF Sound
  <2>5. CASE ~(Passes(l) /\ rows[l] > 0)
    BY <2>1, <2>3, <2>5, CallStep DEF Query
  <2> QED
    BY <2>4, <2>5
<1> QED
  BY <1>2, <1>3 DEF Asked, Collected

\* Every step keeps the invariant.
LEMMA QueryInvNext == QueryInv /\ [Next]_vars => QueryInv'
<1> SUFFICES ASSUME QueryInv, [Next]_vars PROVE QueryInv'
  OBVIOUS
<1>0. TypeInv /\ TypeInv'
  BY QueryTypeNext DEF QueryInv
<1>1. CASE Reject
  <2>1. /\ pc = "idle" /\ pc' = "done" /\ found' = None
        /\ UNCHANGED <<logs, block_bloom, blooms0, crit>>
        /\ found = None
    BY <1>1 DEF Reject, Reply, storeVars, callVars, histVars, QueryInv, Collected
  <2>2. Grows' /\ Asked'
    BY <2>1 DEF Grows, Asked, QueryInv
  <2>3. Collected'
    BY <1>0, <2>1 DEF Collected, Sound, None, TypeInv, TypeOK, StoreTypeOK
  <2> QED
    BY <1>0, <2>2, <2>3 DEF QueryInv
<1>2. CASE Start
  <2>1. /\ pc = "idle" /\ pc' \in {"begin", "range", "hash"} /\ found' = None
        /\ UNCHANGED <<logs, block_bloom, crit>>
        /\ blooms0' = block_bloom
        /\ pc' = "range" => crit.hash # NoHash
    BY <1>2, NamesAssumption
       DEF Start, storeVars, callVars, QueryInv, Collected
  <2>2. Grows'
    BY <1>0, <2>1 DEF Grows, TypeInv, TypeOK, StoreTypeOK
  <2>3. Asked'
    BY <2>1 DEF Asked
  <2>4. Collected'
    BY <1>0, <2>1 DEF Collected, Sound, None, TypeInv, TypeOK, StoreTypeOK
  <2> QED
    BY <1>0, <2>2, <2>3, <2>4 DEF QueryInv
<1>3. CASE Query
  <2>1. Asked' /\ Collected'
    <3>1. CASE QueryFails \/ NoBloom
      BY <1>0, <1>3, <3>1, NothingSound DEF QueryFails, NoBloom, Reply
    <3>2. CASE Panic
      BY <1>0, <1>3, <3>2, NothingSound DEF Panic, Reply
    <3>3. CASE RangeDone
      BY <1>0, <1>3, <3>3, CallStep DEF RangeDone, Reply, Asked, Collected
    <3> QED
      BY <1>0, <1>3, <3>1, <3>2, <3>3, BeginAsked, EndAsked, RangeAsked, BloomAsked,
         HeightAsked, GetBlockAsked, BlockAsked DEF Query
  <2> QED
    BY <1>0, <1>3, <2>1, CallStep DEF QueryInv
<1>4. CASE Writer
  <2>1. /\ UNCHANGED <<pc, crit, from, to, height, found, faults, blooms0>>
        /\ \A row \in BloomRow : block_bloom[row] <= block_bloom'[row]
        /\ \A l \in Log : logs[l] <= logs'[l]
    BY <1>0, <1>4 DEF Writer, InsertBloom, InsertLog, callVars, histVars, TypeInv,
       TypeOK, StoreTypeOK
  <2>2. faults <= faults'
    BY <1>0, <2>1 DEF TypeInv, TypeOK
  <2>3. /\ \A h \in Int : InScope(h) => InScope(h)'
        /\ \A h \in Int : BloomStored(h) => BloomStored(h)'
        /\ \A first \in Int : Lower(first) => Lower(first)'
        /\ Grows'
    BY <1>0, <2>1, <2>2, Stable DEF QueryInv
  <2>4. \A l \in Log : Sound(l)'
    BY <1>0, <2>1, <2>2, SoundStable DEF QueryInv, Collected
  <2>5. Asked'
    BY <1>0, <2>1, <2>3 DEF QueryInv, Asked, TypeInv, TypeOK, BoundsKnown
  <2>6. Collected'
    BY <2>1, <2>4 DEF QueryInv, Collected
  <2> QED
    BY <1>0, <2>3, <2>5, <2>6 DEF QueryInv
<1>5. CASE UNCHANGED vars
  <2>1. UNCHANGED <<pc, crit, from, to, height, found, faults, blooms0, block_bloom, logs>>
    BY <1>5 DEF vars, storeVars, callVars, histVars
  <2> QED
    BY <1>0, <2>1 DEF QueryInv, Grows, Asked, Collected, Sound, Lower, InScope, Given,
       BloomStored, BloomRowsAt, HasBloom, Matches
<1> QED
  BY <1>1, <1>2, <1>3, <1>4, <1>5 DEF Next

\* Whatever is inserted while a call runs, and whichever query fails: what
\* eth_getLogs replies is stored, matches, lies in the range that was asked for
\* and belongs to a height with a bloom.
THEOREM QueryReplySound == Spec => []ReplySound
<1>1. QueryInv => ReplySound
  BY DEF QueryInv, Collected, Sound, ReplySound
<1> QED
  BY <1>1, QueryInvInit, QueryInvNext, PTL DEF Spec

-----------------------------------------------------------------------------
(* What a reply leaves out, and what a refusal is for.                     *)

\* A call that has not come to its end has replied nothing.
Replied == reply = "none" <=> pc # "done"

\* Logs are only ever inserted.
LogsGrow == \A l \in Log : logs0[l] <= logs[l]

\* A wildcard call for a range has everything of the heights behind it.
CompleteSoFar ==
  pc \in {"bloom", "logs"} /\ crit.hash = NoHash /\ Wildcard /\ faults = 0 =>
    \A l \in Log : from <= l.num /\ l.num < height /\ LongEnough(l) => found[l] >= logs0[l]

\* The bounds were given, and all heights between them had a bloom at the start.
Mirrored ==
  /\ Given(crit.from) /\ Given(crit.to) /\ crit.from <= crit.to /\ faults = 0
  /\ \A h \in crit.from .. crit.to : BloomStored0(h)

\* Such bounds are those the heights are taken from: neither is cut off.
BoundsKept ==
  pc \in {"bloom", "logs"} /\ Mirrored => from = crit.from /\ to = crit.to

Answers ==
  /\ Replied
  /\ CompleteSoFar
  /\ BoundsKept
  /\ CompleteOrEmpty
  /\ MirroredRangeAnswered
  /\ OnlyLimitsRefuse

AnswerInv == QueryInv /\ LogsGrow /\ Answers

\* The size of a set of rows is the sum of its copies.
LEMMA SizeIsSum ==
  ASSUME NEW rows
  PROVE  Size(rows) = Sum(rows, Log)
  BY DEF Size, MapThenSumSet, MapThenFoldSet, Sum, Folding, Pick

\* More copies make a greater size.
LEMMA SizeMonotone ==
  ASSUME NEW f, NEW g, \A l \in Log : f[l] \in Nat /\ g[l] \in Nat /\ f[l] <= g[l]
  PROVE  Size(f) \in Nat /\ Size(g) \in Nat /\ Size(f) <= Size(g)
<1>1. Sum(f, Log) \in Nat /\ Sum(g, Log) \in Nat /\ Sum(f, Log) <= Sum(g, Log)
  BY LogsAssumption, SumType, SumMonotone
<1> QED
  BY <1>1, SizeIsSum

\* The rows a refusal for their number counts at most.
Wanted == [l \in Log |-> IF InScope(l.num) /\ Matches(l) THEN logs[l] ELSE 0]

\* The size of the rows wanted after a step.
LEMMA WantedNext == Size(Wanted)' = Size(Wanted')
<1>1. Size(Wanted)' = Sum(Wanted', Log)
  BY DEF Size, MapThenSumSet, MapThenFoldSet, Sum, Folding, Pick
<1> QED
  BY <1>1, SizeIsSum

\* Whatever a wildcard filter is given, it lets pass, if the log has a topic
\* for each position.
LEMMA WildcardPasses ==
  ASSUME Wildcard
  PROVE  /\ \A bloom : BloomFilter(bloom)
         /\ \A l \in Log : LongEnough(l) => Passes(l)
  BY DEF Wildcard, BloomFilter, LongEnough, Passes

\* The initial state satisfies the invariant.
LEMMA AnswerInvInit == Init => AnswerInv
<1> SUFFICES ASSUME Init PROVE AnswerInv
  OBVIOUS
<1>1. QueryInv
  BY QueryInvInit
<1>2. pc = "idle" /\ reply = "none" /\ logs0 = logs
  BY DEF Init
<1>3. LogsGrow
  BY <1>1, <1>2 DEF LogsGrow, QueryInv, TypeInv, TypeOK, StoreTypeOK
<1> QED
  BY <1>1, <1>2, <1>3 DEF Answers, AnswerInv, Replied, CompleteSoFar, BoundsKept,
     CompleteOrEmpty, MirroredRangeAnswered, OnlyLimitsRefuse

\* While the call has not replied, nothing is said of its reply.
LEMMA NothingSaid ==
  reply = "none" => CompleteOrEmpty /\ MirroredRangeAnswered /\ OnlyLimitsRefuse
  BY DEF CompleteOrEmpty, MirroredRangeAnswered, OnlyLimitsRefuse

\* No step of the call changes what was stored at its start, and a call by
\* hash has no bounds.
LEMMA AnswerStep ==
  ASSUME AnswerInv, TypeInv', Query
  PROVE  /\ reply = "none" /\ pc # "done"
         /\ UNCHANGED <<storeVars, crit, histVars>>
         /\ LogsGrow'
         /\ faults' = 0 => faults = 0
         /\ Given(crit.from) => crit.hash = NoHash
<1>1. pc # "done"
  BY DEF Query, QueryFails, GetBegin, GetEnd, CheckRange, Panic, NoBloom,
         BloomRulesOut, BloomPasses, GetLogsOfHeight, RangeDone, GetBlock,
         GetLogsOfBlock, Querying
<1>2. UNCHANGED <<storeVars, crit, histVars>> /\ faults <= faults'
  BY CallStep DEF AnswerInv
<1>3. LogsGrow'
  BY <1>2 DEF AnswerInv, LogsGrow, storeVars, histVars
<1>4. faults' = 0 => faults = 0
  BY <1>2 DEF AnswerInv, QueryInv, TypeInv, TypeOK
<1>5. Given(crit.from) => crit.hash = NoHash
  BY CriteriaAssumption DEF AnswerInv, QueryInv, TypeInv, TypeOK, Given
<1> QED
  BY <1>1, <1>2, <1>3, <1>4, <1>5 DEF Answers, AnswerInv, Replied

\* The bounds of the range, once they are resolved.
LEMMA RangeAnswers ==
  ASSUME AnswerInv, TypeInv', CheckRange
  PROVE  Answers'
<1>1. PICK n \in Heights : ReadHeight(n) /\ Limit(n)
  BY DEF CheckRange
<1>2. /\ pc = "range" /\ crit.hash = NoHash
      /\ UNCHANGED <<crit, blooms0, logs0, block_bloom>>
      /\ from \in Int /\ to \in Int /\ n \in Int
      /\ crit.from \in Int \union {NoBound} /\ crit.to \in Int \union {NoBound}
      /\ crit.from # NoBound => from = crit.from
      /\ crit.to # NoBound => to = crit.to
      /\ reply = "none" /\ found = None
      /\ faults' = 0 => faults = 0
  BY CriteriaAssumption, AnswerStep
     DEF Query, CheckRange, AnswerInv, QueryInv, TypeInv, TypeOK, BoundsKnown, Heights,
     Asked, Lower, Collected, storeVars, histVars
<1> DEFINE first == Resolve(from, n)
           last  == Resolve(to, n)
<1>3. /\ Given(crit.from) => first = crit.from
      /\ Given(crit.to) => last = crit.to
  BY <1>2 DEF Given, Resolve
<1>4. ASSUME Mirrored'
      PROVE  crit.to <= n /\ crit.to \in Int /\ crit.from \in Int
  <2>1. /\ crit.from \in Int /\ crit.to \in Int /\ crit.from <= crit.to
        /\ faults' = 0 /\ \A h \in crit.from .. crit.to : BloomStored0(h)
    BY <1>2, <1>4 DEF Mirrored, Given, BloomStored0
  <2>2. PICK row \in BloomRow : row.num = crit.to /\ blooms0[row] > 0
    BY <2>1 DEF BloomStored0
  <2>3. block_bloom[row] > 0
    BY <2>2 DEF AnswerInv, QueryInv, Grows, TypeInv, TypeOK, StoreTypeOK
  <2>4. n \in GetBlockHeight
    BY <1>1, <2>1 DEF ReadHeight, Fault, AnswerInv, QueryInv, TypeInv, TypeOK
  <2> QED
    BY <2>1, <2>2, <2>3, <2>4 DEF GetBlockHeight
<1>5. CASE /\ TooLong(first, last)
           /\ Reply("InvalidParams", None)
  <2>1. pc' = "done" /\ reply' = "InvalidParams"
    BY <1>5 DEF Reply
  <2>2. OnlyLimitsRefuse'
    BY <1>2, <1>3, <1>5 DEF OnlyLimitsRefuse, TooLong, Given
  <2> QED
    BY <2>1, <2>2 DEF Answers, Replied, CompleteSoFar, BoundsKept, CompleteOrEmpty,
       MirroredRangeAnswered
<1>6. CASE /\ first > n
           /\ Reply("ok", None)
  <2>1. pc' = "done" /\ reply' = "ok" /\ found' = None
    BY <1>6 DEF Reply
  <2>2. ~Mirrored'
    BY <1>2, <1>3, <1>4, <1>6 DEF Mirrored, Given
  <2>3. MirroredRangeAnswered'
    <3> SUFFICES ASSUME Given(crit.from)', Given(crit.to)', faults' = 0,
                        (\A h \in crit.from .. crit.to : BloomStored0(h))',
                        NEW l \in Log, InScope(l.num)'
                 PROVE  FALSE
      BY DEF MirroredRangeAnswered
    <3>1. crit'.from <= l.num /\ l.num <= crit'.to /\ l.num \in Int
      BY LogAssumption DEF InScope, Heights
    <3>2. crit'.from \in Int /\ crit'.to \in Int
      BY <1>2 DEF Given
    <3>3. crit'.from <= crit'.to
      BY <3>1, <3>2
    <3> QED
      BY <2>2, <3>3 DEF Mirrored
  <2> QED
    BY <2>1, <2>3 DEF Answers, Replied, CompleteSoFar, BoundsKept, CompleteOrEmpty,
       OnlyLimitsRefuse
<1>7. CASE /\ first <= n
           /\ from' = first
           /\ to' = IF last > n + MaxToOverhang THEN n + MaxToOverhang ELSE last
           /\ height' = first
           /\ pc' = "bloom"
           /\ UNCHANGED <<found, reply>>
  <2>1. first \in Int
    BY <1>2 DEF Resolve
  <2>2. CompleteSoFar'
    <3> SUFFICES ASSUME NEW l \in Log, from' <= l.num, l.num < height' PROVE FALSE
      BY DEF CompleteSoFar
    <3> QED
      BY <1>7, <2>1, LogAssumption DEF Heights
  <2>3. BoundsKept'
    <3> SUFFICES ASSUME Mirrored' PROVE (from = crit.from /\ to = crit.to)'
      BY DEF BoundsKept
    <3>1. first = crit.from /\ last = crit.to
      BY <1>2, <1>3 DEF Mirrored, Given
    <3>2. last <= n + MaxToOverhang
      BY <1>2, <1>4, <3>1, CapsAssumption
    <3>3. n + MaxToOverhang \in Int /\ last \in Int
      BY <1>2, <1>4, <3>1, CapsAssumption
    <3> QED
      BY <1>2, <1>7, <3>1, <3>2, <3>3
  <2> QED
    BY <1>2, <1>7, <2>2, <2>3, NothingSaid DEF Answers, Replied, CompleteOrEmpty,
       MirroredRangeAnswered, OnlyLimitsRefuse
<1> QED
  BY <1>1, <1>5, <1>6, <1>7 DEF Limit, Reply

\* With a bloom for every height between the bounds, none is missed.
LEMMA NoBloomAnswers ==
  ASSUME AnswerInv, TypeInv', NoBloom
  PROVE  ~Mirrored'
<1>1. PICK row \in BloomRow : ReadBloom(row) /\ ~HasBloom(row)
  BY DEF NoBloom
<1>2. /\ pc = "bloom" /\ height <= to /\ from <= height
      /\ UNCHANGED <<crit, blooms0>>
      /\ from \in Int /\ to \in Int /\ height \in Int
      /\ crit.hash = NoHash
  BY DEF NoBloom, More, AnswerInv, QueryInv, TypeInv, TypeOK, Kinds, BoundsKnown, Asked,
     callVars, histVars
<1> SUFFICES ASSUME Mirrored' PROVE FALSE
  OBVIOUS
<1>3. faults' = 0 /\ faults = 0
  BY AnswerStep DEF Query, Mirrored
<1>4. Mirrored
  BY <1>2, <1>3 DEF Mirrored, BloomStored0
<1>5. /\ from = crit.from /\ to = crit.to
      /\ crit.from > 0
      /\ \A h \in crit.from .. crit.to : BloomStored0(h)
  BY <1>2, <1>4 DEF Answers, AnswerInv, BoundsKept, Mirrored, Given
<1>6. BloomStored0(height) /\ height > 0
  BY <1>2, <1>5
<1>7. BloomRowsAt(height) # {}
  BY <1>6 DEF BloomStored0, BloomRowsAt, AnswerInv, QueryInv, Grows, TypeInv, TypeOK,
     StoreTypeOK
<1>8. row \in BloomRowsAt(height)
  BY <1>1, <1>3, <1>7 DEF ReadBloom, Fault, GetBloomByBlockNumber, AnswerInv, QueryInv,
     TypeInv, TypeOK
<1>9. row.num > 0 /\ row \in BloomRow
  BY <1>6, <1>8 DEF BloomRowsAt
<1>10. row \in Block
  BY <1>9 DEF BloomRow, ZeroRow
<1> QED
  BY <1>1, <1>10 DEF Block, HasBloom

\* A reply of nothing is complete, unless the range is mirrored.
LEMMA EmptyAnswers ==
  ASSUME AnswerInv, TypeInv', Query, pc' = "done", reply' = "ok", found' = None,
         crit.hash = NoHash => ~Mirrored'
  PROVE  Answers'
<1>1. UNCHANGED <<crit, blooms0>> /\ (Given(crit.from) => crit.hash = NoHash)
  BY AnswerStep DEF histVars
<1>2. MirroredRangeAnswered'
  <2> SUFFICES ASSUME Given(crit.from)', Given(crit.to)', faults' = 0,
                      (\A h \in crit.from .. crit.to : BloomStored0(h))',
                      NEW l \in Log, InScope(l.num)'
               PROVE  FALSE
    BY DEF MirroredRangeAnswered
  <2>1. crit'.from <= l.num /\ l.num <= crit'.to /\ l.num \in Int
    BY LogAssumption DEF InScope, Heights
  <2>2. crit'.from \in Int /\ crit'.to \in Int
    BY CriteriaAssumption DEF TypeInv, TypeOK, Given
  <2>3. crit'.from <= crit'.to
    BY <2>1, <2>2
  <2>4. Mirrored' /\ crit.hash = NoHash
    BY <1>1, <2>3 DEF Mirrored, Given
  <2> QED
    BY <2>4
<1> QED
  BY <1>2 DEF Answers, Replied, CompleteSoFar, BoundsKept, CompleteOrEmpty,
     OnlyLimitsRefuse

\* A refusal because a query failed.
LEMMA FailureAnswers ==
  ASSUME AnswerInv, TypeInv', QueryFails
  PROVE  Answers'
<1>1. /\ pc' = "done" /\ reply' = "InvalidParams"
      /\ faults' # 0
  BY DEF QueryFails, Reply, Fault, AnswerInv, QueryInv, TypeInv, TypeOK
<1> QED
  BY <1>1 DEF Answers, Replied, CompleteSoFar, BoundsKept, CompleteOrEmpty,
     MirroredRangeAnswered, OnlyLimitsRefuse

\* The bloom rules no height of a wildcard call out.
LEMMA BloomAnswers ==
  ASSUME AnswerInv, TypeInv', BloomRulesOut \/ BloomPasses
  PROVE  Answers'
<1>1. /\ pc = "bloom" /\ pc' \in {"bloom", "logs"}
      /\ UNCHANGED <<crit, from, to, found, reply, faults, blooms0, logs0>>
      /\ reply = "none"
  BY AnswerStep DEF Query, BloomRulesOut, BloomPasses, callVars, histVars
<1>2. Wildcard => height' = height
  BY WildcardPasses DEF BloomRulesOut, BloomPasses, callVars
<1>3. CompleteSoFar'
  <2>1. /\ Wildcard' <=> Wildcard
        /\ \A l \in Log : LongEnough(l)' <=> LongEnough(l)
    BY <1>1 DEF Wildcard, LongEnough
  <2> QED
    BY <1>1, <1>2, <2>1 DEF Answers, CompleteSoFar, AnswerInv
<1>4. BoundsKept'
  <2>1. Mirrored' <=> Mirrored
    BY <1>1 DEF Mirrored, BloomStored0
  <2> QED
    BY <1>1, <2>1 DEF Answers, BoundsKept, AnswerInv
<1>5. CompleteOrEmpty' /\ MirroredRangeAnswered' /\ OnlyLimitsRefuse'
  BY <1>1 DEF CompleteOrEmpty, MirroredRangeAnswered, OnlyLimitsRefuse
<1> QED
  BY <1>1, <1>3, <1>4, <1>5 DEF Answers, Replied

\* At the end of the range everything of it has been found.
LEMMA DoneAnswers ==
  ASSUME AnswerInv, TypeInv', RangeDone
  PROVE  Answers'
<1>1. /\ pc = "bloom" /\ pc' = "done" /\ reply' = "ok" /\ ~(height <= to)
      /\ UNCHANGED <<crit, from, to, found, faults, blooms0, logs0>>
      /\ from \in Int /\ to \in Int /\ height \in Int /\ crit.hash = NoHash
  BY DEF RangeDone, Reply, More, callVars, histVars, AnswerInv, QueryInv, TypeInv,
     TypeOK, BoundsKnown, Kinds
<1>2. /\ Wildcard' <=> Wildcard
      /\ \A l \in Log : LongEnough(l)' <=> LongEnough(l)
  BY <1>1 DEF Wildcard, LongEnough
<1>3. ASSUME Wildcard, faults = 0, NEW l \in Log, from <= l.num, l.num <= to,
             LongEnough(l)
      PROVE  found[l] >= logs0[l]
  <2>1. l.num < height
    BY <1>1, <1>3, LogAssumption DEF Heights
  <2> QED
    BY <1>1, <1>3, <2>1 DEF Answers, AnswerInv, CompleteSoFar
<1>4. CompleteOrEmpty'
  BY <1>1, <1>2, <1>3 DEF CompleteOrEmpty
<1>5. MirroredRangeAnswered'
  <2> SUFFICES ASSUME Given(crit.from)', Given(crit.to)', Wildcard', faults' = 0,
                      (\A h \in crit.from .. crit.to : BloomStored0(h))',
                      NEW l \in Log, InScope(l.num)', LongEnough(l)'
               PROVE  (found[l] >= logs0[l])'
    BY DEF MirroredRangeAnswered
  <2>1. /\ Given(crit.from) /\ Given(crit.to) /\ faults = 0
        /\ \A h \in crit.from .. crit.to : BloomStored0(h)
        /\ crit.from <= l.num /\ l.num <= crit.to
    BY <1>1 DEF Given, BloomStored0, InScope
  <2>2. l.num \in Int /\ crit.from \in Int /\ crit.to \in Int
    BY <2>1, LogAssumption, CriteriaAssumption
       DEF Heights, Given, AnswerInv, QueryInv, TypeInv, TypeOK
  <2>3. Mirrored
    BY <2>1, <2>2 DEF Mirrored
  <2>4. from <= l.num /\ l.num <= to
    BY <1>1, <2>1, <2>3 DEF Answers, AnswerInv, BoundsKept
  <2> QED
    BY <1>1, <1>2, <1>3, <2>1, <2>4
<1> QED
  BY <1>1, <1>4, <1>5 DEF Answers, Replied, CompleteSoFar, BoundsKept, OnlyLimitsRefuse

\* What a call for a range would have after a height is wanted.
LEMMA CollectedWanted ==
  ASSUME AnswerInv, pc = "logs", crit.hash = NoHash,
         NEW rows \in [Log -> 0 .. MaxRows], ReadLogs(rows), NEW l \in Log
  PROVE  /\ found[l] + FilterLogs(rows)[l] <= Wanted[l]
         /\ found[l] + FilterLogs(rows)[l] \in Nat /\ Wanted[l] \in Nat
<1>1. /\ rows[l] \in Nat /\ found[l] \in Nat /\ logs[l] \in Nat
      /\ l.num \in Int /\ height \in Int /\ from \in Int /\ to \in Int
  BY LogAssumption DEF AnswerInv, QueryInv, TypeInv, TypeOK, StoreTypeOK, Heights,
     BoundsKnown
<1>2. rows[l] <= IF l.num = height THEN logs[l] ELSE 0
  BY <1>1 DEF ReadLogs, GetLogsByBlockNumber
<1>3. /\ found[l] <= logs[l]
      /\ found[l] > 0 => Matches(l) /\ InScope(l.num) /\ l.num < height
      /\ InScope(height)
  BY <1>1 DEF AnswerInv, QueryInv, Collected, Sound, Asked
<1>4. FilterLogs(rows)[l] = IF Passes(l) THEN rows[l] ELSE 0
  BY DEF FilterLogs
<1>5. Wanted[l] = IF InScope(l.num) /\ Matches(l) THEN logs[l] ELSE 0
  BY DEF Wanted
<1>6. CASE Passes(l) /\ rows[l] > 0
  <2>1. l.num = height /\ rows[l] <= logs[l] /\ found[l] = 0
    BY <1>1, <1>2, <1>3, <1>6
  <2>2. Matches(l)
    BY <1>6, PassesMatches DEF AnswerInv, QueryInv, TypeInv
  <2> QED
    BY <1>1, <1>3, <1>4, <1>5, <1>6, <2>1, <2>2
<1>7. CASE ~(Passes(l) /\ rows[l] > 0)
  <2>1. FilterLogs(rows)[l] = 0
    BY <1>1, <1>4, <1>7
  <2>2. found[l] <= Wanted[l] /\ Wanted[l] \in Nat
    BY <1>1, <1>3, <1>5
  <2> QED
    BY <1>1, <2>1, <2>2
<1> QED
  BY <1>6, <1>7

\* The logs of a height are found, or there are too many of them.
LEMMA HeightAnswers ==
  ASSUME AnswerInv, TypeInv', GetLogsOfHeight
  PROVE  Answers'
<1>1. PICK rows \in [Log -> 0 .. MaxRows] : ReadLogs(rows) /\ Collect(rows)
  BY DEF GetLogsOfHeight
<1>2. /\ pc = "logs" /\ crit.hash = NoHash
      /\ UNCHANGED <<crit, from, to, logs, blooms0, logs0>>
      /\ reply = "none"
      /\ faults' = 0 => faults = 0
      /\ from \in Int /\ to \in Int /\ height \in Int
  BY AnswerStep DEF Query, GetLogsOfHeight, storeVars, histVars, AnswerInv, QueryInv,
     TypeInv, TypeOK, BoundsKnown
<1> DEFINE all == [l \in Log |-> found[l] + FilterLogs(rows)[l]]
<1>3. CASE Size(all) > LogsCap /\ Reply("InvalidParams", None)
  <2>1. pc' = "done" /\ reply' = "InvalidParams"
    BY <1>3 DEF Reply
  <2>2. OnlyLimitsRefuse'
    <3> SUFFICES ASSUME faults' = 0, Given(crit.from)', Given(crit.to)'
                 PROVE  (Size(Wanted) > LogsCap)'
      BY DEF OnlyLimitsRefuse, Wanted
    <3>1. \A l \in Log : /\ all[l] \in Nat /\ Wanted[l] \in Nat
                         /\ all[l] <= Wanted[l]
      BY <1>1, <1>2, CollectedWanted
    <3>2. Size(all) \in Nat /\ Size(Wanted) \in Nat /\ Size(all) <= Size(Wanted)
      <4> HIDE DEF all
      <4> QED
        BY <3>1, SizeMonotone
    <3>3. Size(Wanted) > LogsCap
      <4> HIDE DEF all
      <4> QED
        BY <1>3, <3>2, CapsAssumption
    <3>4. \A l \in Log : /\ Matches(l)' <=> Matches(l)
                         /\ InScope(l.num)' <=> InScope(l.num)
      <4>1. Given(crit.from) /\ Given(crit.to) /\ crit.from \in Int
        BY <1>2, CriteriaAssumption DEF Given, AnswerInv, QueryInv, TypeInv, TypeOK
      <4>2. crit.from # NoBound /\ ~(crit.from < 0)
        BY <4>1 DEF Given
      <4> QED
        BY <1>2, <4>2 DEF Matches, InScope, Given
    <3>5. Wanted' = Wanted
      BY <1>2, <3>4 DEF Wanted
    <3> QED
      BY <3>3, <3>5, WantedNext
  <2> QED
    BY <2>1, <2>2 DEF Answers, Replied, CompleteSoFar, BoundsKept, CompleteOrEmpty,
       MirroredRangeAnswered
<1>4. CASE /\ found' = all
           /\ height' = height + 1
           /\ pc' = "bloom"
           /\ UNCHANGED reply
  <2>1. CompleteSoFar'
    <3> SUFFICES ASSUME Wildcard', faults' = 0, NEW l \in Log,
                        (from <= l.num)', (l.num < height)', LongEnough(l)'
                 PROVE  (found[l] >= logs0[l])'
      BY DEF CompleteSoFar
    <3>1. Wildcard /\ LongEnough(l) /\ faults = 0
      BY <1>2 DEF Wildcard, LongEnough
    <3>2. rows = GetLogsByBlockNumber(height)
      BY <1>1, <3>1 DEF ReadLogs, Fault
    <3>3. /\ found[l] \in Nat /\ logs[l] \in Nat /\ logs0[l] \in Nat /\ l.num \in Int
          /\ logs0[l] <= logs[l]
      BY LogAssumption DEF AnswerInv, LogsGrow, QueryInv, TypeInv, TypeOK,
         StoreTypeOK, Heights
    <3>4. found'[l] = found[l] + IF l.num = height THEN logs[l] ELSE 0
      BY <1>4, <3>1, <3>2, WildcardPasses DEF FilterLogs, GetLogsByBlockNumber
    <3>5. l.num # height => found[l] >= logs0[l]
      <4>1. l.num # height => from <= l.num /\ l.num < height
        BY <1>2, <1>4, <3>3
      <4> QED
        BY <1>2, <3>1, <4>1 DEF Answers, AnswerInv, CompleteSoFar
    <3> QED
      BY <1>2, <3>3, <3>4, <3>5
  <2>2. BoundsKept'
    <3>1. Mirrored' => Mirrored
      BY <1>2 DEF Mirrored, BloomStored0
    <3> QED
      BY <1>2, <3>1 DEF Answers, BoundsKept, AnswerInv
  <2> QED
    BY <1>2, <1>4, <2>1, <2>2 DEF Answers, Replied, CompleteOrEmpty,
       MirroredRangeAnswered, OnlyLimitsRefuse
<1> HIDE DEF all
<1> QED
  BY <1>1, <1>3, <1>4 DEF Collect, all

\* Steps that do not come near the heights of a range.
LEMMA OtherAnswers ==
  ASSUME AnswerInv, TypeInv', GetBegin \/ GetEnd \/ Panic \/ GetBlock \/ GetLogsOfBlock
  PROVE  Answers'
<1>1. /\ reply = "none" /\ UNCHANGED crit
      /\ Given(crit.from) => crit.hash = NoHash
  BY AnswerStep DEF Query
<1>2. CASE GetBegin \/ GetEnd
  <2>1. pc' \in {"end", "range"} /\ reply' = "none"
    BY <1>1, <1>2 DEF GetBegin, GetEnd
  <2> QED
    BY <2>1 DEF Answers, Replied, CompleteSoFar, BoundsKept, CompleteOrEmpty,
       MirroredRangeAnswered, OnlyLimitsRefuse
<1>3. CASE Panic
  <2>1. pc' = "done" /\ reply' = "lost"
    BY <1>3 DEF Panic, Reply
  <2> QED
    BY <2>1 DEF Answers, Replied, CompleteSoFar, BoundsKept, CompleteOrEmpty,
       MirroredRangeAnswered, OnlyLimitsRefuse
<1>4. CASE GetBlock \/ GetLogsOfBlock
  <2>1. /\ crit'.hash # NoHash /\ ~Given(crit.from)'
        /\ \/ pc' = "logs" /\ reply' = "none"
           \/ pc' = "done" /\ reply' = "ok"
    BY <1>1, <1>4, NamesAssumption DEF GetBlock, GetLogsOfBlock, Reply, Given,
       AnswerInv, QueryInv, TypeInv, Kinds
  <2> QED
    BY <2>1 DEF Answers, Replied, CompleteSoFar, BoundsKept, CompleteOrEmpty, Mirrored,
       MirroredRangeAnswered, OnlyLimitsRefuse
<1> QED
  BY <1>2, <1>3, <1>4

\* The tables grow under the call, and under its reply.
LEMMA WriterAnswers ==
  ASSUME AnswerInv, TypeInv', Writer
  PROVE  LogsGrow' /\ Answers'
<1>1. /\ UNCHANGED <<pc, crit, from, to, height, found, reply, faults, blooms0, logs0>>
      /\ \A l \in Log : logs[l] <= logs'[l]
      /\ \A l \in Log : logs[l] \in Nat /\ logs'[l] \in Nat /\ logs0[l] \in Nat
  BY DEF Writer, InsertBloom, InsertLog, callVars, histVars, AnswerInv, QueryInv,
     TypeInv, TypeOK, StoreTypeOK
<1>2. /\ Replied' /\ CompleteSoFar' /\ BoundsKept' /\ CompleteOrEmpty'
  BY <1>1 DEF Answers, AnswerInv, Replied, CompleteSoFar, BoundsKept, CompleteOrEmpty,
     Mirrored, BloomStored0, Wildcard, LongEnough, Given
<1>3. MirroredRangeAnswered'
  BY <1>1 DEF Answers, AnswerInv, MirroredRangeAnswered, BloomStored0, Wildcard,
     LongEnough, Given, InScope
<1>4. LogsGrow'
  BY <1>1 DEF AnswerInv, LogsGrow
<1>5. OnlyLimitsRefuse'
  <2> SUFFICES ASSUME reply' = "InvalidParams", faults' = 0, Given(crit.from)',
                      Given(crit.to)', ~Unspecific',
                      ~(crit.to - crit.from > BlockRangeCap)'
               PROVE  (Size(Wanted) > LogsCap)'
    BY DEF OnlyLimitsRefuse, Wanted
  <2>1. Size(Wanted) > LogsCap
    BY <1>1 DEF Answers, AnswerInv, OnlyLimitsRefuse, Wanted, Given, Unspecific
  <2>2. \A l \in Log : /\ Matches(l)' <=> Matches(l)
                       /\ InScope(l.num)' <=> InScope(l.num)
    BY <1>1 DEF Matches, InScope, Given
  <2>3. \A l \in Log : Wanted[l] \in Nat /\ Wanted'[l] \in Nat /\ Wanted[l] <= Wanted'[l]
    BY <1>1, <2>2 DEF Wanted
  <2>4. Size(Wanted) \in Nat /\ Size(Wanted') \in Nat /\ Size(Wanted) <= Size(Wanted')
    BY <2>3, SizeMonotone
  <2> QED
    BY <2>1, <2>4, CapsAssumption, WantedNext
<1> QED
  BY <1>2, <1>3, <1>4, <1>5 DEF Answers, AnswerInv

\* Every step keeps the invariant.
LEMMA AnswerInvNext == AnswerInv /\ [Next]_vars => AnswerInv'
<1> SUFFICES ASSUME AnswerInv, [Next]_vars PROVE AnswerInv'
  OBVIOUS
<1>0. QueryInv' /\ TypeInv'
  BY QueryInvNext DEF AnswerInv, QueryInv
<1>1. CASE Reject
  <2>1. /\ pc' = "done" /\ reply' = "InvalidParams" /\ Unspecific'
        /\ UNCHANGED <<logs, logs0>>
    BY <1>1 DEF Reject, Reply, Unspecific, storeVars, callVars, histVars
  <2> QED
    BY <1>0, <2>1 DEF Answers, AnswerInv, Replied, LogsGrow, CompleteSoFar, BoundsKept,
       CompleteOrEmpty, MirroredRangeAnswered, OnlyLimitsRefuse
<1>2. CASE Start
  <2>1. /\ pc' \in {"begin", "range", "hash"} /\ reply' = "none"
        /\ logs0' = logs /\ logs' = logs
    BY <1>2 DEF Answers, Start, storeVars, AnswerInv, Replied
  <2>2. LogsGrow'
    BY <1>0, <2>1 DEF LogsGrow, TypeInv, TypeOK, StoreTypeOK
  <2> QED
    BY <1>0, <2>1, <2>2 DEF Answers, AnswerInv, Replied, CompleteSoFar, BoundsKept,
       CompleteOrEmpty, MirroredRangeAnswered, OnlyLimitsRefuse
<1>3. CASE Query
  <2>1. LogsGrow'
    BY <1>0, <1>3, AnswerStep
  <2>2. CASE NoBloom
    <3>1. pc' = "done" /\ reply' = "ok" /\ found' = None
      BY <2>2 DEF NoBloom, Reply
    <3> QED
      BY <1>0, <1>3, <2>1, <2>2, <3>1, NoBloomAnswers, EmptyAnswers DEF AnswerInv
  <2> QED
    BY <1>0, <1>3, <2>1, <2>2, FailureAnswers, RangeAnswers, BloomAnswers, DoneAnswers,
       HeightAnswers, OtherAnswers DEF Query, AnswerInv
<1>4. CASE Writer
  BY <1>0, <1>4, WriterAnswers DEF AnswerInv
<1>5. CASE UNCHANGED vars
  <2>1. UNCHANGED <<pc, crit, from, to, height, found, reply, faults, blooms0, logs0, logs>>
    BY <1>5 DEF vars, storeVars, callVars, histVars
  <2>2. Replied' /\ LogsGrow' /\ CompleteSoFar' /\ BoundsKept' /\ CompleteOrEmpty'
    BY <2>1 DEF Answers, AnswerInv, Replied, LogsGrow, CompleteSoFar, BoundsKept,
       CompleteOrEmpty, Mirrored, BloomStored0, Wildcard, LongEnough, Given
  <2>3. MirroredRangeAnswered'
    BY <2>1 DEF Answers, AnswerInv, MirroredRangeAnswered, BloomStored0, Wildcard,
       LongEnough, Given, InScope
  <2>4. OnlyLimitsRefuse'
    <3>1. OnlyLimitsRefuse <=>
            (reply = "InvalidParams" /\ faults = 0
             /\ Given(crit.from) /\ Given(crit.to) =>
               \/ Unspecific
               \/ crit.to - crit.from > BlockRangeCap
               \/ Size(Wanted) > LogsCap)
      BY DEF OnlyLimitsRefuse, Wanted
    <3>2. OnlyLimitsRefuse' <=>
            (reply' = "InvalidParams" /\ faults' = 0
             /\ Given(crit.from)' /\ Given(crit.to)' =>
               \/ Unspecific'
               \/ (crit.to - crit.from > BlockRangeCap)'
               \/ Size(Wanted)' > LogsCap)
      BY DEF OnlyLimitsRefuse, Wanted
    <3>3. Wanted' = Wanted
      BY <2>1 DEF Wanted, InScope, Given, Matches
    <3>4. Size(Wanted)' = Size(Wanted)
      BY <3>3, WantedNext
    <3> QED
      BY <2>1, <3>1, <3>2, <3>4 DEF Answers, AnswerInv, Given, Unspecific
  <2> QED
    BY <1>0, <2>2, <2>3, <2>4 DEF Answers, AnswerInv
<1> QED
  BY <1>1, <1>2, <1>3, <1>4, <1>5 DEF Next

\* A wildcard call for a range answers nothing, or every log of the range that
\* was stored when it started, whatever the limits, the height and the rows
\* inserted meanwhile.
THEOREM QueryCompleteOrEmpty == Spec => []CompleteOrEmpty
<1>1. AnswerInv => CompleteOrEmpty
  BY DEF Answers, AnswerInv
<1> QED
  BY <1>1, AnswerInvInit, AnswerInvNext, PTL DEF Spec

\* A wildcard call for heights that are all mirrored when it starts answers all
\* their logs: no row inserted meanwhile makes it lose one or cuts the range.
THEOREM QueryMirroredAnswered == Spec => []MirroredRangeAnswered
<1>1. AnswerInv => MirroredRangeAnswered
  BY DEF Answers, AnswerInv
<1> QED
  BY <1>1, AnswerInvInit, AnswerInvNext, PTL DEF Spec

\* A call with bounds is refused only for the length of its range or for more
\* logs than LogsCap that are stored, match and lie in it.
THEOREM QueryOnlyLimitsRefuse == Spec => []OnlyLimitsRefuse
<1>1. AnswerInv => OnlyLimitsRefuse
  BY DEF Answers, AnswerInv
<1> QED
  BY <1>1, AnswerInvInit, AnswerInvNext, PTL DEF Spec
=============================================================================
