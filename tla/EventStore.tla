------------------------------ MODULE EventStore ------------------------------
(***************************************************************************)
(* The two MySQL tables and the functions of dbdrive/db_models.go that     *)
(* read and write them.  A table is a multiset of rows: a function from    *)
(* the rows that can exist to the number of copies stored.  The schema is  *)
(* not in the repository; the inserts pass a fresh id with every row and   *)
(* never mention another key, so no insert is rejected for repeating the   *)
(* contents of a stored row.                                               *)
(***************************************************************************)
EXTENDS Chain

VARIABLES
  block_bloom,   \* table block_bloom: copies stored of each row
  logs           \* table logs: copies stored of each log

storeVars == <<block_bloom, logs>>

\* The row SaveBloom(0, "", "") writes, for a block that was never decoded:
\* block number 0 and an empty bloom string.
ZeroRow == [num |-> 0, fork |-> -1]

BloomRow == Block \union {ZeroRow}

\* Scanning a row's bloom yields a non-empty string.
HasBloom(row) == row.fork \in Forks

StoreTypeOK ==
  /\ block_bloom \in [BloomRow -> Nat]
  /\ logs \in [Log -> Nat]

StoreInit ==
  /\ block_bloom = [row \in BloomRow |-> 0]
  /\ logs = [l \in Log |-> 0]

-----------------------------------------------------------------------------
(* Queries.  "limit 1" without an order may return any matching row.       *)

BloomRowsAt(h) == {row \in BloomRow : row.num = h /\ block_bloom[row] > 0}

BloomStored(h) == \E row \in BloomRowsAt(h) : HasBloom(row)

\* What GetBloomByBlockNumber(h) may answer: a row, whose bloom is scanned,
\* or, when there is none, the empty string, which is what ZeroRow holds.
GetBloomByBlockNumber(h) ==
  IF BloomRowsAt(h) = {} THEN {ZeroRow} ELSE BloomRowsAt(h)

\* The digits of n in base ten, read back in base sixteen: the number whose
\* hexadecimal form is the string "0x" + strconv.Itoa(n).
DecimalReadAsHex[n \in Nat] ==
  IF n < 10 THEN n ELSE 16 * DecimalReadAsHex[n \div 10] + (n % 10)

\* SaveLogs stores log_index in hexadecimal (hexutil.Uint64); the query of
\* GetLogByTxhashAndLogIndex compares it with "0x" and the decimal digits.
StoredIndex(l)  == l.idx
QueriedIndex(l) == DecimalReadAsHex[l.idx]

GetLogByTxhashAndLogIndex(l) ==
  {m \in Log : /\ logs[m] > 0
               /\ m.tx = l.tx
               /\ StoredIndex(m) = QueriedIndex(l)}

\* The greatest block number of the table, or the 0 the result is declared with.
GetBlockHeight ==
  LET stored == {row.num : row \in {b \in BloomRow : block_bloom[b] > 0}}
  IN IF stored = {} THEN {0} ELSE {n \in stored : \A m \in stored : m <= n}

\* The row of a block, or the zero value of the struct when it is not stored.
GetBlockNumAndBloomByBlockHash(block) ==
  IF block_bloom[block] > 0 THEN block ELSE ZeroRow

\* Every row of the block number, whatever fork it is of, with its copies.
GetLogsByBlockNumber(h) == [l \in Log |-> IF l.num = h THEN logs[l] ELSE 0]

\* The log is in the table: a row with its block, transaction and index.
LogStored(l) == logs[l] > 0

\* A row names the transaction and the index of the log, as the lookup means
\* to: it may be of another block, which once held the same transaction.
LogNamed(l) == \E m \in Log : logs[m] > 0 /\ m.tx = l.tx /\ m.idx = l.idx

-----------------------------------------------------------------------------
(* Inserts that succeed.  SaveBloom and SaveLogs print the error of one    *)
(* that fails and return nothing, so their caller goes on in either case.  *)

InsertBloom(row) ==
  /\ block_bloom' = [block_bloom EXCEPT ![row] = @ + 1]
  /\ UNCHANGED logs

InsertLog(l) ==
  /\ logs' = [logs EXCEPT ![l] = @ + 1]
  /\ UNCHANGED block_bloom
=============================================================================
