-------------------------- MODULE MCSyncBlockAndLogs --------------------------
(***************************************************************************)
(* Instances of SyncBlockAndLogs for TLC.                                  *)
(***************************************************************************)
EXTENDS SyncBlockAndLogs, FiniteSets, TLC

MCLogOf(num, fork, tx, idx) == [num |-> num, fork |-> fork, tx |-> tx, idx |-> idx]

\* Block 0 (genesis) has no logs, block 1 two and block 2 one.
LogsPlain ==
  {MCLogOf(1, 0, "t1", 0), MCLogOf(1, 0, "t1", 1), MCLogOf(2, 0, "t2", 0)}

\* One log in block 1, and in block 2 logs 10 and 16 of one transaction: "0x10"
\* is both the decimal text of 10 and the hexadecimal form of 16.
LogsTwoDigits ==
  {MCLogOf(1, 0, "t1", 0), MCLogOf(2, 0, "t2", 10), MCLogOf(2, 0, "t2", 16)}

\* After a reorganisation t1 is included again with the same index, and t3 is
\* new.
LogsForked ==
  {MCLogOf(1, 0, "t1", 0), MCLogOf(1, 1, "t1", 0), MCLogOf(1, 1, "t3", 1)}

\* A reorganisation moves the log of t1 from index 16 to index 10.
LogsMoved == {MCLogOf(1, 0, "t1", 16), MCLogOf(1, 1, "t1", 10)}

RangesOne  == {<<1, 1>>}
RangesEndless == {<<1, Latest>>}
RangesLow  == {<<0, 1>>, <<1, 2>>}

\* One that covers both blocks, an open end, and bounds the node rejects.
RangesOpen == {<<0, 1>>, <<1, Latest>>, <<Latest, 1>>, <<0, -2>>}

RequestSymmetry == Permutations(Request)
=============================================================================
