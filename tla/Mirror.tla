-------------------------------- MODULE Mirror --------------------------------
(***************************************************************************)
(* What the tables promise their readers, without the handlers that fill   *)
(* them: rows are only added, one at a time.  A row is of a block the node *)
(* has or once had, but for one: the empty row of block number 0, which is *)
(* of no block at all.  SyncBlockAndLogs implements this with any number   *)
(* of requests, crashes and failures.                                      *)
(***************************************************************************)
EXTENDS EventStore

VARIABLE
  had    \* every block the chain has or once had

mirrorVars == <<block_bloom, logs, had>>

Init ==
  /\ StoreInit
  /\ had \in SUBSET Block

BlockOf(l) == [num |-> l.num, fork |-> l.fork]

\* The bloom of a block, the empty row, or a log.
Add ==
  /\ \/ \E row \in had : InsertBloom(row)
     \/ InsertBloom(ZeroRow)
     \/ \E l \in Log : BlockOf(l) \in had /\ InsertLog(l)
  /\ UNCHANGED had

\* The chain grows, or a reorganisation replaces its top; it never forgets.
Grow ==
  /\ had' \in SUBSET Block
  /\ had \subseteq had'
  /\ UNCHANGED storeVars

Spec == Init /\ [][Add \/ Grow]_mirrorVars
=============================================================================
