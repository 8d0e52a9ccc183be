------------------------------ MODULE ChainNode ------------------------------
(***************************************************************************)
(* The Ethereum-compatible node the plugin mirrors (SyncRpcAddr), as       *)
(* rpc/rpcserver/http.go uses it: eth_getBlockByNumber for one height, and *)
(* FilterLogs for a range.  The node is not part of the repository: its    *)
(* chain grows, and a reorganisation may replace the top of it, at any     *)
(* moment between two calls of a handler.                                  *)
(***************************************************************************)
EXTENDS Chain

VARIABLES
  head,        \* height of the newest block the node has
  canon,       \* canon[h]: the fork whose block is canonical at height h
  reorgs       \* number of reorganisations so far; also the newest fork

\* History variable: no action's guard reads it.
VARIABLE
  had          \* every block the node has or once had

nodeVars == <<head, canon, reorgs, had>>

NodeTypeOK ==
  /\ head \in Heights
  /\ canon \in [Heights -> Forks]
  /\ reorgs \in Forks
  /\ had \in SUBSET Block

NodeInit ==
  /\ head \in Heights
  /\ canon = [h \in Heights |-> 0]
  /\ reorgs = 0
  /\ had = [num : 0 .. head, fork : {0}]

NewBlock ==
  /\ head < MaxHeight
  /\ head' = head + 1
  /\ had' = had \union {[num |-> head + 1, fork |-> canon[head + 1]]}
  /\ UNCHANGED <<canon, reorgs>>

\* The blocks from h upwards are replaced by those of a new fork.
Reorg(h) ==
  /\ h <= head
  /\ reorgs < MaxReorgs
  /\ reorgs' = reorgs + 1
  /\ canon' = [k \in Heights |-> IF k >= h THEN reorgs + 1 ELSE canon[k]]
  /\ had' = had \union [num : h .. head, fork : {reorgs + 1}]
  /\ UNCHANGED head

CanonicalBlock(h) == [num |-> h, fork |-> canon[h]]

\* "latest" as a bound of a range: the JSON of a filter criterion turns the
\* word into -1, and go-ethereum sends -1 to the node as an open end.
Latest == -1

\* The logs FilterLogs(from, to) answers with.
NodeLogs(from, to) ==
  {l \in Log : /\ from <= l.num
               /\ l.num <= head
               /\ to = Latest \/ l.num <= to
               /\ l.fork = canon[l.num]}

\* The order of the answer: by block, then by index within the block.
Precedes(l, m) == l.num < m.num \/ (l.num = m.num /\ l.idx <= m.idx)
=============================================================================
