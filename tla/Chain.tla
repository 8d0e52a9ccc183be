-------------------------------- MODULE Chain --------------------------------
(***************************************************************************)
(* The blocks and logs there can be.  What the plugin stores of a block,   *)
(* its hash and its bloom, are functions of the block's identity.          *)
(***************************************************************************)
EXTENDS Integers

CONSTANTS
  MaxHeight,   \* bound: the greatest block height of the instance
  MaxReorgs,   \* bound: how many reorganisations may happen
  Log          \* every log of every block any fork may hold: records with
               \* at least num and fork (its block), tx (its transaction)
               \* and idx (its index within the block)

Heights == 0 .. MaxHeight
Forks   == 0 .. MaxReorgs

\* A block, identified by its height and the fork it belongs to.
Block == [num : Heights, fork : Forks]

ASSUME MaxHeightAssumption == MaxHeight \in Nat
ASSUME MaxReorgsAssumption == MaxReorgs \in Nat
ASSUME LogAssumption ==
  \A l \in Log : l.num \in Heights /\ l.fork \in Forks /\ l.idx \in Nat
=============================================================================
