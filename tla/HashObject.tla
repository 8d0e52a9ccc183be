------------------------------ MODULE HashObject ------------------------------
(***************************************************************************)
(* What a hash of crypto/sha3 promises its user (hash.Hash and ShakeHash,   *)
(* sha3.go:165-188): its output is a function of the bytes written since    *)
(* the last Reset, in whatever portions they are written and read.          *)
(***************************************************************************)
EXTENDS Naturals, Sequences

CONSTANTS
  OutputLen,     \* how many bytes Sum returns
  ExactClone,    \* a clone that is taken after the first Read is exact
  Stream(_, _)   \* byte i of the output for an input

VARIABLES
  input,     \* the bytes written so far
  reading,   \* the first Read has begun
  position,  \* how many bytes have been read
  result     \* what the last Read or Sum returned, or that a call panicked

vars == <<input, reading, position, result>>

Panicked == [panic |-> TRUE, bytes |-> <<>>]
Bytes(first, n) == [panic |-> FALSE, bytes |-> [i \in 1 .. n |-> Stream(input, first + i)]]

Init ==
  /\ input = <<>>
  /\ reading = FALSE
  /\ position = 0
  /\ result = [panic |-> FALSE, bytes |-> <<>>]

Write ==
  /\ ~reading
  /\ Len(input) <= Len(input')
  /\ input = SubSeq(input', 1, Len(input))
  /\ UNCHANGED <<reading, position, result>>

WriteAfterRead ==
  /\ reading
  /\ result' = Panicked
  /\ UNCHANGED <<input, reading, position>>

BeginRead ==
  /\ reading' = TRUE
  /\ UNCHANGED <<input, position, result>>

Read ==
  /\ reading
  /\ position' >= position
  /\ result' = Bytes(position, position' - position)
  /\ UNCHANGED <<input, reading>>

\* Sum reads from a clone.
Sum ==
  /\ (reading /\ ~ExactClone) \/ result' = Bytes(position, OutputLen)
  /\ UNCHANGED <<input, reading, position>>

Reset ==
  /\ input' = <<>>
  /\ reading' = FALSE
  /\ position' = 0
  /\ UNCHANGED result

Next == Write \/ WriteAfterRead \/ BeginRead \/ Read \/ Sum \/ Reset

Spec == Init /\ [][Next]_vars
=============================================================================
