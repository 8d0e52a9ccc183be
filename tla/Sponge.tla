-------------------------------- MODULE Sponge --------------------------------
(***************************************************************************)
(* The sponge of crypto/sha3/sha3.go: one object with its buffer, which     *)
(* absorbs what is written and is then squeezed.  One round of the loops    *)
(* of Write and Read is one action.  The permutation is symbolic: the       *)
(* state of the sponge is the sequence of the blocks that were absorbed,    *)
(* with an empty one for every permutation while squeezing, and each byte   *)
(* copied out of it names that state.                                       *)
(***************************************************************************)
EXTENDS Naturals, Sequences, FiniteSets

CONSTANTS
  Byte,       \* bytes that are written
  Rate,       \* rate
  MaxRate,    \* maxRate, the length of storage
  OutputLen,  \* outputLen
  MaxChunk,   \* bound: bytes of one Write
  MaxInput,   \* bound: bytes written before a Reset
  MaxOutput,  \* bound: bytes read before a Reset
  MaxResets   \* bound: how often the object is reset

ASSUME RateAssumption == Rate \in Nat \ {0} /\ MaxRate \in Nat /\ Rate <= MaxRate
ASSUME ByteAssumption == Byte \intersect {"ds", "zero"} = {}
ASSUME BoundsAssumption == {OutputLen, MaxChunk, MaxInput, MaxOutput, MaxResets} \subseteq Nat

\* A byte: one that is written or padded, one with its highest bit flipped, or
\* byte "at" of what the permutation has made of a state.
In(b) == [in |-> b]
Flipped(byte) == [flipped |-> byte]
CopyOut(a) == [i \in 1 .. Rate |-> [of |-> a, at |-> i]]

VARIABLES
  d,       \* the object: a, storage, buf as its offset and length in storage,
           \* and whether state is spongeSqueezing
  saved,   \* <<the object Sum was called on>> while d is its clone, or <<>>
  pc,      \* "idle", "write" or "read"
  p,       \* what Write has still to absorb
  want,    \* how many bytes Read has to return
  out,     \* the bytes it has so far
  result,  \* what the last Read or Sum returned, or that a call panicked
  resets

\* History variable.
VARIABLE input  \* the bytes that were written since the last Reset

vars == <<d, saved, pc, p, want, out, result, resets, input>>

buf == SubSeq(d.storage, d.off + 1, d.off + d.len)

\* storage[from : to] as the buffer of an object.
Slice(o, from, to) == [o EXCEPT !.off = from, !.len = to - from]

Fill(o, bytes) ==
  [o EXCEPT !.storage = bytes \o SubSeq(@, Len(bytes) + 1, MaxRate)]

Init ==
  /\ d = [a |-> <<>>, storage |-> [i \in 1 .. MaxRate |-> In("zero")],
          off |-> 0, len |-> 0, squeezing |-> FALSE]
  /\ saved = <<>>
  /\ pc = "idle"
  /\ p = <<>>
  /\ want = 0
  /\ out = <<>>
  /\ result = [panic |-> FALSE, bytes |-> <<>>]
  /\ resets = 0
  /\ input = <<>>

-----------------------------------------------------------------------------
(* permute, padAndPermute, clone.                                          *)

Squeezed(o) ==
  LET a == Append(o.a, <<>>)
  IN  Slice(Fill([o EXCEPT !.a = a], CopyOut(a)), 0, Rate)

Absorbed(o) ==
  Slice([o EXCEPT !.a = Append(@, SubSeq(o.storage, o.off + 1, o.off + o.len))], 0, 0)

permute(o) == IF o.squeezing THEN Squeezed(o) ELSE Absorbed(o)

\* Bug (never part of Next, like those below): what is in storage is absorbed.
padAndPermuteDirty(o) ==
  LET padded == [SubSeq(o.storage, 1, o.len) \o <<In("ds")>>
                   \o SubSeq(o.storage, o.len + 2, Rate) EXCEPT ![Rate] = Flipped(@)]
      done == permute(Slice(Fill(o, padded), 0, Rate))
  IN  Slice(Fill([done EXCEPT !.squeezing = TRUE], CopyOut(done.a)), 0, Rate)

padAndPermute(o) ==
  LET zeros == [i \in 1 .. Rate - o.len - 1 |-> In("zero")]
      padded == [SubSeq(o.storage, 1, o.len) \o <<In("ds")>> \o zeros
                   EXCEPT ![Rate] = Flipped(@)]
      done == permute(Slice(Fill(o, padded), 0, Rate))
  IN  Slice(Fill([done EXCEPT !.squeezing = TRUE], CopyOut(done.a)), 0, Rate)

\* The buffer of a clone that squeezes begins at rate - cap(buf), where cap
\* goes to the end of storage and not of the rate.
CloneOffset == Rate - (MaxRate - d.off)
CanClone == d.squeezing => Rate >= MaxRate - d.off
clone == IF d.squeezing THEN Slice(d, CloneOffset, Rate) ELSE Slice(d, 0, d.len)

-----------------------------------------------------------------------------
(* Write.                                                                  *)

Written == Rate * Len(d.a) + d.len

BeginWrite ==
  /\ pc = "idle"
  /\ ~d.squeezing
  /\ \E n \in 1 .. MaxChunk : \E chunk \in [1 .. n -> Byte] :
       /\ Written + n <= MaxInput
       /\ p' = [i \in 1 .. n |-> In(chunk[i])]
       /\ input' = input \o chunk
  /\ pc' = "write"
  /\ UNCHANGED <<d, saved, want, out, result, resets>>

WritePanics ==
  /\ pc = "idle"
  /\ d.squeezing
  /\ result' = [panic |-> TRUE, bytes |-> <<>>]
  /\ UNCHANGED <<d, saved, pc, p, want, out, resets, input>>

\* A whole block is absorbed as it is.
FastPath ==
  /\ pc = "write"
  /\ d.len = 0 /\ Len(p) >= Rate
  /\ d' = [d EXCEPT !.a = Append(@, SubSeq(p, 1, Rate))]
  /\ p' = SubSeq(p, Rate + 1, Len(p))
  /\ UNCHANGED <<saved, pc, want, out, result, resets, input>>

Least(m, n) == IF m < n THEN m ELSE n

\* Bug: the rest of the input is taken for the room in the buffer.
TodoUnclamped == Len(p)

todo == Least(Rate - d.len, Len(p))

\* The buffer is filled up, and absorbed when it is full.
SlowPath ==
  /\ pc = "write"
  /\ p # <<>>
  /\ d.len > 0 \/ Len(p) < Rate
  /\ LET filled == Slice(Fill(d, SubSeq(d.storage, 1, d.len) \o SubSeq(p, 1, todo)),
                         0, d.len + todo)
     IN  d' = IF filled.len = Rate THEN permute(filled) ELSE filled
  /\ p' = SubSeq(p, todo + 1, Len(p))
  /\ UNCHANGED <<saved, pc, want, out, result, resets, input>>

WriteReturns ==
  /\ pc = "write"
  /\ p = <<>>
  /\ pc' = "idle"
  /\ UNCHANGED <<d, saved, p, want, out, result, resets, input>>

-----------------------------------------------------------------------------
(* Read, Sum and Reset.                                                    *)

\* How many bytes the object has given.
Position(o) ==
  IF o.squeezing THEN Rate * Cardinality({k \in DOMAIN o.a : o.a[k] = <<>>}) + o.off
  ELSE 0

Padded(o) == IF o.squeezing THEN o ELSE padAndPermute(o)

BeginRead ==
  /\ pc = "idle"
  /\ \E n \in 0 .. MaxOutput - Position(d) : want' = n
  /\ d' = Padded(d)
  /\ out' = <<>>
  /\ pc' = "read"
  /\ UNCHANGED <<saved, p, result, resets, input>>

\* Sum reads from a clone and leaves the object as it is.
Sum ==
  /\ pc = "idle"
  /\ CanClone
  /\ saved' = <<d>>
  /\ d' = Padded(clone)
  /\ want' = OutputLen
  /\ out' = <<>>
  /\ pc' = "read"
  /\ UNCHANGED <<p, result, resets, input>>

SumPanics ==
  /\ pc = "idle"
  /\ ~CanClone
  /\ result' = [panic |-> TRUE, bytes |-> <<>>]
  /\ UNCHANGED <<d, saved, pc, p, want, out, resets, input>>

\* Bug: an empty buffer is filled when the next byte is read, if it is asked
\* whether it is empty.
SqueezeOnce ==
  /\ pc = "read"
  /\ Len(out) < want
  /\ LET n == Least(d.len, want - Len(out))
     IN  /\ out' = out \o SubSeq(buf, 1, n)
         /\ d' = Slice(d, d.off + n, Rate)
  /\ UNCHANGED <<saved, pc, p, want, result, resets, input>>

\* Bytes are copied from the buffer, and the state permuted when it is empty.
Squeeze ==
  /\ pc = "read"
  /\ Len(out) < want
  /\ LET n == Least(d.len, want - Len(out))
         rest == Slice(d, d.off + n, Rate)
     IN  /\ out' = out \o SubSeq(buf, 1, n)
         /\ d' = IF rest.len = 0 THEN permute(rest) ELSE rest
  /\ UNCHANGED <<saved, pc, p, want, result, resets, input>>

ReadReturns ==
  /\ pc = "read"
  /\ Len(out) = want
  /\ result' = [panic |-> FALSE, bytes |-> out]
  /\ d' = IF saved = <<>> THEN d ELSE saved[1]
  /\ saved' = <<>>
  /\ out' = <<>>
  /\ want' = 0
  /\ pc' = "idle"
  /\ UNCHANGED <<p, resets, input>>

\* What is in storage stays.
Reset ==
  /\ pc = "idle"
  /\ resets < MaxResets
  /\ resets' = resets + 1
  /\ d' = Slice([d EXCEPT !.a = <<>>, !.squeezing = FALSE], 0, 0)
  /\ input' = <<>>
  /\ UNCHANGED <<saved, pc, p, want, out, result>>

Call == BeginWrite \/ WritePanics \/ BeginRead \/ Sum \/ SumPanics \/ Reset
Round == FastPath \/ SlowPath \/ WriteReturns \/ Squeeze \/ ReadReturns

Next == Call \/ Round

Spec == Init /\ [][Next]_vars
FairSpec == Spec /\ WF_vars(Round)

-----------------------------------------------------------------------------
(* Properties.                                                             *)

\* An object: buf lies in the part of storage that the rate covers, is not full
\* while absorbing and not empty while squeezing, and every block that was
\* absorbed has the length of the rate.
TypeOK ==
  /\ pc \in {"idle", "write", "read"}
  /\ \A o \in {d} \union {saved[i] : i \in DOMAIN saved} :
       /\ Len(o.storage) = MaxRate
       /\ o.squeezing \in BOOLEAN
       /\ IF o.squeezing THEN o.off + o.len = Rate /\ o.len > 0
          ELSE o.off = 0 /\ o.len < Rate
       /\ \A k \in DOMAIN o.a : Len(o.a[k]) \in {Rate} \union (IF o.squeezing THEN {0} ELSE {})
  /\ pc = "write" => ~d.squeezing
  /\ pc = "read" => d.squeezing
  /\ Len(out) <= want
  /\ resets \in 0 .. MaxResets

\* The reference: the input is padded to whole blocks, all of them are absorbed
\* and then as many bytes squeezed as are asked for.
Blocks(written) ==
  LET n == Len(written) \div Rate + 1
      byte(i) == CASE i <= Len(written) -> In(written[i])
                   [] i = Len(written) + 1 -> In("ds")
                   [] OTHER -> In("zero")
      padded(i) == IF i = n * Rate THEN Flipped(byte(i)) ELSE byte(i)
  IN  [k \in 1 .. n |-> [i \in 1 .. Rate |-> padded((k - 1) * Rate + i)]]

Stream(written, i) ==
  [of |-> Blocks(written) \o [j \in 1 .. (i - 1) \div Rate |-> <<>>],
   at |-> ((i - 1) % Rate) + 1]

\* The object Write, Read and Sum are called on.
Object == IF saved = <<>> THEN d ELSE saved[1]

\* The sponge is a hash object: what Read and Sum return depends on the bytes
\* that were written since the last Reset and on how many were read, and not
\* on the portions in which this was done, on what storage still holds, or on
\* a Sum in between.
Hash == INSTANCE HashObject WITH
  ExactClone <- Rate = MaxRate,
  reading <- Object.squeezing,
  position <- Position(Object) - (IF saved = <<>> THEN Len(out) ELSE 0)

HashSpec == Hash!Spec

\* Write and Read come to an end.
CallsReturn == pc # "idle" ~> pc = "idle"
=============================================================================
