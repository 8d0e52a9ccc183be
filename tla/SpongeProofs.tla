----------------------------- MODULE SpongeProofs -----------------------------
(***************************************************************************)
(* The sponge for any bytes, any rate and storage, and inputs, outputs and *)
(* portions of any length: it implements the hash object.                  *)
(***************************************************************************)
EXTENDS Sponge, FiniteSetTheorems, TLAPS

-----------------------------------------------------------------------------
(* Sequences of anything.                                                  *)

IsSeq(s) == \E S : s \in Seq(S)

LEMMA SeqFacts ==
  ASSUME NEW s, IsSeq(s)
  PROVE  Len(s) \in Nat /\ DOMAIN s = 1 .. Len(s) /\ s = [i \in 1 .. Len(s) |-> s[i]]
BY DEF IsSeq

\* A sequence is one of its elements, and of more.
LEMMA SeqIn ==
  ASSUME NEW s, IsSeq(s), NEW T, \A i \in 1 .. Len(s) : s[i] \in T
  PROVE  s \in Seq(T)
<1>1. Len(s) \in Nat /\ s = [i \in 1 .. Len(s) |-> s[i]]
  BY SeqFacts
<1>2. s \in [1 .. Len(s) -> T]
  BY <1>1
<1> QED
  BY <1>1, <1>2

LEMMA FunctionIsSeq ==
  ASSUME NEW n \in Nat, NEW f, DOMAIN f = 1 .. n, f = [i \in 1 .. n |-> f[i]]
  PROVE  IsSeq(f) /\ Len(f) = n
<1> DEFINE T == {f[i] : i \in 1 .. n}
<1>1. f \in [1 .. n -> T]
  OBVIOUS
<1>2. f \in Seq(T) /\ Len(f) = n
  <2> HIDE DEF T
  <2> QED
    BY <1>1
<1> QED
  BY <1>2 DEF IsSeq

\* Two sequences with the same elements are the same.
LEMMA SeqEqual ==
  ASSUME NEW s, IsSeq(s), NEW t, IsSeq(t), Len(s) = Len(t),
         \A i \in 1 .. Len(s) : s[i] = t[i]
  PROVE  s = t
<1>1. s = [i \in 1 .. Len(s) |-> s[i]] /\ t = [i \in 1 .. Len(s) |-> t[i]]
  BY SeqFacts
<1> QED
  BY <1>1

LEMMA AppendIs ==
  ASSUME NEW s, IsSeq(s), NEW e
  PROVE  /\ IsSeq(Append(s, e)) /\ Len(Append(s, e)) = Len(s) + 1
         /\ \A i \in 1 .. Len(s) : Append(s, e)[i] = s[i]
         /\ Append(s, e)[Len(s) + 1] = e
<1> DEFINE T == {s[i] : i \in 1 .. Len(s)} \union {e}
<1>1. s \in Seq(T) /\ e \in T
  BY SeqIn
<1> HIDE DEF T
<1>2. Append(s, e) \in Seq(T)
  BY <1>1
<1> QED
  BY <1>1, <1>2 DEF IsSeq

LEMMA ConcatIs ==
  ASSUME NEW s, IsSeq(s), NEW t, IsSeq(t)
  PROVE  /\ IsSeq(s \o t) /\ Len(s \o t) = Len(s) + Len(t)
         /\ \A i \in 1 .. Len(s) : (s \o t)[i] = s[i]
         /\ \A i \in 1 .. Len(t) : (s \o t)[Len(s) + i] = t[i]
<1> DEFINE T == {s[i] : i \in 1 .. Len(s)} \union {t[i] : i \in 1 .. Len(t)}
<1>1. s \in Seq(T) /\ t \in Seq(T)
  BY SeqIn
<1> HIDE DEF T
<1>2. s \o t \in Seq(T)
  BY <1>1
<1>3. Len(s) \in Nat /\ Len(t) \in Nat
  BY SeqFacts
<1> QED
  BY <1>1, <1>2, <1>3 DEF IsSeq

\* The same with a name of its own.
Joins(u, s, t) ==
  /\ IsSeq(u) /\ Len(u) = Len(s) + Len(t)
  /\ \A i \in 1 .. Len(s) : u[i] = s[i]
  /\ \A i \in 1 .. Len(t) : u[Len(s) + i] = t[i]

LEMMA ConcatJoins ==
  ASSUME NEW s, IsSeq(s), NEW t, IsSeq(t)
  PROVE  Joins(s \o t, s, t)
<1> DEFINE u == s \o t
<1>1. /\ IsSeq(u) /\ Len(u) = Len(s) + Len(t)
      /\ \A i \in 1 .. Len(s) : u[i] = s[i]
      /\ \A i \in 1 .. Len(t) : u[Len(s) + i] = t[i]
  BY ConcatIs
<1> HIDE DEF u
<1>2. Joins(u, s, t)
  BY <1>1 DEF Joins
<1> QED
  BY <1>2 DEF u

LEMMA SubSeqIs ==
  ASSUME NEW s, IsSeq(s), NEW m \in Nat \ {0}, NEW n \in Nat, n <= Len(s), m <= n + 1
  PROVE  /\ IsSeq(SubSeq(s, m, n)) /\ Len(SubSeq(s, m, n)) = n + 1 - m
         /\ \A i \in 1 .. n + 1 - m : SubSeq(s, m, n)[i] = s[m + i - 1]
<1> DEFINE T == {s[i] : i \in 1 .. Len(s)}
<1>1. s \in Seq(T) /\ Len(s) \in Nat
  BY SeqIn, SeqFacts
<1> HIDE DEF T
<1>2. SubSeq(s, m, n) = [i \in 1 .. n + 1 - m |-> s[m + i - 1]]
  BY <1>1
<1>3. n + 1 - m \in Nat
  OBVIOUS
<1> DEFINE f == [i \in 1 .. n + 1 - m |-> s[m + i - 1]]
<1>4. IsSeq(f) /\ Len(f) = n + 1 - m
  BY <1>3, FunctionIsSeq
<1> QED
  BY <1>2, <1>4

\* The first n elements of a sequence, and the others.
Take(s, n) == SubSeq(s, 1, n)
Drop(s, n) == SubSeq(s, n + 1, Len(s))

LEMMA TakeIs ==
  ASSUME NEW s, IsSeq(s), NEW n \in Nat, n <= Len(s)
  PROVE  IsSeq(Take(s, n)) /\ Len(Take(s, n)) = n /\ \A i \in 1 .. n : Take(s, n)[i] = s[i]
<1> DEFINE t == Take(s, n)
<1>1. 1 \in Nat \ {0} /\ 1 <= n + 1 /\ n + 1 - 1 = n
  OBVIOUS
<1>2. IsSeq(t) /\ Len(t) = n + 1 - 1 /\ \A i \in 1 .. n + 1 - 1 : t[i] = s[1 + i - 1]
  BY <1>1, SubSeqIs DEF Take
<1> HIDE DEF t
<1>3. \A i \in 1 .. n : t[i] = s[1 + i - 1] /\ 1 + i - 1 = i
  BY <1>1, <1>2
<1> QED
  BY <1>1, <1>2, <1>3 DEF t

LEMMA DropIs ==
  ASSUME NEW s, IsSeq(s), NEW n \in Nat, n <= Len(s)
  PROVE  /\ IsSeq(Drop(s, n)) /\ Len(Drop(s, n)) = Len(s) - n
         /\ \A i \in 1 .. Len(s) - n : n + i \in 1 .. Len(s) /\ Drop(s, n)[i] = s[n + i]
<1> DEFINE l == Len(s)
           t == Drop(s, n)
<1>1. l \in Nat
  BY SeqFacts
<1>2. n + 1 \in Nat \ {0} /\ n + 1 <= l + 1 /\ l + 1 - (n + 1) = l - n
  BY <1>1
<1>3. /\ IsSeq(t) /\ Len(t) = l + 1 - (n + 1)
      /\ \A i \in 1 .. l + 1 - (n + 1) : t[i] = s[(n + 1) + i - 1]
  BY <1>1, <1>2, SubSeqIs DEF Drop
<1> HIDE DEF l, t
<1>4. ASSUME NEW i \in 1 .. l - n PROVE n + i \in 1 .. l /\ t[i] = s[n + i]
  <2>1. t[i] = s[(n + 1) + i - 1]
    BY <1>2, <1>3
  <2>2. (n + 1) + i - 1 = n + i /\ n + i \in 1 .. l
    BY <1>1
  <2> QED
    BY <2>1, <2>2
<1> QED
  BY <1>2, <1>3, <1>4 DEF l, t

-----------------------------------------------------------------------------
(* Blocks and the places in them.                                          *)

\* How many bytes k blocks have.
Base(k) == Rate * k

LEMMA BaseFacts ==
  /\ Rate \in Nat /\ Rate >= 1 /\ MaxRate \in Nat /\ Rate <= MaxRate
  /\ Base(0) = 0
  /\ \A k \in Nat : Base(k) \in Nat /\ Base(k + 1) = Base(k) + Rate
  /\ \A k \in Nat : k * Rate = Base(k) /\ Rate * k = Base(k)
<1>1. Rate \in Nat /\ Rate >= 1 /\ MaxRate \in Nat /\ Rate <= MaxRate
  BY RateAssumption
<1>2. Base(0) = 0
  BY <1>1 DEF Base
<1>3. \A k \in Nat : Base(k) \in Nat /\ Base(k + 1) = Base(k) + Rate
  BY <1>1 DEF Base
<1>4. \A k \in Nat : k * Rate = Base(k) /\ Rate * k = Base(k)
  BY <1>1 DEF Base
<1> QED
  BY <1>1, <1>2, <1>3, <1>4

\* What is in an earlier block is before a later one.
LEMMA BaseGrows ==
  ASSUME NEW k \in Nat, NEW n \in Nat, k < n
  PROVE  Base(k) + Rate <= Base(n)
<1>1. Rate \in Nat /\ k + 1 <= n
  BY BaseFacts
<1>2. Rate * (k + 1) <= Rate * n
  BY <1>1
<1>3. Rate * (k + 1) = Rate * k + Rate
  BY <1>1
<1> QED
  BY <1>2, <1>3 DEF Base

\* Division with remainder, in the form the provers know.
LEMMA Division ==
  \A a \in Int : \A n \in Int :
    n > 0 => /\ a = n * (a \div n) + (a % n) /\ a \div n \in Int
             /\ a % n \in 0 .. n - 1
OBVIOUS

\* The block of a byte, and its place there.
LEMMA Place ==
  ASSUME NEW k \in Nat, NEW r \in Nat, r < Rate
  PROVE  (Base(k) + r) \div Rate = k /\ (Base(k) + r) % Rate = r
<1> DEFINE x == Base(k) + r
           q == x \div Rate
           e == x % Rate
<1>1. x \in Nat /\ Rate \in Nat /\ Rate >= 1
  <2>1. Base(k) \in Nat /\ Rate \in Nat /\ Rate >= 1
    BY BaseFacts
  <2> QED
    BY <2>1
<1>2. x = Rate * q + e /\ q \in Int /\ e \in 0 .. Rate - 1
  <2> HIDE DEF x
  <2> QED
    BY <1>1, Division
<1>3. q \in Nat
  <2> SUFFICES ASSUME q < 0 PROVE FALSE
    BY <1>2
  <2> HIDE DEF x, q, e
  <2>1. Rate * q <= Rate * (-1)
    BY <1>1, <1>2
  <2>2. Rate * (-1) = -Rate
    BY <1>1
  <2>3. Rate * q \in Int
    BY <1>1, <1>2
  <2> QED
    BY <1>1, <1>2, <2>1, <2>2, <2>3
<1>4. x = Base(q) + e /\ Base(q) \in Nat /\ Base(k) \in Nat
  BY <1>2, <1>3, BaseFacts DEF Base
<1>5. k < q => Base(k) + Rate <= Base(q)
  BY <1>3, BaseGrows
<1>6. q < k => Base(q) + Rate <= Base(k)
  BY <1>3, BaseGrows
<1>7. x = Base(k) + r
  OBVIOUS
<1>8. q = k
  <2> HIDE DEF x, q, e
  <2> QED
    BY <1>1, <1>2, <1>3, <1>4, <1>5, <1>6, <1>7
<1>9. e = r
  <2> HIDE DEF x, q, e
  <2> QED
    BY <1>1, <1>2, <1>4, <1>7, <1>8
<1> QED
  BY <1>8, <1>9

Empties(m) == [j \in 1 .. m |-> <<>>]

LEMMA EmptiesFacts ==
  ASSUME NEW m \in Nat
  PROVE  IsSeq(Empties(m)) /\ Len(Empties(m)) = m /\ \A j \in 1 .. m : Empties(m)[j] = <<>>
BY FunctionIsSeq DEF Empties

\* The bytes of block k of an input.
Whole(inp, k) == [i \in 1 .. Rate |-> In(inp[Base(k - 1) + i])]

\* The last block, of which len bytes are input.
Last(inp, n, len) ==
  [i \in 1 .. Rate |->
     LET byte == CASE i <= len -> In(inp[Base(n) + i])
                   [] i = len + 1 -> In("ds")
                   [] OTHER -> In("zero")
     IN  IF i = Rate THEN Flipped(byte) ELSE byte]

LEMMA BlocksFacts ==
  ASSUME NEW inp, NEW n \in Nat, NEW len \in 0 .. Rate - 1, Len(inp) = Base(n) + len
  PROVE  /\ IsSeq(Blocks(inp)) /\ Len(Blocks(inp)) = n + 1
         /\ \A k \in 1 .. n : Blocks(inp)[k] = Whole(inp, k)
         /\ Blocks(inp)[n + 1] = Last(inp, n, len)
<1> DEFINE byte(i) == CASE i <= Len(inp) -> In(inp[i])
                        [] i = Len(inp) + 1 -> In("ds")
                        [] OTHER -> In("zero")
           padded(i) == IF i = Base(n + 1) THEN Flipped(byte(i)) ELSE byte(i)
           block(k) == [i \in 1 .. Rate |-> padded(Base(k - 1) + i)]
<1>1. /\ Rate \in Nat /\ Rate >= 1 /\ Base(n) \in Nat /\ len \in Nat /\ len < Rate
      /\ Base(n + 1) = Base(n) + Rate
  BY BaseFacts
<1>2. Len(inp) \div Rate = n
  BY <1>1, Place
<1>3. \A k \in 1 .. n + 1 : (k - 1) * Rate = Base(k - 1)
  BY BaseFacts
<1>4. (n + 1) * Rate = Base(n + 1)
  BY BaseFacts
<1>5. Blocks(inp) = [k \in 1 .. n + 1 |-> block(k)]
  BY <1>2, <1>3, <1>4 DEF Blocks
<1>6. IsSeq(Blocks(inp)) /\ Len(Blocks(inp)) = n + 1
  <2> HIDE DEF block
  <2> QED
    BY <1>5, FunctionIsSeq
<1>7. ASSUME NEW k \in 1 .. n
      PROVE  Blocks(inp)[k] = Whole(inp, k)
  <2>1. k - 1 \in Nat /\ k - 1 < n
    OBVIOUS
  <2>2. Base(k - 1) \in Nat /\ Base(k - 1) + Rate <= Base(n)
    BY <2>1, BaseFacts, BaseGrows
  <2>3. ASSUME NEW i \in 1 .. Rate
        PROVE  padded(Base(k - 1) + i) = In(inp[Base(k - 1) + i])
    <3> DEFINE x == Base(k - 1) + i
    <3>1. x <= Len(inp) /\ x # Base(n + 1)
      BY <1>1, <2>2
    <3> HIDE DEF x
    <3>2. byte(x) = In(inp[x])
      BY <3>1
    <3>3. padded(x) = In(inp[x])
      <4> HIDE DEF byte
      <4> QED
        BY <3>1, <3>2
    <3> QED
      BY <3>3 DEF x
  <2>4. block(k) = Whole(inp, k)
    <3> HIDE DEF padded
    <3> QED
      BY <2>3 DEF Whole
  <2>5. Blocks(inp)[k] = block(k)
    <3> HIDE DEF block
    <3> QED
      BY <1>5
  <2> QED
    BY <2>4, <2>5
<1>8. Blocks(inp)[n + 1] = Last(inp, n, len)
  <2>1. Blocks(inp)[n + 1] = [i \in 1 .. Rate |-> padded(Base(n) + i)]
    <3>1. n + 1 \in 1 .. n + 1 /\ (n + 1) - 1 = n
      OBVIOUS
    <3>2. Blocks(inp)[n + 1] = block(n + 1)
      <4> HIDE DEF block
      <4> QED
        BY <1>5, <3>1
    <3>3. block(n + 1) = [i \in 1 .. Rate |-> padded(Base(n) + i)]
      <4> HIDE DEF padded
      <4> QED
        BY <3>1
    <3> QED
      BY <3>2, <3>3
  <2>2. ASSUME NEW i \in 1 .. Rate
        PROVE  padded(Base(n) + i) = LET b == CASE i <= len -> In(inp[Base(n) + i])
                                           [] i = len + 1 -> In("ds")
                                           [] OTHER -> In("zero")
                                     IN  IF i = Rate THEN Flipped(b) ELSE b
    <3>1. /\ Base(n) + i <= Len(inp) <=> i <= len
          /\ Base(n) + i = Len(inp) + 1 <=> i = len + 1
          /\ Base(n) + i = Base(n + 1) <=> i = Rate
      BY <1>1
    <3>2. byte(Base(n) + i) = CASE i <= len -> In(inp[Base(n) + i])
                                [] i = len + 1 -> In("ds")
                                [] OTHER -> In("zero")
      BY <3>1
    <3> HIDE DEF byte
    <3> QED
      BY <3>1, <3>2
  <2> QED
    BY <2>1, <2>2 DEF Last
<1> QED
  BY <1>6, <1>7, <1>8

-----------------------------------------------------------------------------
(* Objects.                                                                *)

IsRecord(o) ==
  o = [a |-> o.a, storage |-> o.storage, off |-> o.off, len |-> o.len,
       squeezing |-> o.squeezing]

Shape(o) ==
  /\ IsRecord(o)
  /\ IsSeq(o.a)
  /\ IsSeq(o.storage) /\ Len(o.storage) = MaxRate

\* Blocks that were absorbed are the first ones of the input.
Absorbs(blocks, inp) == \A k \in 1 .. Len(blocks) : blocks[k] = Whole(inp, k)

\* The bytes of the input that follow the first x.
Follows(bytes, inp, x) == \A i \in 1 .. Len(bytes) : bytes[i] = In(inp[x + i])

\* An object that has absorbed the whole blocks of its input and holds what
\* follows in storage, but for the rest, which Write has still to absorb.
Absorbing(o, rest, inp) ==
  /\ o.squeezing = FALSE
  /\ o.off = 0 /\ o.len \in 0 .. Rate - 1
  /\ IsSeq(rest)
  /\ Len(inp) = Base(Len(o.a)) + o.len + Len(rest)
  /\ Absorbs(o.a, inp)
  /\ Follows(Take(o.storage, o.len), inp, Base(Len(o.a)))
  /\ Follows(rest, inp, Base(Len(o.a)) + o.len)

\* The state that has absorbed the padded input and was permuted m times since.
Permuted(inp, m) == Blocks(inp) \o Empties(m)

\* The bytes copied out of a state.
Holds(storage, state) == \A i \in 1 .. Rate : storage[i] = [of |-> state, at |-> i]

\* An object that squeezes this state and has given all before its offset.
SqueezingAt(o, inp, m) ==
  /\ o.squeezing = TRUE
  /\ o.off \in 0 .. Rate - 1 /\ o.len = Rate - o.off
  /\ o.a = Permuted(inp, m)
  /\ Holds(o.storage, o.a)

Squeezing(o, inp) == \E m \in Nat : SqueezingAt(o, inp, m)

LEMMA SliceIs ==
  ASSUME NEW o, IsRecord(o), NEW from, NEW to
  PROVE  /\ IsRecord(Slice(o, from, to))
         /\ Slice(o, from, to).a = o.a
         /\ Slice(o, from, to).storage = o.storage
         /\ Slice(o, from, to).off = from
         /\ Slice(o, from, to).len = to - from
         /\ Slice(o, from, to).squeezing = o.squeezing
<1> DEFINE n == to - from
           b == [o EXCEPT !.off = from]
           c == [b EXCEPT !.len = n]
<1>1. Slice(o, from, to) = c
  BY DEF Slice
<1> HIDE DEF n
<1>2. /\ IsRecord(b) /\ b.a = o.a /\ b.storage = o.storage
      /\ b.off = from /\ b.squeezing = o.squeezing
  BY DEF IsRecord
<1> HIDE DEF b
<1>3. /\ IsRecord(c) /\ c.a = b.a /\ c.storage = b.storage /\ c.off = b.off
      /\ c.len = n /\ c.squeezing = b.squeezing
  BY <1>2 DEF IsRecord
<1> QED
  BY <1>1, <1>2, <1>3 DEF n

LEMMA FillIs ==
  ASSUME NEW o, Shape(o), NEW bytes, IsSeq(bytes), Len(bytes) <= MaxRate
  PROVE  /\ Shape(Fill(o, bytes))
         /\ Fill(o, bytes).a = o.a
         /\ \A i \in 1 .. Len(bytes) : Fill(o, bytes).storage[i] = bytes[i]
         /\ Fill(o, bytes).off = o.off
         /\ Fill(o, bytes).len = o.len
         /\ Fill(o, bytes).squeezing = o.squeezing
<1> DEFINE tail == SubSeq(o.storage, Len(bytes) + 1, MaxRate)
           filled == bytes \o tail
<1>1. /\ Len(bytes) \in Nat /\ MaxRate \in Nat /\ IsRecord(o) /\ IsSeq(o.a)
      /\ IsSeq(o.storage) /\ Len(o.storage) = MaxRate
  BY SeqFacts, BaseFacts DEF Shape
<1>2. IsSeq(tail) /\ Len(tail) = MaxRate - Len(bytes)
  <2>1. /\ Len(bytes) + 1 \in Nat \ {0} /\ MaxRate <= Len(o.storage)
        /\ Len(bytes) + 1 <= MaxRate + 1
    BY <1>1
  <2>2. IsSeq(tail) /\ Len(tail) = MaxRate + 1 - (Len(bytes) + 1)
    BY <1>1, <2>1, SubSeqIs
  <2> QED
    BY <1>1, <2>2
<1>3. /\ IsSeq(filled) /\ Len(filled) = MaxRate
      /\ \A i \in 1 .. Len(bytes) : filled[i] = bytes[i]
  <2> HIDE DEF tail
  <2>1. /\ IsSeq(filled) /\ Len(filled) = Len(bytes) + Len(tail)
        /\ \A i \in 1 .. Len(bytes) : filled[i] = bytes[i]
    BY <1>2, ConcatIs
  <2> QED
    BY <1>1, <1>2, <2>1
<1>4. Fill(o, bytes) = [o EXCEPT !.storage = filled]
  BY DEF Fill
<1> HIDE DEF filled
<1>5. /\ Fill(o, bytes).a = o.a /\ Fill(o, bytes).storage = filled
      /\ Fill(o, bytes).off = o.off /\ Fill(o, bytes).len = o.len
      /\ Fill(o, bytes).squeezing = o.squeezing
      /\ IsRecord(Fill(o, bytes))
  BY <1>1, <1>4 DEF IsRecord
<1> QED
  BY <1>1, <1>3, <1>5 DEF Shape

\* What was filled in is what the buffer then begins with.
LEMMA FillTake ==
  ASSUME NEW o, Shape(o), NEW bytes, IsSeq(bytes), Len(bytes) <= MaxRate
  PROVE  Take(Fill(o, bytes).storage, Len(bytes)) = bytes
<1> DEFINE n == Len(bytes)
           st == Fill(o, bytes).storage
           t == Take(st, n)
<1>1. n \in Nat /\ n <= MaxRate
  BY SeqFacts
<1>2. IsSeq(st) /\ Len(st) = MaxRate /\ \A i \in 1 .. n : st[i] = bytes[i]
  BY FillIs DEF Shape
<1> HIDE DEF st
<1>3. IsSeq(t) /\ Len(t) = n /\ \A i \in 1 .. n : t[i] = st[i]
  BY <1>1, <1>2, TakeIs
<1> HIDE DEF t
<1>4. \A i \in 1 .. n : t[i] = bytes[i]
  BY <1>2, <1>3
<1> QED
  BY <1>3, <1>4, SeqEqual DEF n, t, st

\* Slice leaves the shape of an object.
LEMMA SliceShape ==
  ASSUME NEW o, Shape(o), NEW from, NEW to
  PROVE  Shape(Slice(o, from, to))
BY SliceIs DEF Shape

\* What the permutation is applied to while absorbing.
LEMMA AbsorbedIs ==
  ASSUME NEW o, Shape(o), o.off = 0, o.len = Rate
  PROVE  /\ Shape(Absorbed(o))
         /\ Absorbed(o).a = Append(o.a, Take(o.storage, Rate))
         /\ Absorbed(o).storage = o.storage
         /\ Absorbed(o).off = 0 /\ Absorbed(o).len = 0
         /\ Absorbed(o).squeezing = o.squeezing
<1> DEFINE block == Take(o.storage, Rate)
           b == [o EXCEPT !.a = Append(@, block)]
<1>1. /\ Rate \in Nat /\ IsRecord(o) /\ IsSeq(o.a) /\ IsSeq(o.storage)
      /\ Len(o.storage) = MaxRate
  BY BaseFacts DEF Shape
<1>2. o.off + 1 = 1 /\ o.off + o.len = Rate
  BY <1>1
<1>3. Absorbed(o) = Slice(b, 0, 0)
  BY <1>2 DEF Absorbed, Take
<1> HIDE DEF block
<1>4. IsSeq(Append(o.a, block))
  BY <1>1, AppendIs
<1>5. /\ b.a = Append(o.a, block) /\ b.storage = o.storage
      /\ b.squeezing = o.squeezing /\ IsRecord(b)
  BY <1>1 DEF IsRecord
<1>6. Shape(b)
  BY <1>1, <1>4, <1>5 DEF Shape
<1> HIDE DEF b
<1>7. Shape(Slice(b, 0, 0))
  BY <1>6, SliceShape
<1>8. /\ Slice(b, 0, 0).a = b.a /\ Slice(b, 0, 0).storage = b.storage
      /\ Slice(b, 0, 0).off = 0 /\ Slice(b, 0, 0).len = 0
      /\ Slice(b, 0, 0).squeezing = b.squeezing
  BY <1>5, SliceIs
<1> QED
  BY <1>3, <1>5, <1>7, <1>8 DEF block

\* The bytes copied out of a state.
LEMMA CopyOutIs ==
  ASSUME NEW a
  PROVE  /\ IsSeq(CopyOut(a)) /\ Len(CopyOut(a)) = Rate
         /\ \A i \in 1 .. Rate : CopyOut(a)[i] = [of |-> a, at |-> i]
<1>1. Rate \in Nat
  BY BaseFacts
<1> QED
  BY <1>1, FunctionIsSeq DEF CopyOut

\* The permutation while squeezing.
LEMMA SqueezedIs ==
  ASSUME NEW o, Shape(o)
  PROVE  /\ Shape(Squeezed(o))
         /\ Squeezed(o).a = Append(o.a, <<>>)
         /\ Squeezed(o).off = 0 /\ Squeezed(o).len = Rate
         /\ Squeezed(o).squeezing = o.squeezing
         /\ Holds(Squeezed(o).storage, Append(o.a, <<>>))
<1> DEFINE a == Append(o.a, <<>>)
           b == [o EXCEPT !.a = a]
           c == Fill(b, CopyOut(a))
<1>1. /\ Rate \in Nat /\ Rate <= MaxRate /\ MaxRate \in Nat
      /\ IsRecord(o) /\ IsSeq(o.a) /\ IsSeq(o.storage) /\ Len(o.storage) = MaxRate
  BY BaseFacts DEF Shape
<1>2. IsSeq(a)
  BY <1>1, AppendIs
<1>3. Squeezed(o) = Slice(c, 0, Rate)
  BY DEF Squeezed
<1> HIDE DEF a
<1>4. b.a = a /\ b.storage = o.storage /\ b.squeezing = o.squeezing /\ IsRecord(b)
  BY <1>1 DEF IsRecord
<1>5. Shape(b)
  BY <1>1, <1>2, <1>4 DEF Shape
<1> HIDE DEF b
<1>6. IsSeq(CopyOut(a)) /\ Len(CopyOut(a)) <= MaxRate /\ Len(CopyOut(a)) = Rate
  BY <1>1, CopyOutIs
<1>7. /\ Shape(c) /\ c.a = b.a /\ c.squeezing = b.squeezing
      /\ \A i \in 1 .. Rate : c.storage[i] = CopyOut(a)[i]
  BY <1>5, <1>6, FillIs
<1> HIDE DEF c
<1>8. /\ Shape(Slice(c, 0, Rate)) /\ Slice(c, 0, Rate).a = c.a
      /\ Slice(c, 0, Rate).storage = c.storage
      /\ Slice(c, 0, Rate).off = 0 /\ Slice(c, 0, Rate).len = Rate - 0
      /\ Slice(c, 0, Rate).squeezing = c.squeezing
  BY <1>7, SliceIs, SliceShape DEF Shape
<1>9. Holds(c.storage, a)
  BY <1>7, CopyOutIs DEF Holds
<1> QED
  BY <1>1, <1>3, <1>4, <1>7, <1>8, <1>9 DEF a

-----------------------------------------------------------------------------
(* Write.                                                                  *)

\* One block more has been absorbed.
LEMMA AppendWhole ==
  ASSUME NEW a, IsSeq(a), NEW inp, Absorbs(a, inp),
         NEW block, IsSeq(block), Len(block) = Rate, Follows(block, inp, Base(Len(a)))
  PROVE  /\ IsSeq(Append(a, block)) /\ Len(Append(a, block)) = Len(a) + 1
         /\ Absorbs(Append(a, block), inp)
<1> DEFINE n == Len(a)
           s == Append(a, block)
<1>1. n \in Nat
  BY SeqFacts
<1>2. /\ IsSeq(s) /\ Len(s) = n + 1 /\ s[n + 1] = block
      /\ \A k \in 1 .. n : s[k] = a[k]
  BY AppendIs
<1>3. \A i \in 1 .. Rate : block[i] = In(inp[Base(n) + i])
  BY DEF Follows
<1>4. \A k \in 1 .. n : a[k] = Whole(inp, k)
  BY DEF Absorbs
<1> HIDE DEF n, s
<1>5. (n + 1) - 1 = n
  BY <1>1
<1>6. block = Whole(inp, n + 1)
  <2>1. block = [i \in 1 .. Rate |-> block[i]]
    BY SeqFacts
  <2> QED
    BY <1>3, <1>5, <2>1 DEF Whole
<1>7. \A k \in 1 .. n + 1 : k \in 1 .. n \/ k = n + 1
  BY <1>1
<1>8. \A k \in 1 .. n + 1 : s[k] = Whole(inp, k)
  BY <1>2, <1>4, <1>6, <1>7
<1>9. Absorbs(s, inp)
  BY <1>2, <1>8 DEF Absorbs
<1> QED
  BY <1>2, <1>9 DEF n, s
\* The second part of what follows is what follows the first part.
LEMMA DropFollows ==
  ASSUME NEW s, IsSeq(s), NEW n \in Nat, n <= Len(s), NEW inp, NEW x \in Nat, Follows(s, inp, x)
  PROVE  Follows(Drop(s, n), inp, x + n)
<1> DEFINE t == Drop(s, n)
           l == Len(s)
<1>1. l \in Nat
  BY SeqFacts
<1>2. Len(t) = l - n /\ \A i \in 1 .. l - n : n + i \in 1 .. l /\ t[i] = s[n + i]
  BY DropIs
<1>3. \A i \in 1 .. l : s[i] = In(inp[x + i])
  BY DEF Follows
<1> HIDE DEF t, l
<1>4. ASSUME NEW i \in 1 .. l - n PROVE t[i] = In(inp[x + n + i])
  <2>1. x + (n + i) = x + n + i
    BY <1>1
  <2> QED
    BY <1>2, <1>3, <2>1
<1>5. \A i \in 1 .. Len(t) : t[i] = In(inp[x + n + i])
  BY <1>2, <1>4
<1> QED
  BY <1>5 DEF Follows, t

LEMMA TakeFollows ==
  ASSUME NEW s, IsSeq(s), NEW n \in Nat, n <= Len(s), NEW inp, NEW x, Follows(s, inp, x)
  PROVE  Follows(Take(s, n), inp, x)
<1> DEFINE t == Take(s, n)
           l == Len(s)
<1>1. l \in Nat /\ n <= l
  BY SeqFacts
<1>2. Len(t) = n /\ \A i \in 1 .. n : t[i] = s[i]
  BY TakeIs
<1>3. \A i \in 1 .. l : s[i] = In(inp[x + i])
  BY DEF Follows
<1> HIDE DEF t, l
<1>4. \A i \in 1 .. Len(t) : t[i] = In(inp[x + i])
  BY <1>1, <1>2, <1>3
<1> QED
  BY <1>4 DEF Follows, t

\* What follows, and what follows that.
LEMMA ConcatFollows ==
  ASSUME NEW s, IsSeq(s), NEW t, IsSeq(t), NEW inp, NEW x \in Nat,
         Follows(s, inp, x), Follows(t, inp, x + Len(s))
  PROVE  Follows(s \o t, inp, x)
<1> DEFINE u == s \o t
           m == Len(s)
           n == Len(t)
<1>1. m \in Nat /\ n \in Nat
  BY SeqFacts
<1>2. /\ Len(u) = m + n /\ \A i \in 1 .. m : u[i] = s[i]
      /\ \A i \in 1 .. n : u[m + i] = t[i]
  BY ConcatIs
<1>3. \A i \in 1 .. m : s[i] = In(inp[x + i])
  BY DEF Follows
<1>4. \A i \in 1 .. n : t[i] = In(inp[x + m + i])
  BY DEF Follows
<1> HIDE DEF u, m, n
<1>5. ASSUME NEW i \in 1 .. m + n PROVE u[i] = In(inp[x + i])
  <2>1. CASE i <= m
    <3>1. i \in 1 .. m
      BY <1>1, <2>1
    <3> QED
      BY <1>2, <1>3, <3>1
  <2>2. CASE i > m
    <3> DEFINE j == i - m
    <3>1. j \in 1 .. n /\ m + j = i /\ x + m + j = x + i
      BY <1>1, <2>2
    <3> HIDE DEF j
    <3>2. u[i] = t[j] /\ t[j] = In(inp[x + m + j])
      BY <1>2, <1>4, <3>1
    <3> QED
      BY <3>1, <3>2
  <2> QED
    BY <1>1, <2>1, <2>2
<1>6. \A i \in 1 .. Len(u) : u[i] = In(inp[x + i])
  BY <1>2, <1>5
<1> QED
  BY <1>6 DEF Follows, u

\* The buffer that was absorbed is empty.
LEMMA NothingFollows ==
  ASSUME NEW o, Shape(o), o.len = 0, NEW inp, NEW x
  PROVE  Follows(Take(o.storage, o.len), inp, x)
<1>1. MaxRate \in Nat /\ IsSeq(o.storage) /\ Len(o.storage) = MaxRate
  BY BaseFacts DEF Shape
<1>2. 0 \in Nat /\ 0 <= Len(o.storage)
  BY <1>1
<1>3. Len(Take(o.storage, o.len)) = 0
  BY <1>1, <1>2, TakeIs
<1>4. \A i \in 1 .. 0 : FALSE
  OBVIOUS
<1> QED
  BY <1>3, <1>4 DEF Follows

\* A whole block of the rest is absorbed.
AfterFast(o, rest) == [o EXCEPT !.a = Append(@, Take(rest, Rate))]

LEMMA FastPathKeeps ==
  ASSUME NEW o, Shape(o), NEW rest, NEW inp, Absorbing(o, rest, inp),
         o.len = 0, Len(rest) >= Rate
  PROVE  /\ Shape(AfterFast(o, rest))
         /\ Absorbing(AfterFast(o, rest), Drop(rest, Rate), inp)
<1> DEFINE n == Len(o.a)
           l == Len(rest)
           b == Base(n)
           block == Take(rest, Rate)
           blocks == Append(o.a, block)
           o1 == AfterFast(o, rest)
           rest1 == Drop(rest, Rate)
<1>1. /\ IsRecord(o) /\ IsSeq(o.a) /\ IsSeq(o.storage) /\ Len(o.storage) = MaxRate
      /\ IsSeq(rest) /\ o.squeezing = FALSE /\ o.off = 0 /\ Absorbs(o.a, inp)
  BY DEF Shape, Absorbing
<1>2. Rate \in Nat /\ Rate >= 1 /\ n \in Nat /\ l \in Nat /\ Rate <= l
  BY <1>1, BaseFacts, SeqFacts
<1>3. b \in Nat /\ Base(n + 1) = b + Rate
  BY <1>2, BaseFacts
<1>4. Len(inp) = b + 0 + l /\ Follows(rest, inp, b + 0) /\ b + 0 = b
  BY <1>3 DEF Absorbing
<1>5. IsSeq(block) /\ Len(block) = Rate /\ Follows(block, inp, b)
  BY <1>1, <1>2, <1>4, TakeIs, TakeFollows
<1>6. IsSeq(rest1) /\ Len(rest1) = l - Rate
  BY <1>1, <1>2, DropIs
<1>7. Follows(rest1, inp, b + Rate)
  <2> HIDE DEF b
  <2> QED
    BY <1>1, <1>2, <1>3, <1>4, DropFollows
<1> HIDE DEF block, l, o1, rest1
<1>8. IsSeq(blocks) /\ Len(blocks) = n + 1 /\ Absorbs(blocks, inp)
  BY <1>1, <1>5, AppendWhole
<1> HIDE DEF b
<1>9. /\ o1.a = blocks /\ o1.storage = o.storage /\ o1.off = o.off
      /\ o1.len = o.len /\ o1.squeezing = o.squeezing /\ IsRecord(o1)
  BY <1>1 DEF IsRecord, block, o1, AfterFast
<1> HIDE DEF blocks, n
<1>10. Shape(o1)
  BY <1>1, <1>8, <1>9 DEF Shape
<1>11. Base(Len(o1.a)) + o1.len = b + Rate
  BY <1>2, <1>3, <1>8, <1>9
<1>12. Len(inp) = Base(Len(o1.a)) + o1.len + Len(rest1)
  BY <1>2, <1>3, <1>4, <1>6, <1>11
<1>13. o1.len \in 0 .. Rate - 1 /\ Follows(Take(o1.storage, o1.len), inp, Base(Len(o1.a)))
  <2>1. o1.len = 0 /\ o1.len \in 0 .. Rate - 1
    BY <1>2, <1>9
  <2> QED
    BY <1>10, <2>1, NothingFollows
<1>14. Absorbing(o1, rest1, inp)
  BY <1>1, <1>6, <1>7, <1>8, <1>9, <1>11, <1>12, <1>13 DEF Absorbing
<1> QED
  BY <1>10, <1>14 DEF o1, rest1
\* The buffer with n more bytes of the rest.
WithBytes(o, rest, n) ==
  Slice(Fill(o, Take(o.storage, o.len) \o Take(rest, n)), 0, o.len + n)

AfterSlow(o, rest, n) ==
  LET filled == WithBytes(o, rest, n)
  IN  IF filled.len = Rate THEN permute(filled) ELSE filled

\* The buffer then holds what follows the blocks.
LEMMA WithBytesIs ==
  ASSUME NEW o, Shape(o), NEW rest, NEW inp, Absorbing(o, rest, inp),
         NEW n \in Nat, n <= Rate - o.len, n <= Len(rest)
  PROVE  /\ Shape(WithBytes(o, rest, n))
         /\ WithBytes(o, rest, n).a = o.a
         /\ WithBytes(o, rest, n).off = 0
         /\ WithBytes(o, rest, n).len = o.len + n
         /\ WithBytes(o, rest, n).squeezing = FALSE
         /\ IsSeq(Take(WithBytes(o, rest, n).storage, o.len + n))
         /\ Len(Take(WithBytes(o, rest, n).storage, o.len + n)) = o.len + n
         /\ Follows(Take(WithBytes(o, rest, n).storage, o.len + n), inp, Base(Len(o.a)))
<1> DEFINE b == Base(Len(o.a))
           l == Len(rest)
           x == o.len
           y == x + n
           old == Take(o.storage, x)
           new == Take(rest, n)
           bytes == old \o new
           f == Fill(o, bytes)
           filled == WithBytes(o, rest, n)
<1>1. /\ IsRecord(o) /\ IsSeq(o.a) /\ IsSeq(o.storage) /\ Len(o.storage) = MaxRate
      /\ IsSeq(rest) /\ o.squeezing = FALSE /\ o.off = 0
  BY DEF Shape, Absorbing
<1>2. /\ Rate \in Nat /\ MaxRate \in Nat /\ Rate <= MaxRate
      /\ Len(o.a) \in Nat /\ l \in Nat
  BY <1>1, BaseFacts, SeqFacts
<1>3. x \in Nat /\ y \in Nat /\ n <= l /\ y <= Rate /\ y <= MaxRate /\ x <= MaxRate
  BY <1>2 DEF Absorbing
<1>4. b \in Nat
  BY <1>2, BaseFacts
<1>5. Follows(old, inp, b) /\ Follows(rest, inp, b + x)
  BY DEF Absorbing
<1>6. IsSeq(old) /\ Len(old) = x
  BY <1>1, <1>3, TakeIs
<1>7. IsSeq(new) /\ Len(new) = n /\ Follows(new, inp, b + x)
  BY <1>1, <1>3, <1>5, TakeIs, TakeFollows
<1>8. filled = Slice(f, 0, y)
  BY DEF WithBytes
<1> HIDE DEF l, b, old, new, filled
<1>9. IsSeq(bytes) /\ Len(bytes) = y
  <2>1. IsSeq(old) /\ IsSeq(new)
    BY <1>6, <1>7
  <2>2. IsSeq(old \o new) /\ Len(old \o new) = Len(old) + Len(new)
    BY <2>1, ConcatIs
  <2> HIDE DEF bytes, x
  <2>3. IsSeq(bytes) /\ Len(bytes) = Len(old) + Len(new)
    BY <2>2 DEF bytes
  <2> QED
    BY <1>6, <1>7, <2>3
<1>10. Follows(bytes, inp, b)
  BY <1>4, <1>5, <1>6, <1>7, ConcatFollows
<1> HIDE DEF bytes, x, y
<1>11. Len(bytes) <= MaxRate
  BY <1>3, <1>9
<1>12. Shape(f) /\ f.a = o.a /\ f.squeezing = FALSE
  BY <1>1, <1>9, <1>11, FillIs
<1>13. Take(f.storage, y) = bytes
  BY <1>9, <1>11, FillTake
<1> HIDE DEF f
<1>14. Shape(filled)
  BY <1>8, <1>12, SliceShape
<1>15. /\ filled.a = f.a /\ filled.storage = f.storage /\ filled.squeezing = f.squeezing
       /\ filled.off = 0 /\ filled.len = y - 0
  BY <1>8, <1>12, SliceIs DEF Shape
<1>16. filled.len = y
  BY <1>3, <1>15
<1>17. Take(filled.storage, y) = bytes
  BY <1>13, <1>15
<1>18. /\ Shape(filled) /\ filled.a = o.a /\ filled.off = 0 /\ filled.len = y
       /\ filled.squeezing = FALSE /\ IsSeq(Take(filled.storage, y))
       /\ Len(Take(filled.storage, y)) = y /\ Follows(Take(filled.storage, y), inp, b)
  BY <1>9, <1>10, <1>12, <1>14, <1>15, <1>16, <1>17
<1> QED
  BY <1>18 DEF filled, y, x, b

\* Some bytes of the rest are added to the buffer, which is absorbed when full.
LEMMA SlowPathKeeps ==
  ASSUME NEW o, Shape(o), NEW rest, NEW inp, Absorbing(o, rest, inp),
         NEW n \in Nat, n <= Rate - o.len, n <= Len(rest)
  PROVE  /\ Shape(AfterSlow(o, rest, n))
         /\ Absorbing(AfterSlow(o, rest, n), Drop(rest, n), inp)
<1> DEFINE b == Base(Len(o.a))
           l == Len(rest)
           y == o.len + n
           filled == WithBytes(o, rest, n)
           bytes == Take(filled.storage, y)
           o1 == AfterSlow(o, rest, n)
           rest1 == Drop(rest, n)
<1>1. IsSeq(o.a) /\ IsSeq(rest) /\ Absorbs(o.a, inp)
  BY DEF Shape, Absorbing
<1>2. Rate \in Nat /\ Rate >= 1 /\ Len(o.a) \in Nat /\ l \in Nat
  BY <1>1, BaseFacts, SeqFacts
<1>3. o.len \in Nat /\ y \in Nat /\ n <= l /\ y <= Rate
  BY <1>2 DEF Absorbing
<1>4. b \in Nat /\ Base(Len(o.a) + 1) = b + Rate
  BY <1>2, BaseFacts
<1>5. Len(inp) = b + o.len + l /\ Follows(rest, inp, b + o.len)
  BY DEF Absorbing
<1>6. /\ Shape(filled) /\ filled.a = o.a /\ filled.off = 0 /\ filled.len = y
      /\ filled.squeezing = FALSE
      /\ IsSeq(bytes) /\ Len(bytes) = y /\ Follows(bytes, inp, b)
  BY WithBytesIs
<1>7. IsSeq(rest1) /\ Len(rest1) = l - n
  BY <1>1, <1>3, DropIs
<1>8. Follows(rest1, inp, b + y)
  <2>1. b + o.len \in Nat /\ b + o.len + n = b + y
    BY <1>3, <1>4
  <2> HIDE DEF b, y
  <2>2. Follows(rest1, inp, b + o.len + n)
    BY <1>1, <1>3, <1>5, <2>1, DropFollows
  <2> QED
    BY <2>1, <2>2
<1>9. Len(inp) = b + y + Len(rest1)
  <2> HIDE DEF b, rest1, l
  <2> QED
    BY <1>2, <1>3, <1>4, <1>5, <1>7
<1>10. o1 = IF filled.len = Rate THEN permute(filled) ELSE filled
  BY DEF AfterSlow
<1> HIDE DEF filled, y, l, b, o1, rest1
<1>11. CASE filled.len # Rate
  <2>1. o1 = filled
    BY <1>10, <1>11
  <2>2. y \in 0 .. Rate - 1
    BY <1>2, <1>3, <1>6, <1>11
  <2>3. Absorbing(filled, rest1, inp)
    BY <1>1, <1>6, <1>7, <1>8, <1>9, <2>2 DEF Absorbing, b
  <2> QED
    BY <1>6, <2>1, <2>3 DEF o1, rest1
<1>12. CASE filled.len = Rate
  <2>1. o1 = Absorbed(filled)
    BY <1>6, <1>10, <1>12 DEF permute
  <2>2. y = Rate
    BY <1>6, <1>12
  <2>3. /\ Shape(o1) /\ o1.a = Append(o.a, bytes)
        /\ o1.off = 0 /\ o1.len = 0 /\ o1.squeezing = FALSE
    BY <1>6, <2>1, <2>2, AbsorbedIs
  <2> HIDE DEF bytes
  <2>4. Len(o1.a) = Len(o.a) + 1 /\ Absorbs(o1.a, inp)
    BY <1>1, <1>6, <2>2, <2>3, AppendWhole DEF b
  <2>5. Base(Len(o1.a)) = b + Rate
    BY <1>4, <2>4
  <2>6. Base(Len(o1.a)) + o1.len = b + y
    BY <1>2, <1>4, <2>2, <2>3, <2>5
  <2>7. o1.len \in 0 .. Rate - 1
    BY <1>2, <2>3
  <2>8. Follows(Take(o1.storage, o1.len), inp, Base(Len(o1.a)))
    BY <2>3, NothingFollows
  <2>9. Absorbing(o1, rest1, inp)
    BY <1>7, <1>8, <1>9, <2>3, <2>4, <2>6, <2>7, <2>8 DEF Absorbing
  <2> QED
    BY <2>3, <2>9 DEF o1, rest1
<1> QED
  BY <1>11, <1>12
-----------------------------------------------------------------------------
(* Padding.                                                                *)

\* What padAndPermute makes of the buffer, before and after the last bit is set.
Unflipped(bytes, len) ==
  bytes \o <<In("ds")>> \o [i \in 1 .. Rate - len - 1 |-> In("zero")]
FlipLast(s) == [s EXCEPT ![Rate] = Flipped(@)]

LEMMA UnflippedIs ==
  ASSUME NEW len \in 0 .. Rate - 1, NEW bytes, IsSeq(bytes), Len(bytes) = len
  PROVE  /\ IsSeq(Unflipped(bytes, len)) /\ Len(Unflipped(bytes, len)) = Rate
         /\ \A i \in 1 .. Rate :
              Unflipped(bytes, len)[i] = CASE i <= len -> bytes[i]
                                           [] i = len + 1 -> In("ds")
                                           [] OTHER -> In("zero")
<1> DEFINE ds == <<In("ds")>>
           r == Rate - len - 1
           zeros == [i \in 1 .. r |-> In("zero")]
           first == bytes \o ds
           s == first \o zeros
<1>1. Rate \in Nat /\ len \in Nat /\ len < Rate /\ r \in Nat
  BY BaseFacts
<1>2. IsSeq(ds) /\ Len(ds) = 1 /\ ds[1] = In("ds")
  <2> DEFINE z == In("ds")
  <2> HIDE DEF z
  <2>1. <<z>> \in Seq({z}) /\ Len(<<z>>) = 1 /\ <<z>>[1] = z
    OBVIOUS
  <2>2. IsSeq(<<z>>)
    BY <2>1 DEF IsSeq
  <2> QED
    BY <2>1, <2>2 DEF z
<1>3. IsSeq(zeros) /\ Len(zeros) = r /\ \A i \in 1 .. r : zeros[i] = In("zero")
  <2> DEFINE z == In("zero")
  <2> HIDE DEF z, r
  <2>1. IsSeq([i \in 1 .. r |-> z]) /\ Len([i \in 1 .. r |-> z]) = r
    BY <1>1, FunctionIsSeq
  <2>2. \A i \in 1 .. r : [j \in 1 .. r |-> z][i] = z
    OBVIOUS
  <2> QED
    BY <2>1, <2>2 DEF z
<1> HIDE DEF ds, zeros
<1>4. /\ IsSeq(first) /\ Len(first) = len + 1
      /\ \A i \in 1 .. len : first[i] = bytes[i]
      /\ first[len + 1] = In("ds")
  <2>1. /\ IsSeq(first) /\ Len(first) = Len(bytes) + Len(ds)
        /\ \A i \in 1 .. Len(bytes) : first[i] = bytes[i]
        /\ \A i \in 1 .. Len(ds) : first[Len(bytes) + i] = ds[i]
    <3>1. Joins(first, bytes, ds)
      BY <1>2, ConcatJoins
    <3> QED
      BY <3>1 DEF Joins
  <2> HIDE DEF first
  <2>2. \A i \in 1 .. 1 : first[len + i] = ds[i]
    BY <1>2, <2>1
  <2> QED
    BY <1>2, <2>1, <2>2
<1> HIDE DEF first
<1>5. /\ IsSeq(s) /\ Len(s) = len + 1 + r
      /\ \A i \in 1 .. len + 1 : s[i] = first[i]
      /\ \A i \in 1 .. r : s[len + 1 + i] = zeros[i]
  <2>1. /\ IsSeq(s) /\ Len(s) = Len(first) + Len(zeros)
        /\ \A i \in 1 .. Len(first) : s[i] = first[i]
        /\ \A i \in 1 .. Len(zeros) : s[Len(first) + i] = zeros[i]
    <3>1. Joins(s, first, zeros)
      BY <1>3, <1>4, ConcatJoins
    <3> QED
      BY <3>1 DEF Joins
  <2> HIDE DEF s
  <2> QED
    BY <1>3, <1>4, <2>1
<1>6. s = Unflipped(bytes, len)
  BY DEF Unflipped, first, ds, zeros
<1> HIDE DEF s
<1>7. ASSUME NEW i \in 1 .. Rate
      PROVE  s[i] = CASE i <= len -> bytes[i]
                      [] i = len + 1 -> In("ds")
                      [] OTHER -> In("zero")
  <2>1. CASE i <= len
    <3>1. i \in 1 .. len /\ i \in 1 .. len + 1
      BY <1>1, <2>1
    <3>2. s[i] = bytes[i]
      BY <1>4, <1>5, <3>1
    <3> QED
      BY <2>1, <3>2
  <2>2. CASE i = len + 1
    <3>1. i \in 1 .. len + 1 /\ ~(i <= len)
      BY <1>1, <2>2
    <3>2. s[i] = In("ds")
      BY <1>4, <1>5, <2>2, <3>1
    <3> QED
      BY <2>2, <3>1, <3>2
  <2>3. CASE i > len + 1
    <3> DEFINE j == i - (len + 1)
    <3>1. j \in 1 .. r /\ len + 1 + j = i /\ ~(i <= len) /\ i # len + 1
      BY <1>1, <2>3
    <3> HIDE DEF j
    <3>2. s[i] = In("zero")
      BY <1>3, <1>5, <3>1
    <3> QED
      BY <3>1, <3>2
  <2> QED
    BY <1>1, <2>1, <2>2, <2>3
<1>8. Len(s) = Rate
  BY <1>1, <1>5
<1> QED
  BY <1>5, <1>6, <1>7, <1>8

\* With the last bit set this is the last block of the padded input.
LEMMA PaddingIsLast ==
  ASSUME NEW inp, NEW n \in Nat, NEW len \in 0 .. Rate - 1,
         NEW bytes, IsSeq(bytes), Len(bytes) = len, Follows(bytes, inp, Base(n))
  PROVE  FlipLast(Unflipped(bytes, len)) = Last(inp, n, len)
<1> DEFINE s == Unflipped(bytes, len)
           byte(i) == CASE i <= len -> In(inp[Base(n) + i])
                        [] i = len + 1 -> In("ds")
                        [] OTHER -> In("zero")
<1>1. Rate \in Nat /\ len \in Nat
  BY BaseFacts
<1>2. /\ IsSeq(s) /\ Len(s) = Rate
      /\ \A i \in 1 .. Rate : s[i] = CASE i <= len -> bytes[i]
                                      [] i = len + 1 -> In("ds")
                                      [] OTHER -> In("zero")
  BY UnflippedIs
<1>3. \A i \in 1 .. len : bytes[i] = In(inp[Base(n) + i])
  BY DEF Follows
<1> HIDE DEF s
<1>4. \A i \in 1 .. Rate : s[i] = byte(i)
  <2> TAKE i \in 1 .. Rate
  <2>1. CASE i <= len
    <3>1. i \in 1 .. len
      BY <1>1, <2>1
    <3>2. s[i] = bytes[i]
      BY <1>2, <2>1
    <3> QED
      BY <1>3, <2>1, <3>1, <3>2
  <2>2. CASE ~(i <= len)
    BY <1>2, <2>2
  <2> QED
    BY <2>1, <2>2
<1> HIDE DEF byte
<1>5. DOMAIN s = 1 .. Rate /\ s = [i \in 1 .. Rate |-> s[i]]
  BY <1>2, SeqFacts
<1>6. FlipLast(s) = [i \in 1 .. Rate |-> IF i = Rate THEN Flipped(byte(i)) ELSE byte(i)]
  BY <1>4, <1>5 DEF FlipLast
<1> QED
  BY <1>6 DEF Last, s, byte
\* All blocks of the padded input have the length of the rate.
LEMMA BlocksAre ==
  ASSUME NEW inp, IsSeq(inp)
  PROVE  /\ IsSeq(Blocks(inp))
         /\ \A k \in 1 .. Len(Blocks(inp)) : IsSeq(Blocks(inp)[k]) /\ Len(Blocks(inp)[k]) = Rate
<1> DEFINE l == Len(inp)
           n == l \div Rate
           e == l % Rate
           s == Blocks(inp)
<1>1. l \in Nat /\ Rate \in Nat /\ Rate >= 1
  BY SeqFacts, BaseFacts
<1>2. l = Rate * n + e /\ n \in Int /\ e \in 0 .. Rate - 1
  <2> HIDE DEF l
  <2> QED
    BY <1>1, Division
<1> HIDE DEF n, e
<1>3. n \in Nat
  <2> SUFFICES ASSUME n < 0 PROVE FALSE
    BY <1>2
  <2> HIDE DEF l
  <2>1. Rate * n <= Rate * (-1)
    BY <1>1, <1>2
  <2>2. Rate * (-1) = -Rate
    BY <1>1
  <2>3. Rate * n \in Int
    BY <1>1, <1>2
  <2> QED
    BY <1>1, <1>2, <2>1, <2>2, <2>3
<1>4. l = Base(n) + e
  BY <1>2 DEF Base
<1>5. /\ IsSeq(s) /\ Len(s) = n + 1
      /\ \A k \in 1 .. n : s[k] = Whole(inp, k)
      /\ s[n + 1] = Last(inp, n, e)
  BY <1>2, <1>3, <1>4, BlocksFacts
<1>6. \A k : IsSeq(Whole(inp, k)) /\ Len(Whole(inp, k)) = Rate
  BY <1>1, FunctionIsSeq DEF Whole
<1>7. IsSeq(Last(inp, n, e)) /\ Len(Last(inp, n, e)) = Rate
  <2> DEFINE byte(i) == LET b == CASE i <= e -> In(inp[Base(n) + i])
                                   [] i = e + 1 -> In("ds")
                                   [] OTHER -> In("zero")
                        IN  IF i = Rate THEN Flipped(b) ELSE b
  <2>1. Last(inp, n, e) = [i \in 1 .. Rate |-> byte(i)]
    BY DEF Last
  <2> HIDE DEF byte
  <2> QED
    BY <1>1, <2>1, FunctionIsSeq
<1> HIDE DEF s
<1>8. \A k \in 1 .. n + 1 : k \in 1 .. n \/ k = n + 1
  BY <1>3
<1>9. \A k \in 1 .. n + 1 : IsSeq(s[k]) /\ Len(s[k]) = Rate
  BY <1>5, <1>6, <1>7, <1>8
<1> QED
  BY <1>5, <1>9 DEF s

LEMMA PermutedIs ==
  ASSUME NEW inp, IsSeq(inp), NEW m \in Nat
  PROVE  /\ IsSeq(Permuted(inp, m)) /\ Len(Permuted(inp, m)) = Len(Blocks(inp)) + m
         /\ \A k \in 1 .. Len(Blocks(inp)) : Permuted(inp, m)[k] = Blocks(inp)[k]
         /\ \A k \in 1 .. m : Permuted(inp, m)[Len(Blocks(inp)) + k] = <<>>
<1> DEFINE s == Blocks(inp)
           t == Empties(m)
           u == Permuted(inp, m)
<1>1. IsSeq(s) /\ IsSeq(t) /\ Len(t) = m /\ \A j \in 1 .. m : t[j] = <<>>
  BY BlocksAre, EmptiesFacts
<1>2. Joins(s \o t, s, t)
  BY <1>1, ConcatJoins
<1>3. Joins(u, s, t)
  BY <1>2 DEF Permuted
<1> HIDE DEF s, t, u
<1>4. /\ IsSeq(u) /\ Len(u) = Len(s) + m
      /\ \A i \in 1 .. Len(s) : u[i] = s[i]
      /\ \A i \in 1 .. m : u[Len(s) + i] = <<>>
  BY <1>1, <1>3 DEF Joins
<1> QED
  BY <1>4 DEF s, u

\* Before it is permuted, and once more.
LEMMA PermutedZero ==
  ASSUME NEW inp, IsSeq(inp)
  PROVE  Permuted(inp, 0) = Blocks(inp)
<1> DEFINE s == Blocks(inp)
           u == Permuted(inp, 0)
<1>1. IsSeq(u) /\ Len(u) = Len(s) + 0 /\ \A k \in 1 .. Len(s) : u[k] = s[k]
  BY PermutedIs
<1>2. IsSeq(s)
  BY BlocksAre
<1> HIDE DEF s, u
<1>3. Len(u) = Len(s)
  BY <1>1, <1>2, SeqFacts
<1> QED
  BY <1>1, <1>2, <1>3, SeqEqual DEF s, u

LEMMA PermutedMore ==
  ASSUME NEW inp, IsSeq(inp), NEW m \in Nat
  PROVE  Append(Permuted(inp, m), <<>>) = Permuted(inp, m + 1)
<1> DEFINE l == Len(Blocks(inp))
           u == Permuted(inp, m)
           v == Permuted(inp, m + 1)
           w == Append(u, <<>>)
<1>1. l \in Nat
  BY BlocksAre, SeqFacts
<1>2. /\ IsSeq(u) /\ Len(u) = l + m
      /\ \A k \in 1 .. l : u[k] = Blocks(inp)[k]
      /\ \A k \in 1 .. m : u[l + k] = <<>>
  BY PermutedIs
<1>3. /\ IsSeq(v) /\ Len(v) = l + (m + 1)
      /\ \A k \in 1 .. l : v[k] = Blocks(inp)[k]
      /\ \A k \in 1 .. m + 1 : v[l + k] = <<>>
  <2> DEFINE n == m + 1
  <2>1. n \in Nat
    OBVIOUS
  <2> HIDE DEF n
  <2>2. /\ IsSeq(Permuted(inp, n)) /\ Len(Permuted(inp, n)) = l + n
        /\ \A k \in 1 .. l : Permuted(inp, n)[k] = Blocks(inp)[k]
        /\ \A k \in 1 .. n : Permuted(inp, n)[l + k] = <<>>
    BY <2>1, PermutedIs
  <2> QED
    BY <2>2 DEF n
<1> HIDE DEF l, u, v
<1>4. /\ IsSeq(w) /\ Len(w) = Len(u) + 1 /\ w[Len(u) + 1] = <<>>
      /\ \A k \in 1 .. Len(u) : w[k] = u[k]
  BY <1>2, AppendIs
<1> HIDE DEF w
<1>5. ASSUME NEW k \in 1 .. Len(w) PROVE w[k] = v[k]
  <2>1. CASE k <= l
    <3>1. k \in 1 .. l /\ k \in 1 .. Len(u)
      BY <1>1, <1>2, <2>1
    <3> QED
      BY <1>2, <1>3, <1>4, <3>1
  <2>2. CASE k > l
    <3> DEFINE j == k - l
    <3>1. j \in 1 .. m + 1 /\ l + j = k
      BY <1>1, <1>2, <1>4, <2>2
    <3>2. j \in 1 .. m \/ j = m + 1
      BY <3>1
    <3>3. l + (m + 1) = Len(u) + 1 /\ \A i \in 1 .. m : l + i \in 1 .. Len(u)
      BY <1>1, <1>2
    <3> HIDE DEF j
    <3>4. v[k] = <<>>
      BY <1>3, <3>1
    <3>5. w[k] = <<>>
      BY <1>2, <1>4, <3>1, <3>2, <3>3
    <3> QED
      BY <3>4, <3>5
  <2> QED
    BY <1>1, <1>2, <1>4, <2>1, <2>2
<1>6. Len(w) = Len(v)
  BY <1>1, <1>2, <1>3, <1>4
<1> QED
  BY <1>3, <1>4, <1>5, <1>6, SeqEqual DEF u, v, w
\* An input that has been written to the end is padded and squeezed.
LEMMA PadIs ==
  ASSUME NEW o, Shape(o), NEW inp, IsSeq(inp), Absorbing(o, <<>>, inp)
  PROVE  /\ Shape(padAndPermute(o))
         /\ SqueezingAt(padAndPermute(o), inp, 0)
         /\ padAndPermute(o).off = 0
<1> DEFINE n == Len(o.a)
           bytes == Take(o.storage, o.len)
           padded == FlipLast(Unflipped(bytes, o.len))
           f == Fill(o, padded)
           filled == Slice(f, 0, Rate)
           done == permute(filled)
           b == [done EXCEPT !.squeezing = TRUE]
           c == Fill(b, CopyOut(done.a))
           o1 == padAndPermute(o)
<1>1. /\ Rate \in Nat /\ Rate >= 1 /\ MaxRate \in Nat /\ Rate <= MaxRate
      /\ IsRecord(o) /\ IsSeq(o.a) /\ IsSeq(o.storage) /\ Len(o.storage) = MaxRate
      /\ o.squeezing = FALSE /\ o.off = 0 /\ Absorbs(o.a, inp) /\ n \in Nat
  BY BaseFacts, SeqFacts DEF Shape, Absorbing
<1>2. o.len \in 0 .. Rate - 1 /\ o.len \in Nat /\ o.len <= MaxRate
  BY <1>1 DEF Absorbing
<1>3. Len(inp) = Base(n) + o.len /\ Follows(bytes, inp, Base(n))
  <2>1. Len(inp) = Base(n) + o.len + Len(<<>>) /\ Follows(bytes, inp, Base(n))
    BY DEF Absorbing
  <2>2. Base(n) \in Nat /\ Len(<<>>) = 0
    BY <1>1, BaseFacts
  <2> QED
    BY <1>2, <2>1, <2>2
<1>4. IsSeq(bytes) /\ Len(bytes) = o.len
  BY <1>1, <1>2, TakeIs
<1>5. o1 = Slice(c, 0, Rate)
  BY DEF padAndPermute, FlipLast, Unflipped, Take
<1>6. padded = Last(inp, n, o.len)
  BY <1>1, <1>2, <1>3, <1>4, PaddingIsLast
<1>7. IsSeq(padded) /\ Len(padded) = Rate
  <2> DEFINE s == Unflipped(bytes, o.len)
  <2>1. IsSeq(s) /\ Len(s) = Rate
    BY <1>2, <1>4, UnflippedIs
  <2> HIDE DEF s, bytes
  <2>2. DOMAIN s = 1 .. Rate
    BY <2>1, SeqFacts
  <2>3. DOMAIN FlipLast(s) = 1 .. Rate /\ FlipLast(s) = [i \in 1 .. Rate |-> FlipLast(s)[i]]
    BY <2>2 DEF FlipLast
  <2>4. IsSeq(FlipLast(s)) /\ Len(FlipLast(s)) = Rate
    BY <1>1, <2>3, FunctionIsSeq
  <2> QED
    BY <2>4 DEF s
<1> HIDE DEF padded, bytes, o1
<1>8. /\ Shape(f) /\ f.a = o.a /\ f.squeezing = FALSE /\ Take(f.storage, Rate) = padded
  BY <1>1, <1>7, FillIs, FillTake
<1> HIDE DEF f
<1>9. /\ Shape(filled) /\ filled.a = o.a /\ filled.storage = f.storage
      /\ filled.off = 0 /\ filled.len = Rate /\ filled.squeezing = FALSE
  BY <1>1, <1>8, SliceIs, SliceShape DEF Shape
<1> HIDE DEF filled
<1>10. done = Absorbed(filled)
  BY <1>9 DEF permute
<1>11. Shape(done) /\ done.a = Append(o.a, padded)
  BY <1>8, <1>9, <1>10, AbsorbedIs
<1>12. done.a = Blocks(inp)
  <2> DEFINE s == Append(o.a, padded)
             t == Blocks(inp)
  <2>1. /\ IsSeq(s) /\ Len(s) = n + 1 /\ s[n + 1] = padded
        /\ \A k \in 1 .. n : s[k] = o.a[k]
    BY <1>1, AppendIs
  <2>2. /\ IsSeq(t) /\ Len(t) = n + 1 /\ t[n + 1] = Last(inp, n, o.len)
        /\ \A k \in 1 .. n : t[k] = Whole(inp, k)
    BY <1>1, <1>2, <1>3, BlocksFacts
  <2>3. \A k \in 1 .. n : o.a[k] = Whole(inp, k)
    BY <1>1 DEF Absorbs
  <2>4. s = done.a
    BY <1>11
  <2> HIDE DEF s, t, n, done
  <2>5. \A k \in 1 .. n + 1 : k \in 1 .. n \/ k = n + 1
    BY <1>1
  <2>6. \A k \in 1 .. n + 1 : s[k] = t[k]
    BY <1>6, <2>1, <2>2, <2>3, <2>5
  <2>7. s = t
    BY <2>1, <2>2, <2>6, SeqEqual
  <2> QED
    BY <2>4, <2>7 DEF t
<1> HIDE DEF done, n
<1>13. Shape(b) /\ b.a = done.a /\ b.squeezing = TRUE
  <2> DEFINE t == TRUE
  <2> HIDE DEF t
  <2>1. /\ IsRecord(done) /\ IsSeq(done.a) /\ IsSeq(done.storage)
        /\ Len(done.storage) = MaxRate
    BY <1>11 DEF Shape
  <2> DEFINE e == [done EXCEPT !.squeezing = t]
  <2>2. IsRecord(e) /\ e.a = done.a /\ e.storage = done.storage /\ e.squeezing = t
    BY <2>1 DEF IsRecord
  <2>3. Shape(e)
    <3> HIDE DEF e
    <3> QED
      BY <2>1, <2>2 DEF Shape
  <2>4. b = e
    BY DEF t
  <2> HIDE DEF e, b
  <2> QED
    BY <2>2, <2>3, <2>4 DEF t
<1> HIDE DEF b
<1>14. /\ IsSeq(CopyOut(done.a)) /\ Len(CopyOut(done.a)) = Rate
       /\ Len(CopyOut(done.a)) <= MaxRate
  BY <1>1, CopyOutIs
<1>15. /\ Shape(c) /\ c.a = done.a /\ c.squeezing = TRUE
       /\ \A i \in 1 .. Rate : c.storage[i] = CopyOut(done.a)[i]
  <2> DEFINE copy == CopyOut(done.a)
  <2> HIDE DEF copy
  <2>1. /\ Shape(Fill(b, copy)) /\ Fill(b, copy).a = b.a
        /\ Fill(b, copy).squeezing = b.squeezing
        /\ \A i \in 1 .. Len(copy) : Fill(b, copy).storage[i] = copy[i]
    BY <1>13, <1>14, FillIs DEF copy
  <2> HIDE DEF c
  <2>2. c = Fill(b, copy)
    BY DEF c, copy
  <2> QED
    BY <1>13, <1>14, <2>1, <2>2 DEF copy
<1>16. Holds(c.storage, done.a)
  BY <1>15, CopyOutIs DEF Holds
<1> HIDE DEF c
<1>17. Shape(o1)
  BY <1>5, <1>15, SliceShape
<1>18. /\ o1.a = c.a /\ o1.storage = c.storage /\ o1.off = 0 /\ o1.len = Rate - 0
       /\ o1.squeezing = c.squeezing
  BY <1>5, <1>15, SliceIs DEF Shape
<1>19. 0 \in 0 .. Rate - 1
  BY <1>1
<1>20. o1.a = Permuted(inp, 0)
  BY <1>12, <1>15, <1>18, PermutedZero
<1>21. SqueezingAt(o1, inp, 0)
  BY <1>15, <1>16, <1>18, <1>19, <1>20 DEF SqueezingAt
<1> QED
  BY <1>17, <1>18, <1>21 DEF o1

-----------------------------------------------------------------------------
(* Squeezing.                                                              *)

\* What is left of an object when n bytes were given, and when all were.
AfterSqueeze(o, n) ==
  LET rest == Slice(o, o.off + n, Rate)
  IN  IF rest.len = 0 THEN permute(rest) ELSE rest

LEMMA SqueezeKeeps ==
  ASSUME NEW o, Shape(o), NEW inp, IsSeq(inp), NEW m \in Nat, SqueezingAt(o, inp, m),
         NEW n \in Nat, n <= o.len
  PROVE  /\ Shape(AfterSqueeze(o, n))
         /\ n < o.len => /\ SqueezingAt(AfterSqueeze(o, n), inp, m)
                         /\ AfterSqueeze(o, n).off = o.off + n
         /\ n = o.len => /\ SqueezingAt(AfterSqueeze(o, n), inp, m + 1)
                         /\ AfterSqueeze(o, n).off = 0
<1> DEFINE rest == Slice(o, o.off + n, Rate)
           x == o.off + n
           o1 == AfterSqueeze(o, n)
<1>1. /\ Rate \in Nat /\ Rate >= 1
      /\ o.squeezing = TRUE /\ o.off \in 0 .. Rate - 1 /\ o.len = Rate - o.off
      /\ o.a = Permuted(inp, m) /\ Holds(o.storage, o.a)
  BY BaseFacts DEF SqueezingAt
<1>2. /\ Shape(rest) /\ rest.a = o.a /\ rest.storage = o.storage /\ rest.off = x
      /\ rest.len = Rate - x /\ rest.squeezing = TRUE
  BY <1>1, SliceIs, SliceShape DEF Shape
<1>3. o1 = IF rest.len = 0 THEN permute(rest) ELSE rest
  BY DEF AfterSqueeze
<1>4. x \in Nat /\ (n < o.len => x \in 0 .. Rate - 1) /\ (n = o.len => x = Rate)
  BY <1>1
<1> HIDE DEF rest, x, o1
<1>5. CASE n < o.len
  <2>1. x \in 0 .. Rate - 1 /\ rest.len # 0
    BY <1>1, <1>2, <1>4, <1>5
  <2>2. o1 = rest
    BY <1>3, <2>1
  <2>3. SqueezingAt(o1, inp, m)
    BY <1>1, <1>2, <2>1, <2>2 DEF SqueezingAt
  <2> QED
    BY <1>2, <1>5, <2>2, <2>3 DEF o1, x
<1>6. CASE n = o.len
  <2>1. rest.len = 0
    BY <1>1, <1>2, <1>4, <1>6
  <2>2. o1 = Squeezed(rest)
    BY <1>2, <1>3, <2>1 DEF permute
  <2>3. /\ Shape(o1) /\ o1.a = Append(Permuted(inp, m), <<>>)
        /\ o1.off = 0 /\ o1.len = Rate /\ o1.squeezing = TRUE
        /\ Holds(o1.storage, Append(Permuted(inp, m), <<>>))
    BY <1>1, <1>2, <2>2, SqueezedIs
  <2>4. o1.a = Permuted(inp, m + 1) /\ Holds(o1.storage, o1.a)
    BY <2>3, PermutedMore
  <2>5. 0 \in 0 .. Rate - 1 /\ Rate = Rate - 0
    BY <1>1
  <2>6. SqueezingAt(o1, inp, m + 1)
    BY <2>3, <2>4, <2>5 DEF SqueezingAt
  <2> QED
    BY <1>6, <2>3, <2>6 DEF o1
<1> QED
  <2>1. n < o.len \/ n = o.len
    BY <1>1
  <2> QED
    BY <1>5, <1>6, <2>1

\* How many bytes a squeezing object has given.
LEMMA PositionIs ==
  ASSUME NEW o, NEW inp, IsSeq(inp), NEW m \in Nat, SqueezingAt(o, inp, m)
  PROVE  Position(o) = Base(m) + o.off
<1> DEFINE l == Len(Blocks(inp))
           u == Permuted(inp, m)
           E == {k \in DOMAIN o.a : o.a[k] = <<>>}
<1>1. /\ Rate \in Nat /\ Rate >= 1 /\ o.squeezing = TRUE /\ o.off \in Nat
      /\ o.a = Permuted(inp, m)
  BY BaseFacts DEF SqueezingAt
<1>2. /\ l \in Nat
      /\ \A k \in 1 .. l : Len(Blocks(inp)[k]) = Rate
  BY BlocksAre, SeqFacts
<1>3. /\ IsSeq(u) /\ Len(u) = l + m
      /\ \A k \in 1 .. l : u[k] = Blocks(inp)[k]
      /\ \A k \in 1 .. m : u[l + k] = <<>>
  BY PermutedIs
<1>4. DOMAIN o.a = 1 .. l + m
  <2> HIDE DEF u, l
  <2>1. DOMAIN u = 1 .. l + m
    BY <1>3, SeqFacts
  <2> QED
    BY <1>1, <2>1 DEF u
<1>5. \A k \in 1 .. l : o.a[k] # <<>>
  <2> HIDE DEF l
  <2>1. Len(<<>>) = 0
    OBVIOUS
  <2>2. \A k \in 1 .. l : Len(o.a[k]) = Rate
    BY <1>1, <1>2, <1>3
  <2> QED
    BY <1>1, <2>1, <2>2
<1>6. \A k \in 1 .. m : o.a[l + k] = <<>>
  BY <1>1, <1>3
<1> HIDE DEF l
<1>7. E = l + 1 .. l + m
  <2>1. ASSUME NEW k \in E PROVE k \in l + 1 .. l + m
    <3>1. k \in 1 .. l + m /\ ~(k \in 1 .. l)
      BY <1>4, <1>5
    <3> QED
      BY <1>2, <3>1
  <2>2. ASSUME NEW k \in l + 1 .. l + m PROVE k \in E
    <3> DEFINE j == k - l
    <3>1. j \in 1 .. m /\ l + j = k /\ k \in 1 .. l + m
      BY <1>2
    <3> HIDE DEF j
    <3>2. o.a[k] = <<>>
      BY <1>6, <3>1
    <3> QED
      BY <1>4, <3>1, <3>2
  <2> HIDE DEF E
  <2> QED
    BY <2>1, <2>2
<1>8. Cardinality(E) = m
  <2>1. l + 1 \in Int /\ l + m \in Int
    BY <1>2
  <2> HIDE DEF E
  <2>2. Cardinality(E) = IF l + 1 > l + m THEN 0 ELSE (l + m) - (l + 1) + 1
    BY <1>7, <2>1, FS_Interval
  <2>3. IF l + 1 > l + m THEN m = 0 ELSE (l + m) - (l + 1) + 1 = m
    BY <1>2
  <2> QED
    BY <2>2, <2>3
<1>9. Position(o) = Rate * Cardinality(E) + o.off
  BY <1>1 DEF Position
<1> QED
  <2> HIDE DEF E
  <2> QED
    BY <1>8, <1>9 DEF Base

\* The bytes of the buffer are the next ones of the reference.
LEMMA StreamIs ==
  ASSUME NEW inp, NEW m \in Nat, NEW r \in Nat, r < Rate
  PROVE  Stream(inp, Base(m) + r + 1) = [of |-> Permuted(inp, m), at |-> r + 1]
<1>1. Base(m) \in Nat
  BY BaseFacts
<1>2. (Base(m) + r + 1) - 1 = Base(m) + r
  BY <1>1
<1>3. (Base(m) + r) \div Rate = m /\ (Base(m) + r) % Rate = r
  BY Place
<1> QED
  BY <1>2, <1>3 DEF Stream, Permuted, Empties
\* The bytes of an output, from a place on.
Gives(s, inp, x) == IsSeq(s) /\ \A i \in 1 .. Len(s) : s[i] = Stream(inp, x + i)

LEMMA ConcatGives ==
  ASSUME NEW s, NEW t, NEW inp, NEW x \in Nat, Gives(s, inp, x), Gives(t, inp, x + Len(s))
  PROVE  Gives(s \o t, inp, x) /\ Len(s \o t) = Len(s) + Len(t)
<1> DEFINE u == s \o t
           m == Len(s)
           n == Len(t)
<1>1. IsSeq(s) /\ IsSeq(t) /\ m \in Nat /\ n \in Nat
  BY SeqFacts DEF Gives
<1>2. Joins(u, s, t)
  BY <1>1, ConcatJoins
<1> HIDE DEF u
<1>3. /\ IsSeq(u) /\ Len(u) = m + n /\ \A i \in 1 .. m : u[i] = s[i]
      /\ \A i \in 1 .. n : u[m + i] = t[i]
  BY <1>2 DEF Joins
<1>4. \A i \in 1 .. m : s[i] = Stream(inp, x + i)
  BY DEF Gives
<1>5. \A i \in 1 .. n : t[i] = Stream(inp, x + m + i)
  BY DEF Gives
<1> HIDE DEF m, n
<1>6. ASSUME NEW i \in 1 .. m + n PROVE u[i] = Stream(inp, x + i)
  <2>1. CASE i <= m
    <3>1. i \in 1 .. m
      BY <1>1, <2>1
    <3> QED
      BY <1>3, <1>4, <3>1
  <2>2. CASE i > m
    <3> DEFINE j == i - m
    <3>1. j \in 1 .. n /\ m + j = i /\ x + m + j = x + i
      BY <1>1, <2>2
    <3> HIDE DEF j
    <3>2. u[i] = t[j] /\ t[j] = Stream(inp, x + m + j)
      BY <1>3, <1>5, <3>1
    <3> QED
      BY <3>1, <3>2
  <2> QED
    BY <1>1, <2>1, <2>2
<1>7. Gives(u, inp, x)
  BY <1>3, <1>6 DEF Gives
<1> QED
  BY <1>3, <1>7 DEF u, m, n

\* An output of nothing.
LEMMA NothingGiven ==
  ASSUME NEW inp, NEW x
  PROVE  IsSeq(<<>>) /\ Len(<<>>) = 0 /\ Gives(<<>>, inp, x)
<1>1. <<>> \in Seq({}) /\ Len(<<>>) = 0
  OBVIOUS
<1>2. IsSeq(<<>>)
  BY <1>1 DEF IsSeq
<1>3. \A i \in 1 .. 0 : FALSE
  OBVIOUS
<1> QED
  BY <1>1, <1>2, <1>3 DEF Gives

\* An output is determined by the input, its place and its length.
LEMMA GivenBytes ==
  ASSUME NEW s, NEW inp, NEW x, Gives(s, inp, x)
  PROVE  s = [i \in 1 .. Len(s) |-> Stream(inp, x + i)]
<1>1. /\ s = [i \in 1 .. Len(s) |-> s[i]]
      /\ \A i \in 1 .. Len(s) : s[i] = Stream(inp, x + i)
  BY SeqFacts DEF Gives
<1> QED
  BY <1>1

\* What is in buf.
Buffered(o) == SubSeq(o.storage, o.off + 1, o.off + o.len)

\* The first bytes of buf are the next ones of the output.
LEMMA BufferGives ==
  ASSUME NEW o, Shape(o), NEW inp, IsSeq(inp), Squeezing(o, inp), NEW n \in Nat, n <= o.len
  PROVE  /\ Gives(Take(Buffered(o), n), inp, Position(o))
         /\ Len(Take(Buffered(o), n)) = n
         /\ Position(o) \in Nat
<1>0. PICK m \in Nat : SqueezingAt(o, inp, m)
  BY DEF Squeezing
<1> DEFINE x == o.off
           l == o.len
           b == Base(m)
           s == Buffered(o)
           t == Take(s, n)
<1>1. /\ Rate \in Nat /\ Rate >= 1 /\ MaxRate \in Nat /\ Rate <= MaxRate /\ b \in Nat
      /\ x \in Nat /\ x < Rate /\ l = Rate - x /\ l \in Nat /\ x + l = Rate
      /\ n <= l
  <2>1. /\ Rate \in Nat /\ Rate >= 1 /\ MaxRate \in Nat /\ Rate <= MaxRate /\ b \in Nat
    BY BaseFacts
  <2>2. o.off \in 0 .. Rate - 1 /\ o.len = Rate - o.off
    BY <1>0 DEF SqueezingAt
  <2> QED
    BY <2>1, <2>2
<1>2. /\ IsSeq(o.storage) /\ Len(o.storage) = MaxRate
      /\ \A i \in 1 .. Rate : o.storage[i] = [of |-> Permuted(inp, m), at |-> i]
  BY <1>0 DEF Shape, SqueezingAt, Holds
<1>3. Position(o) = b + x
  BY <1>0, PositionIs
<1>4. IsSeq(s) /\ Len(s) = l /\ \A i \in 1 .. l : s[i] = o.storage[x + i]
  <2> DEFINE st == o.storage
             u == SubSeq(st, x + 1, Rate)
  <2> HIDE DEF st, x
  <2>1. /\ x + 1 \in Nat \ {0} /\ Rate <= MaxRate /\ x + 1 <= Rate + 1
        /\ Rate + 1 - (x + 1) = l
    BY <1>1
  <2>2. IsSeq(st) /\ Len(st) = MaxRate
    BY <1>2 DEF st
  <2>3. /\ IsSeq(u) /\ Len(u) = Rate + 1 - (x + 1)
        /\ \A i \in 1 .. Rate + 1 - (x + 1) : u[i] = st[(x + 1) + i - 1]
    BY <1>1, <2>1, <2>2, SubSeqIs
  <2>4. s = u
    BY <1>1 DEF Buffered, st, x
  <2> HIDE DEF s, u
  <2>5. \A i \in 1 .. l : (x + 1) + i - 1 = x + i
    BY <1>1
  <2>6. \A i \in 1 .. l : s[i] = st[x + i]
    BY <2>1, <2>3, <2>4, <2>5
  <2> QED
    BY <2>1, <2>3, <2>4, <2>6 DEF st, x
<1> HIDE DEF s
<1>5. IsSeq(t) /\ Len(t) = n /\ \A i \in 1 .. n : t[i] = s[i]
  BY <1>1, <1>4, TakeIs
<1> HIDE DEF t, b, x, l
<1>6. ASSUME NEW i \in 1 .. n PROVE t[i] = Stream(inp, (b + x) + i)
  <2> DEFINE r == x + i - 1
  <2>1. /\ i \in 1 .. l /\ x + i \in 1 .. Rate /\ r \in Nat /\ r < Rate /\ r + 1 = x + i
        /\ b + r + 1 = (b + x) + i
    BY <1>1
  <2> HIDE DEF r
  <2>2. t[i] = [of |-> Permuted(inp, m), at |-> x + i]
    BY <1>2, <1>4, <1>5, <2>1 DEF x
  <2>3. Stream(inp, Base(m) + r + 1) = [of |-> Permuted(inp, m), at |-> r + 1]
    BY <2>1, StreamIs
  <2> QED
    BY <2>1, <2>2, <2>3 DEF b
<1>7. Gives(t, inp, b + x)
  BY <1>5, <1>6 DEF Gives
<1>8. b + x \in Nat
  BY <1>1
<1> QED
  BY <1>3, <1>5, <1>7, <1>8 DEF t, s

\* An object that squeezes moves on by what it gave.
LEMMA SqueezeMoves ==
  ASSUME NEW o, Shape(o), NEW inp, IsSeq(inp), Squeezing(o, inp), NEW n \in Nat, n <= o.len
  PROVE  /\ Shape(AfterSqueeze(o, n)) /\ Squeezing(AfterSqueeze(o, n), inp)
         /\ Position(AfterSqueeze(o, n)) = Position(o) + n
         /\ Position(o) \in Nat
<1>0. PICK m \in Nat : SqueezingAt(o, inp, m)
  BY DEF Squeezing
<1> DEFINE o1 == AfterSqueeze(o, n)
           m1 == m + 1
<1>1. /\ Rate \in Nat /\ Base(m) \in Nat /\ Base(m1) = Base(m) + Rate /\ m1 \in Nat
  <2>1. m1 \in Nat
    OBVIOUS
  <2>2. Rate \in Nat /\ Base(m) \in Nat /\ Base(m + 1) = Base(m) + Rate
    BY BaseFacts
  <2> QED
    BY <2>1, <2>2
<1>2. o.off \in Nat /\ o.off \in 0 .. Rate - 1 /\ o.len = Rate - o.off
  BY <1>0, <1>1 DEF SqueezingAt
<1>3. Position(o) = Base(m) + o.off
  BY <1>0, PositionIs
<1>4. /\ Shape(o1)
      /\ n < o.len => SqueezingAt(o1, inp, m) /\ o1.off = o.off + n
      /\ n = o.len => SqueezingAt(o1, inp, m1) /\ o1.off = 0
  BY <1>0, SqueezeKeeps
<1> HIDE DEF o1, m1
<1>5. CASE n < o.len
  <2>1. SqueezingAt(o1, inp, m) /\ o1.off = o.off + n
    BY <1>4, <1>5
  <2>2. Position(o1) = Base(m) + (o.off + n)
    BY <2>1, PositionIs
  <2>3. Position(o1) = Position(o) + n
    BY <1>1, <1>2, <1>3, <2>2
  <2> QED
    BY <1>1, <1>2, <1>3, <1>4, <2>1, <2>3 DEF Squeezing, o1
<1>6. CASE n = o.len
  <2>1. SqueezingAt(o1, inp, m1) /\ o1.off = 0
    BY <1>4, <1>6
  <2>2. Position(o1) = Base(m1) + 0
    BY <1>1, <2>1, PositionIs
  <2>3. Position(o1) = Position(o) + n
    BY <1>1, <1>2, <1>3, <1>6, <2>2
  <2> QED
    BY <1>1, <1>2, <1>3, <1>4, <2>1, <2>3 DEF Squeezing, o1
<1> QED
  <2>1. n < o.len \/ n = o.len
    BY <1>1, <1>2
  <2> QED
    BY <1>5, <1>6, <2>1

\* More is written: what was absorbed and buffered is the same.
LEMMA WriteKeeps ==
  ASSUME NEW o, Shape(o), NEW inp, IsSeq(inp), Absorbing(o, <<>>, inp),
         NEW chunk, IsSeq(chunk), NEW rest, IsSeq(rest), Len(rest) = Len(chunk),
         \A i \in 1 .. Len(chunk) : rest[i] = In(chunk[i])
  PROVE  Absorbing(o, rest, inp \o chunk)
<1> DEFINE n == Len(o.a)
           l == Len(inp)
           c == Len(chunk)
           b == Base(n)
           x == o.len
           st == Take(o.storage, x)
           new == inp \o chunk
<1>1. /\ Rate \in Nat /\ Rate >= 1 /\ MaxRate \in Nat /\ Rate <= MaxRate
      /\ n \in Nat /\ l \in Nat /\ c \in Nat /\ b \in Nat
      /\ IsSeq(o.storage) /\ Len(o.storage) = MaxRate
  BY BaseFacts, SeqFacts DEF Shape
<1>2. /\ o.squeezing = FALSE /\ o.off = 0 /\ x \in 0 .. Rate - 1 /\ Absorbs(o.a, inp)
      /\ Follows(st, inp, b)
  BY DEF Absorbing
<1>3. l = b + x
  <2>1. l = b + x + Len(<<>>) /\ Len(<<>>) = 0
    BY DEF Absorbing
  <2> HIDE DEF l, b
  <2> QED
    BY <1>1, <1>2, <2>1
<1>4. Len(st) = x
  <2>1. x \in Nat /\ x <= Len(o.storage)
    BY <1>1, <1>2
  <2> QED
    BY <1>1, <2>1, TakeIs
<1>5. Joins(new, inp, chunk)
  BY ConcatJoins
<1> HIDE DEF new, n, l, c, b, x, st
<1>6. /\ Len(new) = l + c /\ \A i \in 1 .. l : new[i] = inp[i]
      /\ \A i \in 1 .. c : new[l + i] = chunk[i]
  BY <1>5 DEF Joins, l, c
<1>7. ASSUME NEW k \in 1 .. n PROVE o.a[k] = Whole(new, k)
  <2>1. o.a[k] = Whole(inp, k)
    BY <1>2 DEF Absorbs, n
  <2>2. k - 1 \in Nat /\ k - 1 < n
    BY <1>1
  <2>3. Base(k - 1) \in Nat /\ Base(k - 1) + Rate <= b
    BY <1>1, <2>2, BaseFacts, BaseGrows DEF b
  <2> DEFINE y == Base(k - 1)
  <2> HIDE DEF y
  <2>4. \A i \in 1 .. Rate : y + i \in 1 .. l
    BY <1>1, <1>2, <1>3, <2>3 DEF y
  <2>5. \A i \in 1 .. Rate : inp[y + i] = new[y + i]
    BY <1>6, <2>4
  <2> QED
    BY <2>1, <2>5 DEF Whole, y
<1>8. Absorbs(o.a, new)
  BY <1>7 DEF Absorbs, n
<1>9. Follows(st, new, b)
  <2>1. \A i \in 1 .. x : b + i \in 1 .. l
    BY <1>1, <1>2, <1>3
  <2>2. \A i \in 1 .. x : st[i] = In(inp[b + i])
    BY <1>2, <1>4 DEF Follows
  <2>3. \A i \in 1 .. x : st[i] = In(new[b + i])
    BY <1>6, <2>1, <2>2
  <2> QED
    BY <1>4, <2>3 DEF Follows
<1>10. Follows(rest, new, b + x)
  <2>1. \A i \in 1 .. c : rest[i] = In(chunk[i])
    BY DEF c
  <2>2. \A i \in 1 .. c : rest[i] = In(new[l + i])
    BY <1>6, <2>1
  <2>3. Len(rest) = c
    BY DEF c
  <2> QED
    BY <1>3, <2>2, <2>3 DEF Follows
<1>11. Len(new) = b + x + Len(rest)
  BY <1>3, <1>6 DEF c
<1> QED
  BY <1>2, <1>8, <1>9, <1>10, <1>11 DEF Absorbing, new, n, b, x, st
\* An object is what it is asked to be in all its states.
IsObject(o, rest, inp) == Shape(o) /\ (Absorbing(o, rest, inp) \/ Squeezing(o, inp))

LEMMA SqueezingFacts ==
  ASSUME NEW o, NEW inp, IsSeq(inp), Squeezing(o, inp)
  PROVE  /\ o.squeezing = TRUE
         /\ o.off \in Nat /\ o.len \in Nat /\ o.len > 0 /\ o.off + o.len = Rate
         /\ Position(o) \in Nat
         /\ \A k \in DOMAIN o.a : Len(o.a[k]) \in {Rate, 0}
<1>1. PICK m \in Nat : SqueezingAt(o, inp, m)
  BY DEF Squeezing
<1> DEFINE l == Len(Blocks(inp))
           u == Permuted(inp, m)
<1>2. Rate \in Nat /\ Rate >= 1 /\ Base(m) \in Nat
  BY BaseFacts
<1>3. o.squeezing = TRUE /\ o.off \in 0 .. Rate - 1 /\ o.len = Rate - o.off /\ o.a = u
  BY <1>1 DEF SqueezingAt
<1>4. o.off \in Nat /\ o.len \in Nat /\ o.len > 0 /\ o.off + o.len = Rate
  BY <1>2, <1>3
<1>5. Position(o) \in Nat
  <2>1. Position(o) = Base(m) + o.off
    BY <1>1, PositionIs
  <2> QED
    BY <1>2, <1>4, <2>1
<1>6. /\ l \in Nat /\ \A k \in 1 .. l : Len(Blocks(inp)[k]) = Rate
  BY BlocksAre, SeqFacts
<1>7. /\ IsSeq(u) /\ Len(u) = l + m
      /\ \A k \in 1 .. l : u[k] = Blocks(inp)[k]
      /\ \A k \in 1 .. m : u[l + k] = <<>>
  BY PermutedIs
<1> HIDE DEF l, u
<1>8. DOMAIN u = 1 .. l + m
  BY <1>7, SeqFacts
<1>9. ASSUME NEW k \in 1 .. l + m PROVE Len(u[k]) \in {Rate, 0}
  <2>1. CASE k <= l
    <3>1. k \in 1 .. l
      BY <1>6, <2>1
    <3> QED
      BY <1>6, <1>7, <3>1
  <2>2. CASE k > l
    <3> DEFINE j == k - l
    <3>1. j \in 1 .. m /\ l + j = k
      BY <1>6, <2>2
    <3> HIDE DEF j
    <3>2. u[k] = <<>> /\ Len(<<>>) = 0
      BY <1>7, <3>1
    <3> QED
      BY <3>2
  <2> QED
    BY <1>6, <2>1, <2>2
<1> QED
  BY <1>3, <1>4, <1>5, <1>8, <1>9

LEMMA AbsorbingFacts ==
  ASSUME NEW o, Shape(o), NEW rest, NEW inp, Absorbing(o, rest, inp)
  PROVE  /\ o.squeezing = FALSE
         /\ o.off = 0 /\ o.len \in Nat /\ o.len < Rate
         /\ Position(o) = 0
<1>1. Rate \in Nat /\ DOMAIN o.a = 1 .. Len(o.a)
  BY BaseFacts, SeqFacts DEF Shape
<1>2. o.squeezing = FALSE /\ o.off = 0 /\ o.len \in 0 .. Rate - 1
  BY DEF Absorbing
<1>3. Position(o) = 0
  BY <1>2 DEF Position
<1> QED
  BY <1>1, <1>2, <1>3

LEMMA AbsorbingLengths ==
  ASSUME NEW o, Shape(o), NEW rest, NEW inp, Absorbing(o, rest, inp)
  PROVE  \A k \in DOMAIN o.a : Len(o.a[k]) = Rate
<1>1. Rate \in Nat /\ DOMAIN o.a = 1 .. Len(o.a)
  BY BaseFacts, SeqFacts DEF Shape
<1>2. \A k : Len(Whole(inp, k)) = Rate
  BY <1>1, FunctionIsSeq DEF Whole
<1>3. \A k \in 1 .. Len(o.a) : o.a[k] = Whole(inp, k)
  BY DEF Absorbing, Absorbs
<1> QED
  BY <1>1, <1>2, <1>3

\* What Read makes of an object before it copies the first byte.
LEMMA PaddedObject ==
  ASSUME NEW o, NEW inp, IsSeq(inp), IsObject(o, <<>>, inp)
  PROVE  /\ Shape(Padded(o)) /\ Squeezing(Padded(o), inp)
         /\ Position(Padded(o)) = Position(o) /\ Position(o) \in Nat
<1>1. CASE Absorbing(o, <<>>, inp)
  <2>1. o.squeezing = FALSE /\ Position(o) = 0
    BY <1>1, AbsorbingFacts DEF IsObject
  <2>2. Padded(o) = padAndPermute(o)
    BY <2>1 DEF Padded
  <2>3. /\ Shape(Padded(o)) /\ SqueezingAt(Padded(o), inp, 0) /\ Padded(o).off = 0
    BY <1>1, <2>2, PadIs DEF IsObject
  <2>4. Position(Padded(o)) = Base(0) + 0 /\ 0 \in Nat
    BY <2>3, PositionIs
  <2>5. Position(Padded(o)) = 0
    BY <2>4, BaseFacts
  <2> QED
    BY <2>1, <2>3, <2>4, <2>5 DEF Squeezing
<1>2. CASE Squeezing(o, inp)
  <2>1. o.squeezing = TRUE /\ Position(o) \in Nat
    BY <1>2, SqueezingFacts
  <2> QED
    BY <1>2, <2>1 DEF Padded, IsObject
<1> QED
  BY <1>1, <1>2 DEF IsObject

\* A clone, whose offset is the one of the object if it is exact.
LEMMA CloneIs ==
  ASSUME IsSeq(input), IsObject(d, <<>>, input), CanClone
  PROVE  /\ IsObject(clone, <<>>, input)
         /\ Position(clone) = Position(d) \/ (d.squeezing = TRUE /\ Rate # MaxRate)
<1>1. Rate \in Nat /\ Rate >= 1 /\ MaxRate \in Nat /\ Rate <= MaxRate
  BY BaseFacts
<1>2. Shape(d)
  BY DEF IsObject
<1>3. CASE Absorbing(d, <<>>, input)
  <2>1. d.squeezing = FALSE /\ d.off = 0 /\ d.len \in Nat /\ Position(d) = 0
    BY <1>2, <1>3, AbsorbingFacts
  <2>2. clone = Slice(d, 0, d.len)
    BY <2>1 DEF clone
  <2>3. Shape(clone)
    BY <1>2, <2>2, SliceShape
  <2>4. /\ clone.a = d.a /\ clone.storage = d.storage /\ clone.off = 0
        /\ clone.len = d.len - 0 /\ clone.squeezing = FALSE
    BY <1>2, <2>1, <2>2, SliceIs DEF Shape
  <2>5. clone.len = d.len
    BY <2>1, <2>4
  <2>6. Absorbing(clone, <<>>, input)
    BY <1>3, <2>4, <2>5 DEF Absorbing
  <2>7. Position(clone) = 0
    BY <2>3, <2>6, AbsorbingFacts
  <2> QED
    BY <2>1, <2>3, <2>6, <2>7 DEF IsObject
<1>4. CASE Squeezing(d, input)
  <2>1. PICK m \in Nat : SqueezingAt(d, input, m)
    BY <1>4 DEF Squeezing
  <2>2. /\ d.squeezing = TRUE /\ d.off \in 0 .. Rate - 1 /\ d.len = Rate - d.off
        /\ d.a = Permuted(input, m) /\ Holds(d.storage, d.a)
    BY <2>1 DEF SqueezingAt
  <2> DEFINE x == Rate - (MaxRate - d.off)
  <2>3. x \in 0 .. Rate - 1 /\ (Rate = MaxRate => x = d.off)
    <3>1. Rate >= MaxRate - d.off
      BY <2>2 DEF CanClone
    <3> QED
      BY <1>1, <2>2, <3>1
  <2>4. clone = Slice(d, x, Rate)
    BY <2>2 DEF clone, CloneOffset
  <2> HIDE DEF x
  <2>5. Shape(clone)
    BY <1>2, <2>4, SliceShape
  <2>6. /\ clone.a = d.a /\ clone.storage = d.storage /\ clone.off = x
        /\ clone.len = Rate - x /\ clone.squeezing = TRUE
    BY <1>2, <2>2, <2>4, SliceIs DEF Shape
  <2>7. SqueezingAt(clone, input, m)
    BY <2>2, <2>3, <2>6 DEF SqueezingAt
  <2>8. Position(clone) = Base(m) + x /\ Position(d) = Base(m) + d.off
    BY <2>1, <2>6, <2>7, PositionIs
  <2>9. Position(clone) = Position(d) \/ Rate # MaxRate
    BY <2>3, <2>8
  <2> QED
    BY <2>2, <2>5, <2>7, <2>9 DEF IsObject, Squeezing
<1> QED
  BY <1>3, <1>4 DEF IsObject
-----------------------------------------------------------------------------
(* The inductive invariant.                                                *)

Common == IsSeq(input) /\ want \in Nat /\ resets \in 0 .. MaxResets

Idle == saved = <<>> /\ p = <<>> /\ out = <<>> /\ IsObject(d, <<>>, input)

Writing == saved = <<>> /\ out = <<>> /\ Shape(d) /\ Absorbing(d, p, input)

\* The object Sum was called on while its clone is read.
SavedIs(s) ==
  /\ saved = <<s>> /\ want = OutputLen /\ IsObject(s, <<>>, input)
  /\ (s.squeezing = TRUE /\ Rate # MaxRate) \/ Position(s) = Position(d) - Len(out)

Reading ==
  /\ p = <<>> /\ Shape(d) /\ Squeezing(d, input)
  /\ Len(out) <= want /\ Len(out) <= Position(d)
  /\ Gives(out, input, Position(d) - Len(out))
  /\ saved = <<>> \/ \E s : SavedIs(s)

\* While it is absorbing, the object holds a prefix of what was written, and all
\* of it when no call is running; while squeezing it holds the padded input, and
\* out is the output from the place where the call began.
SpongeInv ==
  /\ Common
  /\ \/ pc = "idle" /\ Idle
     \/ pc = "write" /\ Writing
     \/ pc = "read" /\ Reading

\* An object that nothing was written to.
LEMMA EmptyAbsorbing ==
  ASSUME NEW o, Shape(o), o.a = <<>>, o.off = 0, o.len = 0, o.squeezing = FALSE
  PROVE  Absorbing(o, <<>>, <<>>)
<1>1. IsSeq(<<>>) /\ Len(<<>>) = 0 /\ Rate \in Nat /\ Rate >= 1 /\ Base(0) = 0
  BY NothingGiven, BaseFacts
<1>2. \A i \in 1 .. 0 : FALSE
  OBVIOUS
<1>3. Absorbs(o.a, <<>>)
  BY <1>1, <1>2 DEF Absorbs
<1>4. Follows(Take(o.storage, o.len), <<>>, Base(Len(o.a)))
  BY NothingFollows
<1>5. Follows(<<>>, <<>>, Base(Len(o.a)) + o.len)
  BY <1>1, <1>2 DEF Follows
<1>6. Len(<<>>) = Base(Len(o.a)) + o.len + Len(<<>>) /\ o.len \in 0 .. Rate - 1
  BY <1>1
<1> QED
  BY <1>1, <1>3, <1>4, <1>5, <1>6 DEF Absorbing

LEMMA InitInv == Init => SpongeInv
<1> SUFFICES ASSUME Init PROVE SpongeInv
  OBVIOUS
<1> DEFINE st == [i \in 1 .. MaxRate |-> In("zero")]
<1>1. Rate \in Nat /\ Rate >= 1 /\ MaxRate \in Nat
  BY BaseFacts
<1>2. IsSeq(st) /\ Len(st) = MaxRate
  <2> DEFINE z == In("zero")
  <2> HIDE DEF z
  <2> QED
    BY <1>1, FunctionIsSeq DEF z
<1>3. d = [a |-> <<>>, storage |-> st, off |-> 0, len |-> 0, squeezing |-> FALSE]
  BY DEF Init
<1> HIDE DEF st
<1>4. IsSeq(<<>>) /\ Len(<<>>) = 0
  BY NothingGiven
<1>5. IsRecord(d) /\ d.a = <<>> /\ d.storage = st /\ d.off = 0 /\ d.len = 0
  BY <1>3 DEF IsRecord
<1>6. Shape(d)
  BY <1>2, <1>4, <1>5 DEF Shape
<1>7. d.squeezing = FALSE
  BY <1>3
<1>8. Absorbing(d, <<>>, <<>>)
  BY <1>4, <1>5, <1>6, <1>7, EmptyAbsorbing
<1>9. saved = <<>> /\ pc = "idle" /\ p = <<>> /\ want = 0 /\ out = <<>> /\ input = <<>>
  BY DEF Init
<1>10. resets \in 0 .. MaxResets
  BY BoundsAssumption DEF Init
<1> QED
  BY <1>4, <1>6, <1>8, <1>9, <1>10 DEF SpongeInv, Common, Idle, IsObject

LEMMA BeginWriteInv == SpongeInv /\ BeginWrite => SpongeInv'
<1> SUFFICES ASSUME SpongeInv, BeginWrite PROVE SpongeInv'
  OBVIOUS
<1>1. PICK n \in 1 .. MaxChunk : \E chunk \in [1 .. n -> Byte] :
        /\ Written + n <= MaxInput
        /\ p' = [i \in 1 .. n |-> In(chunk[i])]
        /\ input' = input \o chunk
  BY DEF BeginWrite
<1>2. PICK chunk \in [1 .. n -> Byte] :
        /\ p' = [i \in 1 .. n |-> In(chunk[i])]
        /\ input' = input \o chunk
  BY <1>1
<1>3. /\ pc = "idle" /\ d.squeezing # TRUE /\ pc' = "write" /\ d' = d /\ saved' = saved
      /\ want' = want /\ out' = out /\ resets' = resets
  BY DEF BeginWrite
<1>4. Common /\ Idle
  BY <1>3 DEF SpongeInv
<1>5. Shape(d) /\ Absorbing(d, <<>>, input) /\ IsSeq(input)
  BY <1>3, <1>4, SqueezingFacts DEF Common, Idle, IsObject
<1>6. n \in Nat
  BY BoundsAssumption
<1>7. IsSeq(chunk) /\ Len(chunk) = n
  BY <1>6, FunctionIsSeq
<1>8. IsSeq(p') /\ Len(p') = n /\ \A i \in 1 .. n : p'[i] = In(chunk[i])
  <2> DEFINE f == [i \in 1 .. n |-> In(chunk[i])]
  <2>1. IsSeq(f) /\ Len(f) = n
    BY <1>6, FunctionIsSeq
  <2>2. \A i \in 1 .. n : f[i] = In(chunk[i])
    OBVIOUS
  <2>3. p' = f
    BY <1>2
  <2> HIDE DEF f
  <2> QED
    BY <2>1, <2>2, <2>3
<1>9. Absorbing(d, p', input \o chunk)
  BY <1>5, <1>7, <1>8, WriteKeeps
<1>10. IsSeq(input \o chunk)
  BY <1>5, <1>7, ConcatIs
<1>11. Common'
  BY <1>2, <1>3, <1>4, <1>10 DEF Common
<1>12. Writing'
  BY <1>2, <1>3, <1>4, <1>5, <1>9 DEF Writing, Idle
<1> QED
  BY <1>3, <1>11, <1>12 DEF SpongeInv

LEMMA FastPathInv == SpongeInv /\ FastPath => SpongeInv'
<1> SUFFICES ASSUME SpongeInv, FastPath PROVE SpongeInv'
  OBVIOUS
<1>1. /\ pc = "write" /\ d.len = 0 /\ Len(p) >= Rate
      /\ d' = AfterFast(d, p) /\ p' = Drop(p, Rate)
      /\ pc' = pc /\ saved' = saved /\ want' = want /\ out' = out /\ resets' = resets
      /\ input' = input
  BY DEF FastPath, AfterFast, Take, Drop
<1>2. Common /\ Writing
  BY <1>1 DEF SpongeInv
<1>3. Shape(AfterFast(d, p)) /\ Absorbing(AfterFast(d, p), Drop(p, Rate), input)
  BY <1>1, <1>2, FastPathKeeps DEF Writing
<1>4. Common'
  BY <1>1, <1>2 DEF Common
<1>5. Writing'
  BY <1>1, <1>2, <1>3 DEF Writing
<1> QED
  BY <1>1, <1>4, <1>5 DEF SpongeInv

LEMMA TodoIs ==
  ASSUME Shape(d), Absorbing(d, p, input)
  PROVE  todo \in Nat /\ todo <= Rate - d.len /\ todo <= Len(p)
<1>1. Rate \in Nat /\ d.len \in Nat /\ d.len < Rate
  BY BaseFacts, AbsorbingFacts
<1>2. Len(p) \in Nat
  BY SeqFacts DEF Absorbing
<1> QED
  BY <1>1, <1>2 DEF todo, Least

LEMMA SlowPathInv == SpongeInv /\ SlowPath => SpongeInv'
<1> SUFFICES ASSUME SpongeInv, SlowPath PROVE SpongeInv'
  OBVIOUS
<1>1. /\ pc = "write"
      /\ d' = AfterSlow(d, p, todo) /\ p' = Drop(p, todo)
      /\ pc' = pc /\ saved' = saved /\ want' = want /\ out' = out /\ resets' = resets
      /\ input' = input
  BY DEF SlowPath, AfterSlow, WithBytes, Take, Drop
<1>2. Common /\ Writing
  BY <1>1 DEF SpongeInv
<1>3. todo \in Nat /\ todo <= Rate - d.len /\ todo <= Len(p)
  BY <1>2, TodoIs DEF Writing
<1>4. Shape(AfterSlow(d, p, todo)) /\ Absorbing(AfterSlow(d, p, todo), Drop(p, todo), input)
  BY <1>2, <1>3, SlowPathKeeps DEF Writing
<1>5. Common'
  BY <1>1, <1>2 DEF Common
<1>6. Writing'
  BY <1>1, <1>2, <1>4 DEF Writing
<1> QED
  BY <1>1, <1>5, <1>6 DEF SpongeInv

LEMMA BeginReadInv == SpongeInv /\ BeginRead => SpongeInv'
<1> SUFFICES ASSUME SpongeInv, BeginRead PROVE SpongeInv'
  OBVIOUS
<1>1. PICK n \in 0 .. MaxOutput - Position(d) : want' = n
  BY DEF BeginRead
<1>2. /\ pc = "idle" /\ d' = Padded(d) /\ out' = <<>> /\ pc' = "read"
      /\ saved' = saved /\ p' = p /\ resets' = resets /\ input' = input
  BY DEF BeginRead
<1>3. Common /\ Idle
  BY <1>2 DEF SpongeInv
<1>4. /\ Shape(Padded(d)) /\ Squeezing(Padded(d), input)
      /\ Position(Padded(d)) = Position(d) /\ Position(d) \in Nat
  BY <1>3, PaddedObject DEF Common, Idle
<1>5. want' \in Nat
  BY <1>1, <1>4, BoundsAssumption
<1>6. Common'
  BY <1>2, <1>3, <1>5 DEF Common
<1>7. Reading'
  <2>1. Len(out') = 0 /\ Gives(out', input', Position(d') - Len(out'))
    BY <1>2, NothingGiven
  <2>2. Len(out') <= want' /\ Len(out') <= Position(d')
    BY <1>2, <1>4, <1>5, <2>1
  <2> QED
    BY <1>2, <1>3, <1>4, <2>1, <2>2 DEF Reading, Idle
<1> QED
  BY <1>2, <1>6, <1>7 DEF SpongeInv

LEMMA SumInv == SpongeInv /\ Sum => SpongeInv'
<1> SUFFICES ASSUME SpongeInv, Sum PROVE SpongeInv'
  OBVIOUS
<1>1. /\ pc = "idle" /\ CanClone /\ saved' = <<d>> /\ d' = Padded(clone)
      /\ want' = OutputLen /\ out' = <<>> /\ pc' = "read"
      /\ p' = p /\ resets' = resets /\ input' = input
  BY DEF Sum
<1>2. Common /\ Idle
  BY <1>1 DEF SpongeInv
<1>3. /\ IsObject(clone, <<>>, input)
      /\ Position(clone) = Position(d) \/ (d.squeezing = TRUE /\ Rate # MaxRate)
  BY <1>1, <1>2, CloneIs DEF Common, Idle
<1>4. /\ Shape(d') /\ Squeezing(d', input)
      /\ Position(d') = Position(clone) /\ Position(d') \in Nat
  BY <1>1, <1>2, <1>3, PaddedObject DEF Common
<1>5. want' \in Nat
  BY <1>1, BoundsAssumption
<1>6. Common'
  BY <1>1, <1>2, <1>5 DEF Common
<1>7. Len(out') = 0 /\ Gives(out', input', Position(d') - Len(out'))
  BY <1>1, NothingGiven
<1>8. Len(out') <= want' /\ Len(out') <= Position(d') /\ Position(d') - Len(out') = Position(d')
  BY <1>4, <1>5, <1>7
<1>9. PICK s : s = d
  OBVIOUS
<1>10. SavedIs(s)'
  <2>1. IsObject(s, <<>>, input')
    BY <1>1, <1>2, <1>9 DEF Idle
  <2>2. (s.squeezing = TRUE /\ Rate # MaxRate) \/ Position(s) = Position(d') - Len(out')
    BY <1>3, <1>4, <1>8, <1>9
  <2>3. saved' = <<s>>
    BY <1>1, <1>9
  <2> QED
    BY <1>1, <2>1, <2>2, <2>3 DEF SavedIs
<1>11. Reading'
  BY <1>1, <1>2, <1>4, <1>7, <1>8, <1>10 DEF Reading, Idle
<1> QED
  BY <1>1, <1>6, <1>11 DEF SpongeInv
\* How many bytes the next round copies.
LEMMA CopiedIs ==
  ASSUME SpongeInv, pc = "read", Len(out) < want
  PROVE  /\ Least(d.len, want - Len(out)) \in Nat
         /\ Least(d.len, want - Len(out)) <= d.len
         /\ Len(out) + Least(d.len, want - Len(out)) <= want
<1>1. Common /\ Reading
  BY DEF SpongeInv
<1>2. want \in Nat /\ d.len \in Nat /\ Len(out) \in Nat
  BY <1>1, SqueezingFacts, SeqFacts DEF Common, Reading, Gives
<1> QED
  BY <1>2 DEF Least

LEMMA SqueezeSteps ==
  ASSUME SpongeInv, Squeeze
  PROVE  /\ Shape(d') /\ Squeezing(d', input)
         /\ Position(d) \in Nat /\ Position(d') \in Nat /\ Len(out) \in Nat /\ Len(out') \in Nat
         /\ Position(d') - Len(out') = Position(d) - Len(out)
         /\ Len(out') <= want /\ Len(out') <= Position(d')
         /\ Gives(out', input, Position(d') - Len(out'))
<1> DEFINE n == Least(d.len, want - Len(out))
           t == Take(Buffered(d), n)
           x == Position(d) - Len(out)
<1>1. pc = "read" /\ Len(out) < want /\ out' = out \o t /\ d' = AfterSqueeze(d, n)
  BY DEF Squeeze, buf, Buffered, Take, AfterSqueeze
<1>2. /\ IsSeq(input) /\ Shape(d) /\ Squeezing(d, input)
      /\ Len(out) <= Position(d) /\ Gives(out, input, x)
  BY <1>1 DEF SpongeInv, Common, Reading
<1>3. n \in Nat /\ n <= d.len /\ Len(out) + n <= want
  BY <1>1, CopiedIs
<1>4. Len(out) \in Nat
  BY <1>2, SeqFacts DEF Gives
<1> HIDE DEF n
<1>5. Gives(t, input, Position(d)) /\ Len(t) = n /\ Position(d) \in Nat
  BY <1>2, <1>3, BufferGives
<1>6. /\ Shape(d') /\ Squeezing(d', input) /\ Position(d') = Position(d) + n
  BY <1>1, <1>2, <1>3, SqueezeMoves
<1>7. x \in Nat /\ x + Len(out) = Position(d)
  BY <1>2, <1>4, <1>5
<1> HIDE DEF t, x
<1>8. Gives(out \o t, input, x) /\ Len(out \o t) = Len(out) + Len(t)
  BY <1>2, <1>5, <1>7, ConcatGives
<1>9. Len(out') = Len(out) + n
  BY <1>1, <1>5, <1>8
<1>10. Position(d') - Len(out') = x
  BY <1>3, <1>4, <1>5, <1>6, <1>9 DEF x
<1>11. Gives(out', input, Position(d') - Len(out'))
  BY <1>1, <1>8, <1>10
<1>12. /\ Len(out') <= want /\ Len(out') <= Position(d') /\ Position(d') \in Nat
       /\ Len(out') \in Nat
  BY <1>2, <1>3, <1>4, <1>5, <1>6, <1>9
<1> QED
  BY <1>4, <1>5, <1>6, <1>10, <1>11, <1>12 DEF x

LEMMA SqueezeInv == SpongeInv /\ Squeeze => SpongeInv'
<1> SUFFICES ASSUME SpongeInv, Squeeze PROVE SpongeInv'
  OBVIOUS
<1>1. /\ pc = "read" /\ saved' = saved /\ pc' = pc /\ p' = p /\ want' = want
      /\ resets' = resets /\ input' = input
  BY DEF Squeeze
<1>2. Common /\ Reading
  BY <1>1 DEF SpongeInv
<1>3. /\ Shape(d') /\ Squeezing(d', input)
      /\ Position(d') - Len(out') = Position(d) - Len(out)
      /\ Len(out') <= want /\ Len(out') <= Position(d')
      /\ Gives(out', input, Position(d') - Len(out'))
  BY SqueezeSteps
<1>4. Common'
  BY <1>1, <1>2 DEF Common
<1>5. ASSUME NEW s, SavedIs(s) PROVE SavedIs(s)'
  <2>1. saved' = <<s>> /\ want' = OutputLen /\ IsObject(s, <<>>, input')
    BY <1>1, <1>5 DEF SavedIs
  <2>2. (s.squeezing = TRUE /\ Rate # MaxRate) \/ Position(s) = Position(d') - Len(out')
    BY <1>3, <1>5 DEF SavedIs
  <2> QED
    BY <2>1, <2>2 DEF SavedIs
<1>6. (saved = <<>> \/ \E s : SavedIs(s))'
  BY <1>1, <1>2, <1>5 DEF Reading
<1>7. Reading'
  BY <1>1, <1>2, <1>3, <1>6 DEF Reading
<1> QED
  BY <1>1, <1>4, <1>7 DEF SpongeInv

LEMMA ReadReturnsInv == SpongeInv /\ ReadReturns => SpongeInv'
<1> SUFFICES ASSUME SpongeInv, ReadReturns PROVE SpongeInv'
  OBVIOUS
<1>1. /\ pc = "read" /\ d' = (IF saved = <<>> THEN d ELSE saved[1]) /\ saved' = <<>>
      /\ out' = <<>> /\ want' = 0 /\ pc' = "idle"
      /\ p' = p /\ resets' = resets /\ input' = input
  BY DEF ReadReturns
<1>2. Common /\ Reading
  BY <1>1 DEF SpongeInv
<1>3. Common'
  BY <1>1, <1>2 DEF Common
<1>4. IsObject(d', <<>>, input)
  <2>1. CASE saved = <<>>
    BY <1>1, <1>2, <2>1 DEF IsObject, Reading
  <2>2. CASE saved # <<>>
    <3>1. PICK s : SavedIs(s)
      BY <1>2, <2>2 DEF Reading
    <3>2. saved = <<s>> /\ saved[1] = s /\ IsObject(s, <<>>, input)
      BY <3>1 DEF SavedIs
    <3> QED
      BY <1>1, <2>2, <3>2
  <2> QED
    BY <2>1, <2>2
<1>5. Idle'
  BY <1>1, <1>2, <1>4 DEF Idle, Reading
<1> QED
  BY <1>1, <1>3, <1>5 DEF SpongeInv

LEMMA WriteReturnsInv == SpongeInv /\ WriteReturns => SpongeInv'
<1> SUFFICES ASSUME SpongeInv, WriteReturns PROVE SpongeInv'
  OBVIOUS
<1>1. /\ pc = "write" /\ p = <<>> /\ pc' = "idle" /\ d' = d /\ saved' = saved /\ p' = p
      /\ want' = want /\ out' = out /\ resets' = resets /\ input' = input
  BY DEF WriteReturns
<1>2. Common /\ Writing
  BY <1>1 DEF SpongeInv
<1>3. Common'
  BY <1>1, <1>2 DEF Common
<1>4. Idle'
  BY <1>1, <1>2 DEF Idle, Writing, IsObject
<1> QED
  BY <1>1, <1>3, <1>4 DEF SpongeInv

LEMMA PanicsInv == SpongeInv /\ (WritePanics \/ SumPanics) => SpongeInv'
<1> SUFFICES ASSUME SpongeInv, WritePanics \/ SumPanics PROVE SpongeInv'
  OBVIOUS
<1>1. /\ pc = "idle" /\ pc' = pc /\ d' = d /\ saved' = saved /\ p' = p
      /\ want' = want /\ out' = out /\ resets' = resets /\ input' = input
  BY DEF WritePanics, SumPanics
<1>2. Common /\ Idle
  BY <1>1 DEF SpongeInv
<1>3. Common'
  BY <1>1, <1>2 DEF Common
<1>4. Idle'
  BY <1>1, <1>2 DEF Idle
<1> QED
  BY <1>1, <1>3, <1>4 DEF SpongeInv

\* What Reset makes of an object.
AfterReset(o) == Slice([o EXCEPT !.a = <<>>, !.squeezing = FALSE], 0, 0)

LEMMA ResetIs ==
  ASSUME NEW o, Shape(o)
  PROVE  /\ Shape(AfterReset(o)) /\ Absorbing(AfterReset(o), <<>>, <<>>)
<1> DEFINE nil == <<>>
           f == FALSE
           b == [o EXCEPT !.a = nil]
           c == [b EXCEPT !.squeezing = f]
           o1 == Slice(c, 0, 0)
<1>1. IsRecord(o) /\ IsSeq(o.storage) /\ Len(o.storage) = MaxRate /\ IsSeq(nil)
  BY NothingGiven DEF Shape
<1>2. AfterReset(o) = o1
  BY DEF AfterReset
<1>3. 0 - 0 = 0
  OBVIOUS
<1> HIDE DEF nil, f
<1>4. IsRecord(b) /\ b.a = nil /\ b.storage = o.storage
  BY <1>1 DEF IsRecord
<1> HIDE DEF b
<1>5. IsRecord(c) /\ c.a = nil /\ c.storage = o.storage /\ c.squeezing = f
  BY <1>4 DEF IsRecord
<1> HIDE DEF c
<1>6. Shape(c)
  BY <1>1, <1>5 DEF Shape
<1>7. Shape(o1)
  BY <1>6, SliceShape
<1>8. /\ o1.a = nil /\ o1.off = 0 /\ o1.len = 0 - 0 /\ o1.squeezing = f
  BY <1>5, SliceIs
<1> HIDE DEF o1
<1>9. Absorbing(o1, <<>>, <<>>)
  BY <1>3, <1>7, <1>8, EmptyAbsorbing DEF nil, f
<1> QED
  BY <1>2, <1>7, <1>9

LEMMA ResetInv == SpongeInv /\ Reset => SpongeInv'
<1> SUFFICES ASSUME SpongeInv, Reset PROVE SpongeInv'
  OBVIOUS
<1>1. /\ pc = "idle" /\ resets < MaxResets /\ resets' = resets + 1
      /\ d' = AfterReset(d) /\ input' = <<>>
      /\ saved' = saved /\ pc' = pc /\ p' = p /\ want' = want /\ out' = out
  BY DEF Reset, AfterReset
<1>2. Common /\ Idle
  BY <1>1 DEF SpongeInv
<1>3. Shape(AfterReset(d)) /\ Absorbing(AfterReset(d), <<>>, <<>>)
  BY <1>2, ResetIs DEF Idle, IsObject
<1>4. resets' \in 0 .. MaxResets
  BY <1>1, <1>2, BoundsAssumption DEF Common
<1>5. Common'
  BY <1>1, <1>2, <1>4, NothingGiven DEF Common
<1>6. Idle'
  BY <1>1, <1>2, <1>3 DEF Idle, IsObject
<1> QED
  BY <1>1, <1>5, <1>6 DEF SpongeInv

LEMMA StutterInv == SpongeInv /\ UNCHANGED vars => SpongeInv'
<1> SUFFICES ASSUME SpongeInv, UNCHANGED vars PROVE SpongeInv'
  OBVIOUS
<1>1. /\ d' = d /\ saved' = saved /\ pc' = pc /\ p' = p /\ want' = want /\ out' = out
      /\ resets' = resets /\ input' = input
  BY DEF vars
<1>2. Common' <=> Common
  BY <1>1 DEF Common
<1>3. Idle' <=> Idle
  BY <1>1 DEF Idle
<1>4. Writing' <=> Writing
  BY <1>1 DEF Writing
<1>5. Reading' <=> Reading
  BY <1>1 DEF Reading, SavedIs
<1> QED
  BY <1>1, <1>2, <1>3, <1>4, <1>5 DEF SpongeInv

LEMMA NextInv == SpongeInv /\ [Next]_vars => SpongeInv'
BY BeginWriteInv, PanicsInv, BeginReadInv, SumInv, ResetInv, FastPathInv, SlowPathInv,
   WriteReturnsInv, SqueezeInv, ReadReturnsInv, StutterInv
   DEF Next, Call, Round

LEMMA Invariance == Spec => []SpongeInv
BY InitInv, NextInv, PTL DEF Spec

-----------------------------------------------------------------------------
(* The types.                                                              *)

\* An object that is absorbing or squeezing has the type of one.
TypedObject(o) ==
  /\ Len(o.storage) = MaxRate
  /\ o.squeezing \in BOOLEAN
  /\ IF o.squeezing THEN o.off + o.len = Rate /\ o.len > 0
     ELSE o.off = 0 /\ o.len < Rate
  /\ \A k \in DOMAIN o.a : Len(o.a[k]) \in {Rate} \union (IF o.squeezing THEN {0} ELSE {})

LEMMA ObjectTyped ==
  ASSUME NEW o, NEW rest, NEW inp, IsSeq(inp), IsObject(o, rest, inp)
  PROVE  TypedObject(o)
<1>1. Len(o.storage) = MaxRate /\ Rate \in Nat
  BY BaseFacts DEF IsObject, Shape
<1>2. CASE Absorbing(o, rest, inp)
  <2>1. /\ o.squeezing = FALSE /\ o.off = 0 /\ o.len < Rate
    BY <1>2, AbsorbingFacts DEF IsObject
  <2>2. \A k \in DOMAIN o.a : Len(o.a[k]) = Rate
    BY <1>2, AbsorbingLengths DEF IsObject
  <2> QED
    BY <1>1, <2>1, <2>2 DEF TypedObject
<1>3. CASE Squeezing(o, inp)
  <2>1. /\ o.squeezing = TRUE /\ o.off + o.len = Rate /\ o.len > 0
        /\ \A k \in DOMAIN o.a : Len(o.a[k]) \in {Rate, 0}
    BY <1>3, SqueezingFacts
  <2> QED
    BY <1>1, <2>1 DEF TypedObject
<1> QED
  BY <1>2, <1>3 DEF IsObject

LEMMA InvTyped == SpongeInv => TypeOK
<1> SUFFICES ASSUME SpongeInv PROVE TypeOK
  OBVIOUS
<1>1. Common /\ pc \in {"idle", "write", "read"} /\ IsSeq(input)
  BY DEF SpongeInv, Common
<1>2. TypedObject(d)
  BY <1>1, ObjectTyped DEF SpongeInv, Idle, Writing, Reading, IsObject
<1>3. ASSUME NEW i \in DOMAIN saved PROVE TypedObject(saved[i])
  <2>1. saved # <<>>
    BY <1>3
  <2>2. PICK s : SavedIs(s)
    BY <2>1 DEF SpongeInv, Idle, Writing, Reading
  <2>3. saved = <<s>> /\ IsObject(s, <<>>, input)
    BY <2>2 DEF SavedIs
  <2>4. i = 1 /\ saved[i] = s
    BY <1>3, <2>3
  <2> QED
    BY <1>1, <2>3, <2>4, ObjectTyped
<1>4. \A o \in {d} \union {saved[i] : i \in DOMAIN saved} : TypedObject(o)
  BY <1>2, <1>3
<1>5. pc = "write" => ~d.squeezing
  BY AbsorbingFacts DEF SpongeInv, Writing
<1>6. pc = "read" => d.squeezing
  BY <1>1, SqueezingFacts DEF SpongeInv, Reading
<1>7. Len(out) <= want
  BY <1>1, NothingGiven DEF SpongeInv, Common, Idle, Writing, Reading
<1> QED
  BY <1>1, <1>4, <1>5, <1>6, <1>7 DEF TypeOK, TypedObject, Common

\* The buffer lies in the part of storage that the rate covers, whatever is
\* written and read in whatever portions: it is never full while absorbing nor
\* empty while squeezing, and every block that Write absorbs has the length of
\* the rate (sha3.go:71-106, permute and padAndPermute).
THEOREM SpongeTypeCorrect == Spec => []TypeOK
BY Invariance, InvTyped, PTL
-----------------------------------------------------------------------------
(* Every step of the sponge is a step of the hash object, or none.         *)

\* The hash object's position and whether it is being read.
At == Position(Object) - (IF saved = <<>> THEN Len(out) ELSE 0)
BeingRead == Object.squeezing

\* While no clone is read the object is d.
LEMMA ObjectIs ==
  /\ saved = <<>> => Object = d /\ BeingRead = d.squeezing /\ At = Position(d) - Len(out)
  /\ \A s : saved = <<s>> => Object = s /\ BeingRead = s.squeezing /\ At = Position(s) - 0
<1>1. saved = <<>> => Object = d /\ BeingRead = d.squeezing /\ At = Position(d) - Len(out)
  BY DEF Object, BeingRead, At
<1>2. ASSUME NEW s, saved = <<s>>
      PROVE  Object = s /\ BeingRead = s.squeezing /\ At = Position(s) - 0
  <2>1. <<s>> # <<>> /\ <<s>>[1] = s
    OBVIOUS
  <2>2. Object = s
    BY <1>2, <2>1 DEF Object
  <2> QED
    BY <1>2, <2>1, <2>2 DEF BeingRead, At
<1> QED
  BY <1>1, <1>2

LEMMA ObjectIsNext ==
  /\ saved' = <<>> => Object' = d' /\ BeingRead' = d'.squeezing /\ At' = Position(d') - Len(out')
  /\ \A s : saved' = <<s>> => Object' = s /\ BeingRead' = s.squeezing /\ At' = Position(s) - 0
<1>1. saved' = <<>> => Object' = d' /\ BeingRead' = d'.squeezing /\ At' = Position(d') - Len(out')
  BY DEF Object, BeingRead, At
<1>2. ASSUME NEW s, saved' = <<s>>
      PROVE  Object' = s /\ BeingRead' = s.squeezing /\ At' = Position(s) - 0
  <2>1. <<s>> # <<>> /\ <<s>>[1] = s
    OBVIOUS
  <2>2. Object' = s
    BY <1>2, <2>1 DEF Object
  <2> QED
    BY <1>2, <2>1, <2>2 DEF BeingRead, At
<1> QED
  BY <1>1, <1>2

\* The hash object as its variables are mapped.
LEMMA HashIs ==
  /\ Hash!vars = <<input, BeingRead, At, result>>
  /\ Hash!Init <=> /\ input = <<>> /\ BeingRead = FALSE /\ At = 0
                   /\ result = [panic |-> FALSE, bytes |-> <<>>]
BY DEF Hash!vars, Hash!Init, BeingRead, At

LEMMA HashIsNext == Hash!vars' = <<input', BeingRead', At', result'>>
BY DEF Hash!vars, BeingRead, At

LEMMA InitMaps == Init => Hash!Init
<1> SUFFICES ASSUME Init PROVE Hash!Init
  OBVIOUS
<1>1. /\ saved = <<>> /\ out = <<>> /\ input = <<>> /\ d.squeezing = FALSE
      /\ result = [panic |-> FALSE, bytes |-> <<>>]
  BY DEF Init
<1>2. Position(d) = 0 /\ Len(out) = 0
  BY <1>1 DEF Position
<1>3. BeingRead = d.squeezing /\ At = Position(d) - Len(out)
  BY <1>1, ObjectIs
<1>4. At = 0
  BY <1>2, <1>3
<1> QED
  BY <1>1, <1>3, <1>4, HashIs

\* A Write appends its bytes.
LEMMA BeginWriteMaps == SpongeInv /\ BeginWrite => Hash!Write
<1> SUFFICES ASSUME SpongeInv, BeginWrite PROVE Hash!Write
  OBVIOUS
<1>1. PICK n \in 1 .. MaxChunk : \E chunk \in [1 .. n -> Byte] : input' = input \o chunk
  BY DEF BeginWrite
<1>2. PICK chunk \in [1 .. n -> Byte] : input' = input \o chunk
  BY <1>1
<1>3. /\ pc = "idle" /\ ~d.squeezing /\ d' = d /\ saved' = saved /\ out' = out
      /\ result' = result
  BY DEF BeginWrite
<1>4. IsSeq(input) /\ saved = <<>>
  BY <1>3 DEF SpongeInv, Common, Idle
<1>5. IsSeq(chunk) /\ Len(chunk) = n /\ n \in Nat /\ Len(input) \in Nat
  BY <1>4, BoundsAssumption, FunctionIsSeq, SeqFacts
<1>6. Joins(input', input, chunk)
  BY <1>2, <1>4, <1>5, ConcatJoins
<1>7. /\ IsSeq(input') /\ Len(input') = Len(input) + n
      /\ \A i \in 1 .. Len(input) : input'[i] = input[i]
  BY <1>5, <1>6 DEF Joins
<1>8. Len(input) <= Len(input')
  BY <1>5, <1>7
<1>9. input = SubSeq(input', 1, Len(input))
  <2> DEFINE l == Len(input)
             t == Take(input', l)
  <2>1. IsSeq(t) /\ Len(t) = l /\ \A i \in 1 .. l : t[i] = input'[i]
    BY <1>5, <1>7, <1>8, TakeIs
  <2> HIDE DEF t
  <2>2. \A i \in 1 .. l : t[i] = input[i]
    BY <1>7, <2>1
  <2>3. t = input
    BY <1>4, <2>1, <2>2, SeqEqual
  <2> QED
    BY <2>3 DEF t, Take
<1>10. Object' = Object /\ ~Object.squeezing /\ At' = At
  BY <1>3, <1>4 DEF Object, At
<1> QED
  BY <1>3, <1>8, <1>9, <1>10 DEF Hash!Write, At

LEMMA WritePanicsMaps == SpongeInv /\ WritePanics => Hash!WriteAfterRead
<1> SUFFICES ASSUME SpongeInv, WritePanics PROVE Hash!WriteAfterRead
  OBVIOUS
<1>1. /\ pc = "idle" /\ d.squeezing /\ result' = [panic |-> TRUE, bytes |-> <<>>]
      /\ d' = d /\ saved' = saved /\ out' = out /\ input' = input
  BY DEF WritePanics
<1>2. saved = <<>>
  BY <1>1 DEF SpongeInv, Idle
<1>3. Object' = Object /\ Object.squeezing /\ At' = At
  BY <1>1, <1>2 DEF Object, At
<1> QED
  BY <1>1, <1>3 DEF Hash!WriteAfterRead, Hash!Panicked, At

\* The rounds of Write change nothing the user sees.
LEMMA WriteRoundMaps ==
  SpongeInv /\ (FastPath \/ SlowPath \/ WriteReturns) => UNCHANGED Hash!vars
<1> SUFFICES ASSUME SpongeInv, FastPath \/ SlowPath \/ WriteReturns
             PROVE  UNCHANGED Hash!vars
  OBVIOUS
<1>1. /\ pc = "write" /\ saved' = saved /\ out' = out /\ input' = input
      /\ result' = result
  BY DEF FastPath, SlowPath, WriteReturns
<1>2. saved = <<>> /\ Shape(d) /\ Absorbing(d, p, input)
  BY <1>1 DEF SpongeInv, Writing
<1>3. d.squeezing = FALSE /\ Position(d) = 0
  BY <1>2, AbsorbingFacts
<1>4. d'.squeezing = FALSE /\ Position(d') = 0
  <2>1. SpongeInv'
    BY FastPathInv, SlowPathInv, WriteReturnsInv
  <2>2. CASE WriteReturns
    BY <1>3, <2>2 DEF WriteReturns
  <2>3. CASE FastPath \/ SlowPath
    <3>1. pc' = "write"
      BY <1>1, <2>3 DEF FastPath, SlowPath
    <3>2. Shape(d') /\ Absorbing(d', p', input')
      BY <2>1, <3>1 DEF SpongeInv, Writing
    <3> QED
      BY <3>2, AbsorbingFacts
  <2> QED
    BY <2>2, <2>3
<1>5. BeingRead' = BeingRead /\ At' = At
  BY <1>1, <1>2, <1>3, <1>4, ObjectIs, ObjectIsNext
<1> QED
  BY <1>1, <1>5, HashIs, HashIsNext
LEMMA BeginReadMaps == SpongeInv /\ BeginRead => Hash!BeginRead
<1> SUFFICES ASSUME SpongeInv, BeginRead PROVE Hash!BeginRead
  OBVIOUS
<1>1. /\ pc = "idle" /\ pc' = "read" /\ d' = Padded(d) /\ out' = <<>>
      /\ saved' = saved /\ result' = result /\ input' = input
  BY DEF BeginRead
<1>2. Common /\ Idle
  BY <1>1 DEF SpongeInv
<1>3. /\ Shape(d') /\ Squeezing(d', input) /\ Position(d') = Position(d)
  BY <1>1, <1>2, PaddedObject DEF Common, Idle
<1>4. saved = <<>> /\ out = <<>> /\ saved' = <<>> /\ out' = <<>>
  BY <1>1, <1>2 DEF Idle
<1>5. BeingRead' = d'.squeezing /\ At' = Position(d') - Len(out') /\ At = Position(d) - Len(out)
  BY <1>4, ObjectIs, ObjectIsNext
<1>6. At' = At
  BY <1>3, <1>4, <1>5
<1>7. d'.squeezing = TRUE
  BY <1>2, <1>3, SqueezingFacts DEF Common
<1>8. BeingRead' = TRUE
  BY <1>5, <1>7
<1> QED
  BY <1>1, <1>6, <1>8 DEF Hash!BeginRead, BeingRead, At

\* A Sum begins with a clone, and leaves the object as it is.
LEMMA SumMaps == SpongeInv /\ Sum => UNCHANGED Hash!vars
<1> SUFFICES ASSUME SpongeInv, Sum PROVE UNCHANGED Hash!vars
  OBVIOUS
<1>1. /\ pc = "idle" /\ saved' = <<d>> /\ result' = result /\ input' = input
  BY DEF Sum
<1>2. saved = <<>> /\ out = <<>>
  BY <1>1 DEF SpongeInv, Idle
<1>3. PICK s : s = d
  OBVIOUS
<1>4. BeingRead' = s.squeezing /\ At' = Position(s) - 0
  <2>1. saved' = <<s>>
    BY <1>1, <1>3
  <2> QED
    BY <2>1, ObjectIsNext
<1>5. BeingRead = d.squeezing /\ At = Position(d) - Len(out) /\ Len(out) = 0
  BY <1>2, ObjectIs
<1>6. BeingRead' = BeingRead /\ At' = At
  BY <1>3, <1>4, <1>5
<1> QED
  BY <1>1, <1>6, HashIs, HashIsNext

\* A clone that cannot be taken is one that would not be exact.
LEMMA SumPanicsMaps == SpongeInv /\ SumPanics => Hash!Sum
<1> SUFFICES ASSUME SpongeInv, SumPanics PROVE Hash!Sum
  OBVIOUS
<1>1. /\ pc = "idle" /\ ~CanClone /\ d' = d /\ saved' = saved /\ out' = out /\ input' = input
  BY DEF SumPanics
<1>2. Common /\ Idle
  BY <1>1 DEF SpongeInv
<1>3. d.squeezing /\ ~(Rate >= MaxRate - d.off)
  BY <1>1 DEF CanClone
<1>4. d.off \in Nat
  <2>1. Shape(d) /\ IsSeq(input)
    BY <1>2 DEF Common, Idle, IsObject
  <2>2. CASE Absorbing(d, <<>>, input)
    <3>1. d.off = 0
      BY <2>1, <2>2, AbsorbingFacts
    <3> QED
      BY <3>1
  <2>3. CASE Squeezing(d, input)
    BY <2>1, <2>3, SqueezingFacts
  <2> QED
    BY <1>2, <2>2, <2>3 DEF Idle, IsObject
<1>5. Rate # MaxRate
  <2>1. Rate \in Nat /\ MaxRate \in Nat
    BY BaseFacts
  <2> QED
    BY <1>3, <1>4, <2>1
<1>6. Object' = Object /\ Object.squeezing /\ At' = At
  BY <1>1, <1>2, <1>3 DEF Object, At, Idle
<1> QED
  BY <1>1, <1>5, <1>6 DEF Hash!Sum, At

LEMMA SqueezeMaps == SpongeInv /\ Squeeze => UNCHANGED Hash!vars
<1> SUFFICES ASSUME SpongeInv, Squeeze PROVE UNCHANGED Hash!vars
  OBVIOUS
<1>1. /\ pc = "read" /\ saved' = saved /\ result' = result /\ input' = input
  BY DEF Squeeze
<1>2. Common /\ Reading
  BY <1>1 DEF SpongeInv
<1>3. CASE saved = <<>>
  <2>1. /\ Squeezing(d', input) /\ Position(d') - Len(out') = Position(d) - Len(out)
    BY SqueezeSteps
  <2>2. d.squeezing = TRUE /\ d'.squeezing = TRUE
    BY <1>2, <2>1, SqueezingFacts DEF Common, Reading
  <2>3. /\ BeingRead = d.squeezing /\ At = Position(d) - Len(out)
        /\ BeingRead' = d'.squeezing /\ At' = Position(d') - Len(out')
    BY <1>1, <1>3, ObjectIs, ObjectIsNext
  <2>4. BeingRead' = BeingRead /\ At' = At
    BY <2>1, <2>2, <2>3
  <2> QED
    BY <1>1, <2>4, HashIs, HashIsNext
<1>4. CASE saved # <<>>
  <2>1. PICK s : SavedIs(s)
    BY <1>2, <1>4 DEF Reading
  <2>2. saved = <<s>> /\ saved' = <<s>>
    BY <1>1, <2>1 DEF SavedIs
  <2>3. /\ BeingRead = s.squeezing /\ At = Position(s) - 0
        /\ BeingRead' = s.squeezing /\ At' = Position(s) - 0
    BY <2>2, ObjectIs, ObjectIsNext
  <2>4. BeingRead' = BeingRead /\ At' = At
    BY <2>3
  <2> QED
    BY <1>1, <2>4, HashIs, HashIsNext
<1> QED
  BY <1>3, <1>4

\* What Read returns are the next bytes, and what Sum returns the ones from the
\* object's place.
LEMMA ReadReturnsMaps == SpongeInv /\ ReadReturns => Hash!Read \/ Hash!Sum
<1> SUFFICES ASSUME SpongeInv, ReadReturns PROVE Hash!Read \/ Hash!Sum
  OBVIOUS
<1> DEFINE x == Position(d) - Len(out)
<1>1. /\ pc = "read" /\ Len(out) = want /\ result' = [panic |-> FALSE, bytes |-> out]
      /\ d' = (IF saved = <<>> THEN d ELSE saved[1]) /\ saved' = <<>>
      /\ out' = <<>> /\ input' = input
  BY DEF ReadReturns
<1>2. Common /\ Reading
  BY <1>1 DEF SpongeInv
<1>3. /\ Squeezing(d, input) /\ Len(out) <= Position(d) /\ Gives(out, input, x)
      /\ d.squeezing = TRUE /\ Position(d) \in Nat /\ Len(out) \in Nat
  BY <1>2, SqueezingFacts, SeqFacts DEF Common, Reading, Gives
<1>4. out = [i \in 1 .. Len(out) |-> Stream(input, x + i)]
  BY <1>3, GivenBytes
<1>5. Len(out') = 0 /\ BeingRead' = d'.squeezing /\ At' = Position(d') - Len(out')
  BY <1>1, ObjectIsNext
<1>6. CASE saved = <<>>
  <2>1. BeingRead = d.squeezing /\ At = x
    BY <1>6, ObjectIs
  <2>2. d' = d
    BY <1>1, <1>6
  <2>3. At' = Position(d) /\ At' >= At /\ At' - At = Len(out)
    BY <1>3, <1>5, <2>1, <2>2
  <2>4. result' = [panic |-> FALSE, bytes |-> [i \in 1 .. At' - At |-> Stream(input, At + i)]]
    BY <1>1, <1>4, <2>1, <2>3
  <2>5. BeingRead /\ BeingRead' = BeingRead
    BY <1>3, <1>5, <2>1, <2>2
  <2> HIDE DEF x
  <2>6. Hash!Read
    BY <1>1, <2>3, <2>4, <2>5 DEF Hash!Read, Hash!Bytes, BeingRead, At
  <2> QED
    BY <2>6
<1>7. CASE saved # <<>>
  <2>1. PICK s : SavedIs(s)
    BY <1>2, <1>7 DEF Reading
  <2>2. /\ saved = <<s>> /\ want = OutputLen /\ IsObject(s, <<>>, input)
        /\ (s.squeezing = TRUE /\ Rate # MaxRate) \/ Position(s) = x
    BY <2>1 DEF SavedIs
  <2>3. BeingRead = s.squeezing /\ At = Position(s) - 0
    BY <2>2, ObjectIs
  <2>4. d' = s
    <3>1. <<s>>[1] = s
      OBVIOUS
    <3> QED
      BY <1>1, <1>7, <2>2, <3>1
  <2>5. Position(s) \in Nat
    BY <1>2, <2>2, PaddedObject DEF Common
  <2>6. BeingRead' = BeingRead /\ At' = At
    BY <1>5, <2>3, <2>4
  <2>7. (BeingRead /\ Rate # MaxRate)
        \/ result' = [panic |-> FALSE, bytes |-> [i \in 1 .. OutputLen |-> Stream(input, At + i)]]
    <3>1. CASE s.squeezing = TRUE /\ Rate # MaxRate
      BY <2>3, <3>1
    <3>2. CASE Position(s) = x
      <4>1. At = x
        BY <2>3, <2>5, <3>2
      <4> HIDE DEF x
      <4> QED
        BY <1>1, <1>4, <2>2, <4>1
    <3> QED
      BY <2>2, <3>1, <3>2
  <2>8. Hash!Sum
    BY <1>1, <2>6, <2>7 DEF Hash!Sum, Hash!Bytes, BeingRead, At
  <2> QED
    BY <2>8
<1> QED
  BY <1>6, <1>7

LEMMA ResetMaps == SpongeInv /\ Reset => Hash!Reset
<1> SUFFICES ASSUME SpongeInv, Reset PROVE Hash!Reset
  OBVIOUS
<1>1. /\ pc = "idle" /\ pc' = pc /\ input' = <<>> /\ saved' = saved /\ out' = out
      /\ result' = result /\ d' = AfterReset(d)
  BY DEF Reset, AfterReset
<1>2. saved = <<>> /\ out = <<>> /\ Shape(d)
  BY <1>1 DEF SpongeInv, Idle, IsObject
<1>3. Shape(d') /\ Absorbing(d', <<>>, <<>>)
  BY <1>1, <1>2, ResetIs
<1>4. d'.squeezing = FALSE /\ Position(d') = 0
  BY <1>3, AbsorbingFacts
<1>5. BeingRead' = d'.squeezing /\ At' = Position(d') - Len(out') /\ Len(out') = 0
  BY <1>1, <1>2, ObjectIsNext
<1>6. At' = 0
  BY <1>4, <1>5
<1>7. BeingRead' = FALSE
  BY <1>4, <1>5
<1> QED
  BY <1>1, <1>6, <1>7 DEF Hash!Reset, BeingRead, At

LEMMA StutterMaps == UNCHANGED vars => UNCHANGED Hash!vars
BY DEF vars, Hash!vars, Object

LEMMA NextMaps == SpongeInv /\ [Next]_vars => [Hash!Next]_Hash!vars
<1> SUFFICES ASSUME SpongeInv, [Next]_vars PROVE [Hash!Next]_Hash!vars
  OBVIOUS
<1>1. CASE BeginWrite
  BY <1>1, BeginWriteMaps DEF Hash!Next
<1>2. CASE WritePanics
  BY <1>2, WritePanicsMaps DEF Hash!Next
<1>3. CASE BeginRead
  BY <1>3, BeginReadMaps DEF Hash!Next
<1>4. CASE Sum
  BY <1>4, SumMaps
<1>5. CASE SumPanics
  BY <1>5, SumPanicsMaps DEF Hash!Next
<1>6. CASE Reset
  BY <1>6, ResetMaps DEF Hash!Next
<1>7. CASE FastPath \/ SlowPath \/ WriteReturns
  BY <1>7, WriteRoundMaps
<1>8. CASE Squeeze
  BY <1>8, SqueezeMaps
<1>9. CASE ReadReturns
  BY <1>9, ReadReturnsMaps DEF Hash!Next
<1>10. CASE UNCHANGED vars
  BY <1>10, StutterMaps
<1> QED
  BY <1>1, <1>2, <1>3, <1>4, <1>5, <1>6, <1>7, <1>8, <1>9, <1>10 DEF Next, Call, Round

\* What Read and Sum return is a function of the bytes written since the last
\* Reset and of how many were read, for every input and in every portions: the
\* block loop of Write, its partial buffer, the padding, the loop of Read and the
\* clone that Sum reads from (sha3.go:60-171) do not show.
THEOREM SpongeIsHash == Spec => HashSpec
<1>1. Init => Hash!Init
  BY InitMaps
<1>2. SpongeInv /\ [Next]_vars => [Hash!Next]_Hash!vars
  BY NextMaps
<1> QED
  BY <1>1, <1>2, Invariance, PTL DEF Spec, HashSpec, Hash!Spec

=============================================================================
