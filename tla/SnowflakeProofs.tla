--------------------------- MODULE SnowflakeProofs ---------------------------
(***************************************************************************)
(* What holds of the ids of getSnowflakeId for any number of goroutines,   *)
(* calls and restarts: they increase while the timestamp does not start    *)
(* from zero again and the clock is not set back, and are unique then.     *)
(***************************************************************************)
EXTENDS Snowflake, TLAPS

\* The greatest id a timestamp has room for is below the next one's.
LEMMA Shifted ==
  ASSUME NEW s \in Nat, NEW t \in Nat, s < t
  PROVE  s * IdShift + IdShift <= t * IdShift
<1> DEFINE d == t - s - 1
<1>1. d \in Nat /\ t = d + s + 1
  OBVIOUS
<1>2. t * IdShift = d * IdShift + s * IdShift + IdShift
  BY <1>1, IdShiftAssumption
<1>3. d * IdShift \in Nat /\ s * IdShift \in Nat
  BY <1>1, IdShiftAssumption
<1> QED
  BY <1>2, <1>3, IdShiftAssumption

\* What the 41 bits keep of a time.
LEMMA Remainder ==
  ASSUME NEW t \in Nat
  PROVE  t % TSMod \in Nat /\ t = TSMod * (t \div TSMod) + (t % TSMod)
  BY TSModAssumption

LEMMA IdType ==
  ASSUME NEW t \in Nat, NEW n \in Nat
  PROVE  SnowflakeId(t, n) \in Nat /\ SnowflakeId(t, n) = (t % TSMod) * IdShift + n
<1>1. t % TSMod \in Nat
  BY Remainder
<1>2. (t % TSMod) * IdShift \in Nat
  BY <1>1, IdShiftAssumption
<1> QED
  BY <1>2 DEF SnowflakeId

LEMMA IdInNat == \A t \in Nat, n \in Nat : SnowflakeId(t, n) \in Nat
  BY IdType

\* Within a window the ids of a later time are greater.
LEMMA LaterIsGreater ==
  ASSUME NEW s \in Nat, NEW t \in Nat, s < t, s \div TSMod = t \div TSMod
  PROVE  SnowflakeId(s, SnMax + 1) < SnowflakeId(t, 0)
<1> DEFINE p == s % TSMod
           q == t % TSMod
<1>1. p \in Nat /\ q \in Nat /\ p < q
  <2>1. s = TSMod * (s \div TSMod) + p /\ t = TSMod * (t \div TSMod) + q
    BY Remainder
  <2>2. TSMod * (s \div TSMod) \in Int /\ p \in Nat /\ q \in Nat
    BY Remainder, TSModAssumption
  <2> QED
    BY <2>1, <2>2
<1>2. p * IdShift + IdShift <= q * IdShift
  BY <1>1, Shifted
<1>3. /\ SnowflakeId(s, SnMax + 1) = p * IdShift + (SnMax + 1)
      /\ SnowflakeId(t, 0) = q * IdShift + 0
  BY IdType, SnMaxAssumption
<1>4. p * IdShift \in Nat /\ q * IdShift \in Nat
  BY <1>1, IdShiftAssumption
<1> HIDE DEF p, q
<1> QED
  BY <1>2, <1>3, <1>4, SnMaxAssumption, IdShiftAssumption

\* The ids of one time increase with the sequence number.
LEMMA NextInTime ==
  ASSUME NEW t \in Nat, NEW m \in Nat, NEW n \in Nat, m <= n
  PROVE  SnowflakeId(t, m) <= SnowflakeId(t, n)
<1>1. (t % TSMod) * IdShift \in Nat
  BY Remainder, IdShiftAssumption
<1> QED
  BY <1>1 DEF SnowflakeId

-----------------------------------------------------------------------------
\* Who holds mu; what the ids so far have to do with the clock while nobody has
\* read it for the next one, and with the time a goroutine has read.
Owner == \A g \in Goroutine : pc[g] # "idle" => mu = g

Sized ==
  /\ sn <= SnMax + 1
  /\ \A m \in made : m.era <= setBacks /\ m.id <= SnowflakeId(m.stamp, SnMax + 1)

\* The ids of this era are of no later time than the clock's, and those of this
\* very microsecond are counted by sn.
NotAhead == \A m \in made : m.era = setBacks => m.stamp <= now

Counted ==
  (\A g \in Goroutine : pc[g] # "stamped") =>
    \A m \in made : m.era = setBacks /\ m.stamp = now =>
      lastTimeStamp = now /\ m.id <= SnowflakeId(now, sn)

\* While a goroutine sleeps a new microsecond begins.
Rested ==
  \A g \in Goroutine : pc[g] = "slept" =>
    \A m \in made : m.era = setBacks => m.stamp < now

\* The time a goroutine has read leaves room for one more id.
Room ==
  \A g \in Goroutine : pc[g] = "stamped" =>
    /\ sn <= SnMax
    /\ era <= setBacks
    /\ era = setBacks => curTimeStamp <= now
    /\ \A m \in made :
         /\ m.era <= era
         /\ m.era = era => m.stamp <= curTimeStamp
         /\ m.era = era /\ m.stamp = curTimeStamp => m.id <= SnowflakeId(curTimeStamp, sn)

IInv == TypeOK /\ Owner /\ Sized /\ NotAhead /\ Counted /\ Rested /\ Room

LEMMA SnowInit == Init => IInv
  BY NoGoroutineAssumption, SnMaxAssumption, StartTimeAssumption
  DEF Init, IInv, TypeOK, Owner, Sized, NotAhead, Counted, Rested, Room

\* The id that Return makes is above all the others of its window.
LEMMA ReturnedIsGreatest ==
  ASSUME IInv, NEW g \in Goroutine, pc[g] = "stamped"
  PROVE  LET new == [era |-> era, stamp |-> curTimeStamp,
                     id |-> SnowflakeId(curTimeStamp, sn + 1)]
         IN  /\ new \in [era : Nat, stamp : Nat, id : Nat]
             /\ new.id <= SnowflakeId(curTimeStamp, SnMax + 1)
             /\ new \notin made
             /\ \A old \in made : Window(old) = Window(new) => old.id < new.id
<1> DEFINE new == [era |-> era, stamp |-> curTimeStamp,
                   id |-> SnowflakeId(curTimeStamp, sn + 1)]
<1>1. curTimeStamp \in Nat /\ era \in Nat /\ sn \in Nat /\ sn <= SnMax /\ sn + 1 \in Nat
  BY DEF IInv, TypeOK, Room
<1>2. new \in [era : Nat, stamp : Nat, id : Nat]
  BY <1>1, IdType
<1>3. new.id <= SnowflakeId(curTimeStamp, SnMax + 1)
  BY <1>1, NextInTime, SnMaxAssumption
<1>4. SnowflakeId(curTimeStamp, sn) < new.id /\ SnowflakeId(curTimeStamp, 0) < new.id
  <2>1. (curTimeStamp % TSMod) * IdShift \in Nat
    BY <1>1, Remainder, IdShiftAssumption
  <2> QED
    BY <1>1, <2>1 DEF SnowflakeId
<1>5. ASSUME NEW old \in made, Window(old) = Window(new) PROVE old.id < new.id
  <2>1. /\ old.era = era /\ old.stamp \div TSMod = curTimeStamp \div TSMod
        /\ old.stamp \in Nat /\ old.id \in Nat
    BY <1>5 DEF Window, IInv, TypeOK
  <2>2. old.stamp <= curTimeStamp
    BY <2>1 DEF IInv, Room
  <2>3. CASE old.stamp = curTimeStamp
    <3>1. old.id <= SnowflakeId(curTimeStamp, sn)
      BY <2>1, <2>3 DEF IInv, Room
    <3>2. SnowflakeId(curTimeStamp, sn) \in Nat /\ new.id \in Nat
      BY <1>1, <1>2, IdType
    <3> HIDE DEF new
    <3> QED
      BY <1>4, <2>1, <3>1, <3>2
  <2>4. CASE old.stamp < curTimeStamp
    <3>1. old.id <= SnowflakeId(old.stamp, SnMax + 1)
      BY DEF IInv, Sized
    <3>2. SnowflakeId(old.stamp, SnMax + 1) < SnowflakeId(curTimeStamp, 0)
      BY <1>1, <2>1, <2>4, LaterIsGreater
    <3>3. /\ SnowflakeId(old.stamp, SnMax + 1) \in Nat
          /\ SnowflakeId(curTimeStamp, 0) \in Nat /\ new.id \in Nat
      <4>1. SnMax + 1 \in Nat /\ 0 \in Nat
        BY SnMaxAssumption
      <4> QED
        BY <1>1, <1>2, <2>1, <4>1, IdInNat
    <3> HIDE DEF new
    <3> QED
      BY <1>4, <2>1, <3>1, <3>2, <3>3
  <2> QED
    BY <1>1, <2>1, <2>2, <2>3, <2>4
<1>6. new \notin made
  <2>1. Window(new) = Window(new) /\ new.id \in Nat
    BY <1>2
  <2> HIDE DEF new
  <2> QED
    BY <1>5, <2>1
<1> QED
  BY <1>2, <1>3, <1>5, <1>6

LEMMA SnowNext == IInv /\ [Next]_vars => IInv'
<1> SUFFICES ASSUME IInv, [Next]_vars PROVE IInv'
  OBVIOUS
<1>n. /\ now \in Nat /\ sn \in Nat /\ SnMax \in Nat /\ setBacks \in Nat /\ era \in Nat
      /\ curTimeStamp \in Nat /\ lastTimeStamp \in Nat
      /\ \A m \in made : m.era \in Nat /\ m.stamp \in Nat /\ m.id \in Nat
  BY SnMaxAssumption DEF IInv, TypeOK
<1>d. /\ \A t, n : UNCHANGED SnowflakeId(t, n)
  BY DEF SnowflakeId
<1> USE NoGoroutineAssumption, <1>n, <1>d
    DEF IInv, TypeOK, Owner, Sized, NotAhead, Counted, Rested, Room, histVars
<1>1. ASSUME NEW g \in Goroutine, Lock(g) PROVE IInv'
  BY <1>1 DEF Lock, Goto
<1>2. ASSUME NEW g \in Goroutine, StampSame(g) PROVE IInv'
  BY <1>2 DEF StampSame, Goto, ReadClock
<1>3. ASSUME NEW g \in Goroutine, Sleep(g) PROVE IInv'
  BY <1>3 DEF Sleep, Goto, ReadClock
<1>4. ASSUME NEW g \in Goroutine, Wake(g) PROVE IInv'
  BY <1>4 DEF Wake, Goto, ReadClock
<1>5. ASSUME NEW g \in Goroutine, StampNew(g) PROVE IInv'
  BY <1>5 DEF StampNew, Goto, ReadClock
<1>6. ASSUME NEW g \in Goroutine, Return(g) PROVE IInv'
  <2> DEFINE new == [era |-> era, stamp |-> curTimeStamp,
                     id |-> SnowflakeId(curTimeStamp, sn + 1)]
  <2>1. /\ pc[g] = "stamped" /\ sn' = sn + 1 /\ made' = made \union {new}
        /\ calls' = calls + 1 /\ lastTimeStamp' = curTimeStamp /\ mu' = NoGoroutine
        /\ UNCHANGED <<now, curTimeStamp, setBacks, era>>
    BY <1>6 DEF Return, MakeId
  <2>2. \A h \in Goroutine : pc'[h] = "idle"
    BY <1>6 DEF Return, Goto
  <2>3. /\ new \in [era : Nat, stamp : Nat, id : Nat]
        /\ new.id <= SnowflakeId(curTimeStamp, SnMax + 1)
    BY <2>1, ReturnedIsGreatest
  <2>4. /\ sn <= SnMax /\ era <= setBacks /\ (era = setBacks => curTimeStamp <= now)
        /\ \A m \in made :
             /\ m.era <= era
             /\ m.era = era => m.stamp <= curTimeStamp
             /\ m.era = era /\ m.stamp = curTimeStamp => m.id <= SnowflakeId(curTimeStamp, sn)
    BY <2>1
  <2>5. new.era = era /\ new.stamp = curTimeStamp /\ new.id = SnowflakeId(curTimeStamp, sn + 1)
    OBVIOUS
  <2>6. SnowflakeId(now, sn) <= SnowflakeId(now, sn + 1) /\ SnowflakeId(now, sn) \in Nat
        /\ SnowflakeId(now, sn + 1) \in Nat
    <3>1. now \in Nat /\ sn \in Nat /\ sn + 1 \in Nat /\ sn <= sn + 1
      BY <1>n
    <3>2. SnowflakeId(now, sn) \in Nat /\ SnowflakeId(now, sn + 1) \in Nat
      BY <3>1, IdInNat
    <3> QED
      BY <3>1, <3>2, NextInTime
  <2>7. TypeOK'
    <3>1. made' \in SUBSET [era : Nat, stamp : Nat, id : Nat]
      BY <2>1, <2>3
    <3> QED
      BY <1>6, <2>1, <3>1 DEF Return, Goto
  <2> HIDE DEF new
  <2>8. Sized'
    BY <2>1, <2>3, <2>4, <2>5
  <2>9. NotAhead'
    BY <2>1, <2>4, <2>5
  <2>10. Counted'
    <3> SUFFICES ASSUME NEW m \in made', m.era = setBacks, m.stamp = now
                 PROVE  curTimeStamp = now /\ m.id <= SnowflakeId(now, sn + 1)
      BY <2>1
    <3>1. CASE m = new
      BY <2>5, <2>6, <3>1
    <3>2. CASE m \in made
      <4>1. era = setBacks /\ m.era = era
        BY <2>4, <3>2
      <4>2. curTimeStamp = now
        BY <2>4, <3>2, <4>1
      <4> QED
        BY <2>4, <2>6, <3>2, <4>1, <4>2
    <3> QED
      BY <2>1, <3>1, <3>2
  <2> QED
    BY <2>1, <2>2, <2>7, <2>8, <2>9, <2>10
<1>7. CASE Tick
  BY <1>7 DEF Tick
<1>8. CASE SetBack
  BY <1>8 DEF SetBack
<1>9. CASE Restart
  BY <1>9 DEF Restart
<1>10. CASE UNCHANGED vars
  BY <1>10 DEF vars
<1> QED
  BY <1>1, <1>2, <1>3, <1>4, <1>5, <1>6, <1>7, <1>8, <1>9, <1>10
  DEF Next, GetSnowflakeId

LEMMA SnowInv == Spec => []IInv
  BY SnowInit, SnowNext, PTL DEF Spec

-----------------------------------------------------------------------------
\* Only Return makes an id.
LEMMA StepMakes ==
  ASSUME [Next]_vars
  PROVE  UNCHANGED <<calls, made>> \/ \E g \in Goroutine : Return(g)
  BY DEF Next, vars, histVars, GetSnowflakeId, Lock, StampSame, Sleep, Wake,
         StampNew, Tick, SetBack, Restart

LEMMA StepIncreases ==
  ASSUME IInv, NEW g \in Goroutine, Return(g)
  PROVE  \E m \in made' : /\ made' = made \union {m}
                          /\ m \notin made
                          /\ m.era = era /\ m.stamp = curTimeStamp
                          /\ \A old \in made : Window(old) = Window(m) => old.id < m.id
<1> DEFINE new == [era |-> era, stamp |-> curTimeStamp,
                   id |-> SnowflakeId(curTimeStamp, sn + 1)]
<1>1. pc[g] = "stamped" /\ made' = made \union {new}
  BY DEF Return, MakeId
<1>2. new \notin made /\ \A old \in made : Window(old) = Window(new) => old.id < new.id
  BY <1>1, ReturnedIsGreatest
<1>3. new.era = era /\ new.stamp = curTimeStamp
  OBVIOUS
<1> HIDE DEF new
<1> QED
  BY <1>1, <1>2, <1>3

\* Ids increase in the order of the calls, over all goroutines and restarts,
\* from one start of the timestamp to the next and from one setting back of the
\* clock to the next; whenever and however often either happens.
THEOREM IdsAlwaysIncrease == Spec => IdsIncrease
<1>1. IInv /\ [Next]_vars => [IdIsGreatest]_vars
  BY StepMakes, StepIncreases DEF IdIsGreatest
<1> QED
  BY <1>1, SnowInv, PTL DEF Spec, IdsIncrease

\* In every window of the timestamp, and whatever becomes of the clock between
\* them, getSnowflakeId implements IdSource: each call that returns hands out a
\* number that no call returned before in the window it is made in.
THEOREM SnowflakeIsIdSource == Spec => SourceSpec
<1>1. Init => Source!Init
  BY DEF Init, Source!Init, issued
<1>2. IInv /\ [Next]_vars => [Source!Issue]_<<issued, calls>>
  <2> SUFFICES ASSUME IInv, [Next]_vars
               PROVE  Source!Issue \/ UNCHANGED <<issued, calls>>
    OBVIOUS
  <2>1. ASSUME NEW g \in Goroutine, Return(g) PROVE Source!Issue
    <3>1. calls' = calls + 1 /\ pc[g] = "stamped"
      BY <2>1 DEF Return, MakeId
    <3>2. PICK m \in made' : /\ made' = made \union {m}
                             /\ \A old \in made : Window(old) = Window(m) => old.id < m.id
      BY <2>1, StepIncreases
    <3>3. \A old \in made : old.id \in Nat
      BY DEF IInv, TypeOK
    <3>4. <<Window(m), m.id>> \notin issued
      BY <3>2, <3>3 DEF issued
    <3>5. issued' = issued \union {<<Window(m), m.id>>}
      BY <3>2 DEF issued, Window
    <3> QED
      BY <3>1, <3>4, <3>5 DEF Source!Issue
  <2> QED
    BY <2>1, StepMakes DEF issued, Window
<1> QED
  BY <1>1, <1>2, SnowInv, PTL DEF Spec, SourceSpec, Source!Spec
=============================================================================
