------------------------------ MODULE Snowflake ------------------------------
(***************************************************************************)
(* getSnowflakeId of dbdrive/db_models.go, which gives every row of both   *)
(* tables its id.  The goroutines of all requests call it; mu serialises   *)
(* them, the clock goes on while they run, past the end of the 41 bits the *)
(* ids have room for, and it may be set back.  A process that is started   *)
(* again begins with zeroed package variables.                             *)
(***************************************************************************)
EXTENDS Integers

CONSTANTS
  Goroutine,  \* the goroutines that insert rows
  NoGoroutine,\* nobody: mu is not held
  SnMax,      \* greatest sequence number of the comments: 4095
  TSMod,      \* timestamps are taken modulo this: 2^41
  IdShift,    \* 2^22, by which the timestamp is shifted to the left
  StartTime,  \* the clock when the plugin starts for the first time
  MaxTime,    \* bound: the clock stops here unless a sleeper needs it
  MaxCalls,   \* bound: how many ids may be asked for
  MaxSetBacks \* bound: how often the clock may be set back

ASSUME NoGoroutineAssumption == NoGoroutine \notin Goroutine
ASSUME SnMaxAssumption == SnMax \in Nat
ASSUME TSModAssumption == TSMod \in Nat \ {0}
ASSUME StartTimeAssumption == StartTime \in Nat \ {0}
ASSUME IdShiftAssumption == IdShift \in Nat /\ SnMax + 1 < IdShift

VARIABLES
  now,            \* time.Now().UnixNano() / 1000: the clock, in microseconds
  sn,             \* package variable
  lastTimeStamp,  \* package variable
  mu,             \* the goroutine that holds the mutex
  pc,             \* where each goroutine is in getSnowflakeId
  curTimeStamp,   \* local variable of the goroutine that holds mu
  calls,          \* how many calls returned an id
  setBacks        \* how often the clock was set back

\* History variables: no action's guard reads them.
VARIABLES
  era,            \* setBacks when curTimeStamp was read
  made            \* the ids returned so far, by this process or an earlier one,
                  \* with the time each was made of and the era of that time

histVars == <<era, made>>
vars == <<now, sn, lastTimeStamp, mu, pc, curTimeStamp, calls, setBacks, histVars>>

TypeOK ==
  /\ now \in Nat
  /\ sn \in Nat
  /\ lastTimeStamp \in Nat
  /\ mu \in Goroutine \union {NoGoroutine}
  /\ pc \in [Goroutine -> {"idle", "locked", "sleeping", "slept", "stamped"}]
  /\ curTimeStamp \in Nat
  /\ calls \in Nat
  /\ setBacks \in Nat
  /\ era \in Nat
  /\ made \in SUBSET [era : Nat, stamp : Nat, id : Nat]

Init ==
  /\ now = StartTime
  /\ sn = 0
  /\ lastTimeStamp = 0
  /\ mu = NoGoroutine
  /\ pc = [g \in Goroutine |-> "idle"]
  /\ curTimeStamp = 0
  /\ calls = 0
  /\ setBacks = 0
  /\ era = 0
  /\ made = {}

Goto(g, label) == pc' = [pc EXCEPT ![g] = label]

\* rightBinValue | machineID | sn: machineID is never set, and the shifted
\* timestamp has zeroes where sn has its bits, so that | adds them up.
SnowflakeId(ts, n) == (ts % TSMod) * IdShift + n

\* time.Now().UnixNano() / 1000
ReadClock ==
  /\ curTimeStamp' = now
  /\ era' = setBacks

\* sn++, and the id is put together of the timestamp and sn.
MakeId ==
  /\ sn' = sn + 1
  /\ made' = made \union
       {[era |-> era, stamp |-> curTimeStamp, id |-> SnowflakeId(curTimeStamp, sn + 1)]}
  /\ calls' = calls + 1

-----------------------------------------------------------------------------
Lock(g) ==
  /\ pc[g] = "idle"
  /\ mu = NoGoroutine
  /\ calls < MaxCalls
  /\ mu' = g
  /\ Goto(g, "locked")
  /\ UNCHANGED <<now, sn, lastTimeStamp, curTimeStamp, calls, setBacks, histVars>>

\* The same microsecond as the last id, and sequence numbers are left.
StampSame(g) ==
  /\ pc[g] = "locked"
  /\ now = lastTimeStamp
  /\ sn <= SnMax
  /\ ReadClock
  /\ Goto(g, "stamped")
  /\ UNCHANGED <<now, sn, lastTimeStamp, mu, calls, setBacks, made>>

\* The same microsecond, and the numbers are used up: time.Sleep, holding mu.
Sleep(g) ==
  /\ pc[g] = "locked"
  /\ now = lastTimeStamp
  /\ sn > SnMax
  /\ ReadClock
  /\ Goto(g, "sleeping")
  /\ UNCHANGED <<now, sn, lastTimeStamp, mu, calls, setBacks, made>>

\* Bug (never part of Next, like those below): the clock is not read again
\* after the sleep.
WakeUnstamped(g) ==
  /\ pc[g] = "slept"
  /\ sn' = 0
  /\ Goto(g, "stamped")
  /\ UNCHANGED <<now, lastTimeStamp, mu, curTimeStamp, calls, setBacks, histVars>>

\* After the sleep the clock is read again, once.
Wake(g) ==
  /\ pc[g] = "slept"
  /\ ReadClock
  /\ sn' = 0
  /\ Goto(g, "stamped")
  /\ UNCHANGED <<now, lastTimeStamp, mu, calls, setBacks, made>>

StampNew(g) ==
  /\ pc[g] = "locked"
  /\ now # lastTimeStamp
  /\ ReadClock
  /\ sn' = 0
  /\ Goto(g, "stamped")
  /\ UNCHANGED <<now, lastTimeStamp, mu, calls, setBacks, made>>

\* Bug: mu is not unlocked.
ReturnLocked(g) ==
  /\ pc[g] = "stamped"
  /\ MakeId
  /\ lastTimeStamp' = curTimeStamp
  /\ Goto(g, "idle")
  /\ UNCHANGED <<now, mu, curTimeStamp, setBacks, era>>

\* Bug: the time of the id is not remembered.
ReturnForgets(g) ==
  /\ pc[g] = "stamped"
  /\ MakeId
  /\ mu' = NoGoroutine
  /\ Goto(g, "idle")
  /\ UNCHANGED <<now, lastTimeStamp, curTimeStamp, setBacks, era>>

\* The id is made and returned, and mu is unlocked.
Return(g) ==
  /\ pc[g] = "stamped"
  /\ MakeId
  /\ lastTimeStamp' = curTimeStamp
  /\ mu' = NoGoroutine
  /\ Goto(g, "idle")
  /\ UNCHANGED <<now, curTimeStamp, setBacks, era>>

\* A microsecond passes, which is how long a sleeper sleeps at least.
Tick ==
  /\ now < MaxTime \/ \E g \in Goroutine : pc[g] = "sleeping"
  /\ now' = now + 1
  /\ pc' = [g \in Goroutine |-> IF pc[g] = "sleeping" THEN "slept" ELSE pc[g]]
  /\ UNCHANGED <<sn, lastTimeStamp, mu, curTimeStamp, calls, setBacks, histVars>>

\* Somebody sets the clock of the machine back.
SetBack ==
  /\ setBacks < MaxSetBacks
  /\ setBacks' = setBacks + 1
  /\ \E t \in 1 .. (now - 1) : now' = t
  /\ UNCHANGED <<sn, lastTimeStamp, mu, pc, curTimeStamp, calls, histVars>>

\* The process dies and is started again, which takes a microsecond at least.
Restart ==
  /\ now < MaxTime
  /\ now' = now + 1
  /\ sn' = 0
  /\ lastTimeStamp' = 0
  /\ mu' = NoGoroutine
  /\ pc' = [g \in Goroutine |-> "idle"]
  /\ UNCHANGED <<curTimeStamp, calls, setBacks, histVars>>

GetSnowflakeId(g) ==
  Lock(g) \/ StampSame(g) \/ Sleep(g) \/ Wake(g) \/ StampNew(g) \/ Return(g)

Next ==
  \/ \E g \in Goroutine : GetSnowflakeId(g)
  \/ Tick
  \/ SetBack
  \/ Restart

Spec == Init /\ [][Next]_vars

\* A goroutine that holds mu keeps running, and time passes.
Fairness ==
  /\ \A g \in Goroutine : WF_vars(GetSnowflakeId(g))
  /\ WF_vars(Tick)

FairSpec == Spec /\ Fairness

-----------------------------------------------------------------------------
\* The window of time an id is made in: in one of them neither the 41 bits of
\* the timestamp start again from zero nor is the clock set back.
Window(m) == <<m.era, m.stamp \div TSMod>>

\* Every id is greater than all that were returned before it, by any
\* goroutine and by earlier processes, since the timestamp last started from
\* zero and the clock was last set back: until then no row is refused for its
\* id, and the order of the rows by id is the order of the calls.  It is not
\* true beyond: the timestamp is in microseconds, whose low 41 bits last for 25
\* days, and a clock set back makes smaller ids.
IdIsGreatest ==
  calls' # calls =>
    \E m \in made' : /\ made' = made \union {m}
                     /\ m \notin made
                     /\ \A old \in made : Window(old) = Window(m) => old.id < m.id

IdsIncrease == [][IdIsGreatest]_vars

\* In each window getSnowflakeId is a source of unique numbers: every call that
\* returns hands out one more, and nothing else does.  In different windows it
\* may hand out the same number.
issued == {<<Window(m), m.id>> : m \in made}
Source == INSTANCE IdSource WITH issued <- issued, calls <- calls
SourceSpec == Source!Spec

\* mu is always released, also by a goroutine that sleeps while it holds mu.
MutexReleased == mu # NoGoroutine ~> mu = NoGoroutine
=============================================================================
