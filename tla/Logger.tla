-------------------------------- MODULE Logger --------------------------------
(***************************************************************************)
(* The logger as the plugin runs it: SetLogger configures the outputs, and  *)
(* the goroutines that log take each message through them one after the     *)
(* other.  The network output (logger/conn.go) is modelled step by step,    *)
(* because its fields innerWriter, Reconnect and illNetFlag are read and    *)
(* written without a lock.  The file output is module FileLogger; here it   *)
(* is one step, like the console.                                           *)
(***************************************************************************)
EXTENDS Integers, Sequences, FiniteSets

CONSTANTS
  Writer,       \* the goroutines that log
  Configs,      \* configurations: see Config
  Levels,       \* the levels of the messages that are logged
  MaxMessages,  \* bound: how many messages
  MaxDrops      \* bound: how often the log server drops its connections

ASSUME LevelsAssumption == Levels \subseteq 0 .. 7
ASSUME BoundsAssumption == MaxMessages \in Nat \ {0} /\ MaxDrops \in Nat

Nr == 1 .. MaxMessages

LevelMap == [EMER |-> 0, ALRT |-> 1, CRIT |-> 2, EROR |-> 3,
             WARN |-> 4, INFO |-> 5, DEBG |-> 6, TRAC |-> 7]
Adapters == <<"console", "file", "conn">>
Adapter == {"console", "file", "conn"}

\* logConfig: the level an adapter is configured with, or "absent"; whether
\* the file's permit is there and can be parsed; the options of conn.
Config == [level : [Adapter -> STRING], permit : BOOLEAN, Reconnect : BOOLEAN,
           ReconnectOnMsg : BOOLEAN]

ASSUME ConfigsAssumption == Configs \subseteq Config

VARIABLES
  config,      \* what SetLogger was called with
  step,        \* the adapter main configures next; 4 when it is done
  outputs,     \* the outputs, with the LogLevel of each
  pc, nr,      \* where each goroutine is, and its message
  out,         \* the output that message is at
  level,       \* the levels of the messages
  innerWriter, Reconnect, illNetFlag,  \* fields of connLogger
  closing,     \* the connection the deferred Close of a LogWrite has captured
  conns,       \* the connections; each is made for a message and has its nr
  up,          \* a log server can be reached
  messages, drops

\* History variables.
VARIABLES
  served,      \* how often each message was written to console and file
  delivered,   \* messages the log server has got
  quiet,       \* nothing has disturbed the last message so far
  missed       \* undisturbed messages in a row that were not delivered

connVars == <<innerWriter, Reconnect, illNetFlag, closing, conns>>
netVars == <<up, drops>>
callVars == <<nr, level, messages>>
histVars == <<served, delivered, quiet, missed>>
vars == <<config, step, outputs, pc, out, callVars, connVars, netVars, histVars>>

NoConn == 0
ConnSteps == {"reconnect", "clear", "need", "connect", "close", "unset", "dial",
              "flag", "defer", "test", "println", "mark", "return"}

TypeOK ==
  /\ config \in Configs
  /\ step \in 1 .. 4
  /\ outputs \in Seq([name : Adapter, LogLevel : 0 .. 7])
  /\ pc \in [Writer -> {"idle", "output"} \union ConnSteps]
  /\ nr \in [Writer -> Nr]
  /\ out \in [Writer -> 1 .. 4]
  /\ level \in [Nr -> 0 .. 7]
  /\ innerWriter \in Nr \union {NoConn}
  /\ Reconnect \in BOOLEAN
  /\ illNetFlag \in BOOLEAN
  /\ closing \in [Writer -> Nr \union {NoConn}]
  /\ conns \in [Nr -> {"none", "open", "dead", "broken", "closed"}]
  /\ up \in BOOLEAN
  /\ messages \in 0 .. MaxMessages
  /\ drops \in 0 .. MaxDrops
  /\ served \in [Nr -> [{"console", "file"} -> Nat]]
  /\ delivered \subseteq Nr
  /\ quiet \in BOOLEAN
  /\ missed \in Nat

\* The init functions of the package have run: NewLogger has made the console
\* the only output, with the level of its init function.
Init ==
  /\ config \in Configs
  /\ step = 1
  /\ outputs = <<[name |-> "console", LogLevel |-> LevelMap.DEBG]>>
  /\ pc = [w \in Writer |-> "idle"]
  /\ nr = [w \in Writer |-> 1]
  /\ out = [w \in Writer |-> 1]
  /\ level = [n \in Nr |-> 0]
  /\ innerWriter = NoConn
  /\ Reconnect = FALSE
  /\ illNetFlag = FALSE
  /\ closing = [w \in Writer |-> NoConn]
  /\ conns = [n \in Nr |-> "none"]
  /\ up \in BOOLEAN
  /\ messages = 0
  /\ drops = 0
  /\ served = [n \in Nr |-> [a \in {"console", "file"} |-> 0]]
  /\ delivered = {}
  /\ quiet = FALSE
  /\ missed = 0

-----------------------------------------------------------------------------
(* SetLogger.                                                              *)

KnownLevel(name) == name \in DOMAIN LevelMap

\* Bug (never part of Next, like those below): an unknown name has no level.
LevelOfNone(name) == IF KnownLevel(name) THEN LevelMap[name] ELSE -1

\* SetLogger hands an adapter the JSON of the parsed configuration, in which
\* LogLevel is 0, and Init overwrites it only if it knows the level's name.
LevelOf(name) == IF KnownLevel(name) THEN LevelMap[name] ELSE LevelMap.EMER

\* Bug: an adapter that is there is appended again.
SetAdapterTwice(name) ==
  outputs' = Append(outputs,
                    [name |-> name, LogLevel |-> LevelOf(config.level[name])])

\* LocalLogger.SetLogger: an adapter that is an output already is replaced in
\* its place, and another one appended, unless its Init fails: the file's does
\* without a valid permit.  The JSON it compares is never that of NewLogger.
SetAdapter(name) ==
  LET new == [name |-> name, LogLevel |-> LevelOf(config.level[name])]
      at == {i \in DOMAIN outputs : outputs[i].name = name}
  IN  outputs' = IF name = "file" /\ ~config.permit THEN outputs
                 ELSE IF at = {} THEN Append(outputs, new)
                 ELSE [i \in DOMAIN outputs |-> IF i \in at THEN new ELSE outputs[i]]

\* main configures the adapters that its configuration names, in this order.
SetLogger ==
  /\ step <= Len(Adapters)
  /\ step' = step + 1
  /\ LET name == Adapters[step]
     IN  /\ IF config.level[name] = "absent" THEN UNCHANGED outputs
            ELSE SetAdapter(name)
         /\ Reconnect' = IF name = "conn" THEN config.Reconnect ELSE Reconnect
  /\ UNCHANGED <<config, pc, out, callVars, innerWriter, illNetFlag, closing,
                 conns, netVars, histVars>>

-----------------------------------------------------------------------------
(* writeMsg and writeToLoggers.                                            *)

Goto(w, label) == pc' = [pc EXCEPT ![w] = label]

Others(w) == {v \in Writer \ {w} : pc[v] # "idle"}

ConnAdmits(n) ==
  \E i \in DOMAIN outputs : outputs[i].name = "conn" /\ level[n] <= outputs[i].LogLevel

\* The history of a message that ends.
Ended(n) ==
  missed' = IF quiet /\ ConnAdmits(n) THEN IF n \in delivered THEN 0 ELSE missed + 1
            ELSE IF quiet THEN missed ELSE 0

\* A goroutine logs a message; the server is started after SetLogger.
Begin(w) ==
  /\ step > Len(Adapters)
  /\ pc[w] = "idle"
  /\ messages < MaxMessages
  /\ messages' = messages + 1
  /\ nr' = [nr EXCEPT ![w] = messages + 1]
  /\ \E l \in Levels : level' = [level EXCEPT ![messages + 1] = l]
  /\ out' = [out EXCEPT ![w] = 1]
  /\ Goto(w, "output")
  /\ quiet' = (up /\ Others(w) = {})
  /\ missed' = IF Others(w) = {} THEN missed ELSE 0
  /\ UNCHANGED <<config, step, outputs, connVars, netVars, served, delivered>>

\* Console and file, which print the text of a message they admit.
WriteText(w) ==
  /\ pc[w] = "output"
  /\ out[w] <= Len(outputs)
  /\ LET o == outputs[out[w]]
     IN  /\ o.name # "conn"
         /\ served' = IF level[nr[w]] <= o.LogLevel
                      THEN [served EXCEPT ![nr[w]][o.name] = @ + 1] ELSE served
  /\ out' = [out EXCEPT ![w] = @ + 1]
  /\ UNCHANGED <<config, step, outputs, pc, callVars, connVars, netVars,
                 delivered, quiet, missed>>

\* The network output's LogWrite begins, or does not admit the message.
Send(w) ==
  /\ pc[w] = "output"
  /\ out[w] <= Len(outputs)
  /\ outputs[out[w]].name = "conn"
  /\ IF level[nr[w]] <= outputs[out[w]].LogLevel
     THEN Goto(w, "reconnect") /\ UNCHANGED out
     ELSE out' = [out EXCEPT ![w] = @ + 1] /\ UNCHANGED pc
  /\ UNCHANGED <<config, step, outputs, callVars, connVars, netVars, histVars>>

\* All outputs have had their turn.
End(w) ==
  /\ pc[w] = "output"
  /\ out[w] > Len(outputs)
  /\ Goto(w, "idle")
  /\ Ended(nr[w])
  /\ UNCHANGED <<config, step, outputs, out, callVars, connVars, netVars,
                 served, delivered, quiet>>

-----------------------------------------------------------------------------
(* LogWrite of the network output.                                         *)

\* Only the fields of connLogger are in play in the steps that follow.
OnlyConn == UNCHANGED <<config, step, outputs, out, callVars, netVars, histVars>>

\* LogWrite returns, with an error that is printed or without.
LeaveConn(w) ==
  /\ Goto(w, "output")
  /\ out' = [out EXCEPT ![w] = @ + 1]

\* The goroutine panics at a nil innerWriter: the deferred calls are made, and
\* the request that was logging is given up.
Panic(w) ==
  /\ Goto(w, "idle")
  /\ conns' = IF closing[w] = NoConn THEN conns
              ELSE [conns EXCEPT ![closing[w]] = "closed"]
  /\ closing' = [closing EXCEPT ![w] = NoConn]
  /\ Ended(nr[w])
  /\ UNCHANGED <<config, step, outputs, out, callVars, netVars, innerWriter,
                 Reconnect, illNetFlag, served, delivered, quiet>>

\* needToConnectOnMsg.
ReadReconnect(w) ==
  /\ pc[w] = "reconnect"
  /\ Goto(w, IF Reconnect THEN "clear" ELSE "need")
  /\ OnlyConn /\ UNCHANGED connVars

ClearReconnect(w) ==
  /\ pc[w] = "clear"
  /\ Reconnect' = FALSE
  /\ Goto(w, "connect")
  /\ OnlyConn /\ UNCHANGED <<innerWriter, illNetFlag, closing, conns>>

NeedToConnect(w) ==
  /\ pc[w] = "need"
  /\ Goto(w, IF innerWriter = NoConn \/ illNetFlag \/ config.ReconnectOnMsg
             THEN "connect" ELSE "defer")
  /\ OnlyConn /\ UNCHANGED connVars

\* connect.
HasWriter(w) ==
  /\ pc[w] = "connect"
  /\ Goto(w, IF innerWriter # NoConn THEN "close" ELSE "dial")
  /\ OnlyConn /\ UNCHANGED connVars

CloseOld(w) ==
  /\ pc[w] = "close"
  /\ innerWriter # NoConn
  /\ conns' = [conns EXCEPT ![innerWriter] = "closed"]
  /\ Goto(w, "unset")
  /\ OnlyConn /\ UNCHANGED <<innerWriter, Reconnect, illNetFlag, closing>>

\* Another goroutine has set innerWriter to nil since it was tested.
CloseNil(w) == pc[w] = "close" /\ innerWriter = NoConn /\ Panic(w)

Unset(w) ==
  /\ pc[w] = "unset"
  /\ innerWriter' = NoConn
  /\ Goto(w, "dial")
  /\ OnlyConn /\ UNCHANGED <<Reconnect, illNetFlag, closing, conns>>

Dial(w) ==
  /\ pc[w] = "dial"
  /\ up
  /\ conns' = [conns EXCEPT ![nr[w]] = "open"]
  /\ innerWriter' = nr[w]
  /\ Goto(w, "flag")
  /\ OnlyConn /\ UNCHANGED <<Reconnect, illNetFlag, closing>>

\* No address answers: LogWrite returns the error.
DialFails(w) ==
  /\ pc[w] = "dial"
  /\ ~up
  /\ LeaveConn(w)
  /\ UNCHANGED <<config, step, outputs, callVars, connVars, netVars, histVars>>

ClearFlag(w) ==
  /\ pc[w] = "flag"
  /\ illNetFlag' = FALSE
  /\ Goto(w, "defer")
  /\ OnlyConn /\ UNCHANGED <<innerWriter, Reconnect, closing, conns>>

\* With ReconnectOnMsg the Close of the connection is deferred: the one that
\* innerWriter holds now.
Defer(w) ==
  /\ pc[w] = "defer"
  /\ config.ReconnectOnMsg => innerWriter # NoConn
  /\ closing' = IF config.ReconnectOnMsg
                THEN [closing EXCEPT ![w] = innerWriter] ELSE closing
  /\ Goto(w, "test")
  /\ OnlyConn /\ UNCHANGED <<innerWriter, Reconnect, illNetFlag, conns>>

DeferNil(w) ==
  pc[w] = "defer" /\ config.ReconnectOnMsg /\ innerWriter = NoConn /\ Panic(w)

TestFlag(w) ==
  /\ pc[w] = "test"
  /\ Goto(w, IF illNetFlag THEN "return" ELSE "println")
  /\ OnlyConn /\ UNCHANGED connVars

\* println, under a lock that only println takes.
Println(w) ==
  /\ pc[w] = "println"
  /\ innerWriter # NoConn
  /\ Goto(w, IF conns[innerWriter] \in {"open", "dead"} THEN "return" ELSE "mark")
  /\ delivered' = IF conns[innerWriter] = "open"
                  THEN delivered \union {nr[w]} ELSE delivered
  /\ quiet' = (quiet /\ conns[innerWriter] # "dead")
  /\ UNCHANGED <<config, step, outputs, out, callVars, connVars, netVars,
                 served, missed>>

PrintlnNil(w) == pc[w] = "println" /\ innerWriter = NoConn /\ Panic(w)

\* Bug: the error is returned and forgotten.
MarkForgotten(w) ==
  /\ pc[w] = "mark"
  /\ Goto(w, "return")
  /\ OnlyConn /\ UNCHANGED connVars

Mark(w) ==
  /\ pc[w] = "mark"
  /\ illNetFlag' = TRUE
  /\ Goto(w, "return")
  /\ OnlyConn /\ UNCHANGED <<innerWriter, Reconnect, closing, conns>>

Return(w) ==
  /\ pc[w] = "return"
  /\ conns' = IF closing[w] = NoConn THEN conns
              ELSE [conns EXCEPT ![closing[w]] = "closed"]
  /\ closing' = [closing EXCEPT ![w] = NoConn]
  /\ LeaveConn(w)
  /\ UNCHANGED <<config, step, outputs, callVars, innerWriter, Reconnect,
                 illNetFlag, netVars, histVars>>

needToConnectOnMsg(w) == ReadReconnect(w) \/ ClearReconnect(w) \/ NeedToConnect(w)

connect(w) ==
  HasWriter(w) \/ CloseOld(w) \/ CloseNil(w) \/ Unset(w) \/ Dial(w) \/ DialFails(w)

ConnLogWrite(w) ==
  \/ needToConnectOnMsg(w)
  \/ connect(w)
  \/ ClearFlag(w)
  \/ Defer(w)
  \/ DeferNil(w)
  \/ TestFlag(w)
  \/ Println(w)
  \/ PrintlnNil(w)
  \/ Mark(w)
  \/ Return(w)

-----------------------------------------------------------------------------
(* The network.                                                            *)

\* Something has happened to the network: the message is not undisturbed.
Disturbed == quiet' = FALSE /\ missed' = 0

\* The log servers drop all connections, and may be out of reach.  What is
\* written then is lost without an error until the kernel has noticed.
PeerLost ==
  /\ drops < MaxDrops
  /\ drops' = drops + 1
  /\ up' \in BOOLEAN
  /\ conns' = [n \in Nr |-> IF conns[n] = "open" THEN "dead" ELSE conns[n]]
  /\ Disturbed
  /\ UNCHANGED <<config, step, outputs, pc, out, callVars, innerWriter,
                 Reconnect, illNetFlag, closing, served, delivered>>

Noticed ==
  /\ \E n \in Nr : conns[n] = "dead" /\ conns' = [conns EXCEPT ![n] = "broken"]
  /\ Disturbed
  /\ UNCHANGED <<config, step, outputs, pc, out, callVars, innerWriter,
                 Reconnect, illNetFlag, closing, netVars, served, delivered>>

PeerBack ==
  /\ ~up
  /\ up' = TRUE
  /\ Disturbed
  /\ UNCHANGED <<config, step, outputs, pc, out, callVars, connVars, drops,
                 served, delivered>>

LogWrite(w) == WriteText(w) \/ Send(w) \/ End(w) \/ ConnLogWrite(w)

Next ==
  \/ SetLogger
  \/ \E w \in Writer : Begin(w) \/ LogWrite(w)
  \/ PeerLost
  \/ Noticed
  \/ PeerBack

Spec == Init /\ [][Next]_vars

-----------------------------------------------------------------------------
(* Properties.                                                             *)

\* Whether an output of the machine itself has to write a message: if it is
\* configured, could be opened, and the level it is configured with, which is
\* the least important one of the table in logger/README.md that passes,
\* admits it.
Wanted(a, n) ==
  /\ config.level[a] # "absent"
  /\ level[n] <= LevelMap[config.level[a]]
  /\ a = "file" => config.permit

\* The configurations for which the code does what logger/README.md says.  Of two
\* it says otherwise: an adapter that is not configured is not written to (43),
\* but NewLogger has set a console before (log.go:119); and "Warn" is a level of
\* its example (74), but LevelMap does not have it, and the level stays EMER.
Documented(a) ==
  KnownLevel(config.level[a]) \/ (config.level[a] = "absent" /\ a = "file")

\* However the goroutines that log overtake each other, and in whatever state
\* SetLogger found the outputs that NewLogger made: the console and the file
\* write a message that they should once, and no other, until its goroutine is
\* done with it.
LocalOutputsServed ==
  \A n \in 1 .. messages : (\A w \in Writer : nr[w] = n => pc[w] = "idle") =>
    \A a \in {"console", "file"} :
      Documented(a) => served[n][a] = IF Wanted(a, n) THEN 1 ELSE 0

\* Whatever several goroutines have done to the fields of the network output,
\* one that logs alone, while a log server can be reached and the network does
\* not change, misses at most one message before it has reconnected.  (Not so
\* while a connection is dead and the kernel has not noticed it: such messages
\* are lost without an error, and count as disturbed.)
SecondTryDelivers == missed <= 1
=============================================================================
