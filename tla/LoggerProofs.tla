----------------------------- MODULE LoggerProofs -----------------------------
(***************************************************************************)
(* The logger for any number of goroutines and messages, any configuration *)
(* and any number of lost connections: the outputs main configures, what   *)
(* console and file are given, and what the network output may miss.       *)
(***************************************************************************)
EXTENDS Logger, TLAPS

-----------------------------------------------------------------------------
(* The outputs.                                                            *)

ConsoleOutput ==
  [name |-> "console",
   LogLevel |-> IF step > 1 /\ config.level["console"] # "absent"
                THEN LevelOf(config.level["console"]) ELSE LevelMap.DEBG]

FileOutput == [name |-> "file", LogLevel |-> LevelOf(config.level["file"])]

HasFile == step > 2 /\ config.level["file"] # "absent" /\ config.permit
HasConn == step > 3 /\ config.level["conn"] # "absent"

\* What SetLogger has made of the outputs so far: the console first, the file
\* if it is there, and the network output last.  Nobody logs before it is done.
Configured ==
  /\ Len(outputs) = IF HasFile THEN IF HasConn THEN 3 ELSE 2
                    ELSE IF HasConn THEN 2 ELSE 1
  /\ outputs[1] = ConsoleOutput
  /\ HasFile => outputs[2] = FileOutput
  /\ HasConn => outputs[Len(outputs)].name = "conn"
  /\ step <= Len(Adapters) => messages = 0 /\ \A w \in Writer : pc[w] = "idle"

\* A goroutine is at an output or past the last one, and in LogWrite of the
\* network output only with a message that output admits.
InTurn ==
  \A w \in Writer :
    /\ pc[w] # "idle" => out[w] <= Len(outputs) + 1 /\ nr[w] <= messages
    /\ pc[w] \in ConnSteps =>
         /\ out[w] = Len(outputs) /\ outputs[out[w]].name = "conn"
         /\ level[nr[w]] <= outputs[out[w]].LogLevel

TypeInv == TypeOK /\ Configured /\ InTurn

\* Levels are numbers from EMER to TRAC, whatever the name.
LEMMA LevelFacts ==
  /\ \A name \in DOMAIN LevelMap : LevelMap[name] \in 0 .. 7
  /\ \A name : LevelOf(name) \in 0 .. 7
  /\ LevelMap.DEBG = 6 /\ LevelMap.EMER = 0
<1>1. DOMAIN LevelMap = {"EMER", "ALRT", "CRIT", "EROR", "WARN", "INFO", "DEBG", "TRAC"}
  BY DEF LevelMap
<1>2. /\ LevelMap["EMER"] = 0 /\ LevelMap["ALRT"] = 1 /\ LevelMap["CRIT"] = 2
      /\ LevelMap["EROR"] = 3 /\ LevelMap["WARN"] = 4 /\ LevelMap["INFO"] = 5
      /\ LevelMap["DEBG"] = 6 /\ LevelMap["TRAC"] = 7
  BY DEF LevelMap
<1>3. LevelMap.DEBG = 6 /\ LevelMap.EMER = 0
  BY <1>2
<1>4. \A name \in DOMAIN LevelMap : LevelMap[name] \in 0 .. 7
  BY <1>1, <1>2
<1>5. \A name : LevelOf(name) \in 0 .. 7
  BY <1>3, <1>4 DEF LevelOf, KnownLevel
<1> QED
  BY <1>3, <1>4, <1>5

\* Where an output is.
LEMMA OutputFacts ==
  ASSUME TypeInv
  PROVE  /\ Len(outputs) \in 1 .. 3 /\ DOMAIN outputs = 1 .. Len(outputs)
         /\ \A i \in DOMAIN outputs : /\ outputs[i].name \in Adapter
                                      /\ outputs[i].LogLevel \in 0 .. 7
         /\ \A i \in DOMAIN outputs :
              /\ outputs[i].name = "console" <=> i = 1
              /\ outputs[i].name = "conn" <=> HasConn /\ i = Len(outputs)
              /\ outputs[i].name = "file" <=> HasFile /\ i = 2
<1>1. /\ outputs \in Seq([name : Adapter, LogLevel : 0 .. 7])
      /\ Len(outputs) = IF HasFile THEN IF HasConn THEN 3 ELSE 2
                        ELSE IF HasConn THEN 2 ELSE 1
      /\ outputs[1].name = "console"
      /\ HasFile => outputs[2].name = "file"
      /\ HasConn => outputs[Len(outputs)].name = "conn"
  BY DEF TypeInv, TypeOK, Configured, ConsoleOutput, FileOutput
<1> DEFINE Output == [name : Adapter, LogLevel : 0 .. 7]
<1>2. Len(outputs) \in 1 .. 3 /\ DOMAIN outputs = 1 .. Len(outputs)
  <2>1. Len(outputs) \in 1 .. 3
    BY <1>1
  <2>2. outputs \in Seq(Output)
    BY <1>1
  <2> HIDE DEF Output
  <2> QED
    BY <2>1, <2>2
<1>3. \A i \in DOMAIN outputs : outputs[i].name \in Adapter /\ outputs[i].LogLevel \in 0 .. 7
  <2>1. outputs \in Seq(Output)
    BY <1>1
  <2>2. \A i \in DOMAIN outputs : outputs[i] \in Output
    <3> HIDE DEF Output
    <3> QED
      BY <1>2, <2>1
  <2> QED
    BY <2>2
<1>4. ASSUME NEW i \in DOMAIN outputs
      PROVE  /\ outputs[i].name = "console" <=> i = 1
             /\ outputs[i].name = "conn" <=> HasConn /\ i = Len(outputs)
             /\ outputs[i].name = "file" <=> HasFile /\ i = 2
  <2>1. i \in 1 .. Len(outputs)
    BY <1>2
  <2>2. CASE HasFile /\ HasConn
    BY <1>1, <2>1, <2>2
  <2>3. CASE HasFile /\ ~HasConn
    BY <1>1, <2>1, <2>3
  <2>4. CASE ~HasFile /\ HasConn
    BY <1>1, <2>1, <2>4
  <2>5. CASE ~HasFile /\ ~HasConn
    BY <1>1, <2>1, <2>5
  <2> QED
    BY <2>2, <2>3, <2>4, <2>5
<1> QED
  BY <1>2, <1>3, <1>4

\* Append leaves what is there.
LEMMA AppendFacts ==
  ASSUME NEW S, NEW s \in Seq(S), NEW e \in S
  PROVE  /\ Append(s, e) \in Seq(S) /\ Len(Append(s, e)) = Len(s) + 1
         /\ \A i \in 1 .. Len(s) : Append(s, e)[i] = s[i]
         /\ Append(s, e)[Len(s) + 1] = e
OBVIOUS

\* SetLogger keeps the outputs in this order, and configures one more.
LEMMA SetAdapterFacts ==
  ASSUME TypeInv, SetLogger
  PROVE  /\ outputs' \in Seq([name : Adapter, LogLevel : 0 .. 7])
         /\ Configured'
<1>1. /\ step \in 1 .. 3 /\ step' = step + 1 /\ UNCHANGED <<config, pc, messages>>
      /\ outputs \in Seq([name : Adapter, LogLevel : 0 .. 7])
      /\ IF config.level[Adapters[step]] = "absent" THEN UNCHANGED outputs
         ELSE SetAdapter(Adapters[step])
      /\ messages = 0 /\ \A w \in Writer : pc[w] = "idle"
  BY DEF SetLogger, TypeInv, TypeOK, Configured, Adapters, callVars
<1>2. Adapters[1] = "console" /\ Adapters[2] = "file" /\ Adapters[3] = "conn"
  BY DEF Adapters
<1>3. config.permit \in BOOLEAN
  BY ConfigsAssumption DEF TypeInv, TypeOK, Config
<1>4. messages' = 0 /\ \A w \in Writer : pc'[w] = "idle"
  BY <1>1
<1> DEFINE new(name) == [name |-> name, LogLevel |-> LevelOf(config.level[name])]
<1>5. \A name \in Adapter : new(name) \in [name : Adapter, LogLevel : 0 .. 7]
  BY LevelFacts
<1>6. /\ outputs[1].name = "console" /\ DOMAIN outputs = 1 .. Len(outputs)
      /\ Len(outputs) \in 1 .. 3
      /\ \A i \in DOMAIN outputs : outputs[i].name = "file" <=> HasFile /\ i = 2
      /\ \A i \in DOMAIN outputs : outputs[i].name = "conn" <=> HasConn /\ i = Len(outputs)
  BY OutputFacts
<1>7. CASE step = 1
  <2>1. ~HasFile /\ ~HasConn /\ ~HasFile' /\ ~HasConn' /\ Len(outputs) = 1
    BY <1>1, <1>7 DEF HasFile, HasConn, TypeInv, Configured
  <2>2. CASE config.level["console"] = "absent"
    <3>1. outputs' = outputs
      BY <1>1, <1>2, <1>7, <2>2
    <3>2. ConsoleOutput' = ConsoleOutput
      BY <1>1, <1>7, <2>2 DEF ConsoleOutput
    <3> QED
      BY <1>1, <1>4, <2>1, <3>1, <3>2 DEF Configured, TypeInv
  <2>3. CASE config.level["console"] # "absent"
    <3>1. {i \in DOMAIN outputs : outputs[i].name = "console"} = {1}
      BY <1>6, <2>1
    <3>2. outputs' = [i \in 1 .. 1 |-> new("console")]
      BY <1>1, <1>2, <1>6, <1>7, <2>1, <2>3, <3>1 DEF SetAdapter
    <3>3. ConsoleOutput' = new("console")
      BY <1>1, <1>7, <2>3 DEF ConsoleOutput, LevelOf, KnownLevel
    <3>4. outputs' \in Seq([name : Adapter, LogLevel : 0 .. 7])
      BY <1>5, <3>2 DEF Adapter
    <3>5. Len(outputs') = 1 /\ outputs'[1] = new("console")
      BY <3>2
    <3> QED
      BY <1>4, <2>1, <3>3, <3>4, <3>5 DEF Configured
  <2> QED
    BY <2>2, <2>3
<1>8. CASE step = 2
  <2>1. ~HasFile /\ ~HasConn /\ ~HasConn' /\ Len(outputs) = 1
    BY <1>1, <1>8 DEF HasFile, HasConn, TypeInv, Configured
  <2>2. HasFile' <=> config.level["file"] # "absent" /\ config.permit
    BY <1>1, <1>8 DEF HasFile
  <2>3. ConsoleOutput' = ConsoleOutput /\ outputs[1] = ConsoleOutput
    BY <1>1, <1>8 DEF ConsoleOutput, LevelOf, KnownLevel, TypeInv, Configured
  <2>4. CASE ~HasFile'
    <3>1. outputs' = outputs
      BY <1>1, <1>2, <1>8, <2>2, <2>4 DEF SetAdapter
    <3> QED
      BY <1>1, <1>4, <2>1, <2>3, <2>4, <3>1 DEF Configured
  <2>5. CASE HasFile'
    <3>1. {i \in DOMAIN outputs : outputs[i].name = "file"} = {}
      BY <1>6, <2>1
    <3>2. outputs' = Append(outputs, new("file"))
      BY <1>1, <1>2, <1>8, <2>2, <2>5, <3>1 DEF SetAdapter
    <3>3. FileOutput' = new("file")
      BY <1>1 DEF FileOutput, LevelOf, KnownLevel
    <3>4. /\ outputs' \in Seq([name : Adapter, LogLevel : 0 .. 7])
          /\ Len(outputs') = 2 /\ outputs'[1] = outputs[1] /\ outputs'[2] = new("file")
      <4> DEFINE Output == [name : Adapter, LogLevel : 0 .. 7]
      <4>1. new("file") \in Output /\ outputs \in Seq(Output)
        BY <1>1, <1>5 DEF Adapter
      <4>2. outputs' \in Seq(Output)
        <5> HIDE DEF new, Output
        <5> QED
          BY <3>2, <4>1, AppendFacts
      <4>3. /\ Len(outputs') = 2 /\ outputs'[1] = outputs[1] /\ outputs'[2] = new("file")
        <5> DEFINE s == Append(outputs, new("file"))
        <5>1. Len(outputs) = 1
          BY <2>1
        <5>2. /\ Len(s) = Len(outputs) + 1 /\ s[Len(outputs) + 1] = new("file")
              /\ \A i \in 1 .. Len(outputs) : s[i] = outputs[i]
          <6> HIDE DEF new, Output
          <6> QED
            BY <4>1, AppendFacts
        <5>3. Len(s) = 2 /\ s[1] = outputs[1] /\ s[2] = new("file")
          <6> HIDE DEF new, s
          <6> QED
            BY <5>1, <5>2
        <5> QED
          BY <3>2, <5>3
      <4> QED
        BY <4>2, <4>3
    <3> QED
      BY <1>4, <1>1, <2>1, <2>3, <2>5, <3>3, <3>4 DEF Configured
  <2> QED
    BY <2>4, <2>5
<1>9. CASE step = 3
  <2>1. ~HasConn /\ (HasFile' <=> HasFile)
        /\ Len(outputs) = IF HasFile THEN 2 ELSE 1
    BY <1>1, <1>9 DEF HasFile, HasConn, TypeInv, Configured
  <2>2. HasConn' <=> config.level["conn"] # "absent"
    BY <1>1, <1>9 DEF HasConn
  <2>3. /\ ConsoleOutput' = ConsoleOutput /\ outputs[1] = ConsoleOutput
        /\ FileOutput' = FileOutput /\ (HasFile => outputs[2] = FileOutput)
    BY <1>1, <1>9
       DEF ConsoleOutput, FileOutput, LevelOf, KnownLevel, TypeInv, Configured
  <2>4. CASE ~HasConn'
    <3>1. outputs' = outputs
      BY <1>1, <1>2, <1>9, <2>2, <2>4
    <3> QED
      BY <1>1, <1>4, <2>1, <2>3, <2>4, <3>1 DEF Configured
  <2>5. CASE HasConn'
    <3>1. {i \in DOMAIN outputs : outputs[i].name = "conn"} = {}
      BY <1>6, <2>1
    <3>2. outputs' = Append(outputs, new("conn"))
      BY <1>1, <1>2, <1>9, <2>2, <2>5, <3>1 DEF SetAdapter
    <3>3. /\ outputs' \in Seq([name : Adapter, LogLevel : 0 .. 7])
          /\ Len(outputs') = Len(outputs) + 1
          /\ \A i \in 1 .. Len(outputs) : outputs'[i] = outputs[i]
          /\ outputs'[Len(outputs')] = new("conn")
      BY <1>1, <1>5, <3>2 DEF Adapter
    <3>4. outputs'[1] = outputs[1] /\ (HasFile => outputs'[2] = outputs[2])
      BY <2>1, <3>3
    <3> QED
      BY <1>4, <2>1, <2>3, <2>5, <3>3, <3>4 DEF Configured
  <2> QED
    BY <2>4, <2>5
<1> QED
  BY <1>1, <1>7, <1>8, <1>9

-----------------------------------------------------------------------------
(* LogWrite of the network output.                                         *)

\* The label a step of LogWrite goes to.
Moves(w, labels) == \E label \in labels : pc' = [pc EXCEPT ![w] = label]

\* A step stays in LogWrite, or leaves it for the next output, or panics.
LEMMA ConnControl ==
  ASSUME NEW w \in Writer, ConnLogWrite(w)
  PROVE  /\ pc[w] \in ConnSteps
         /\ UNCHANGED <<config, step, outputs, nr, level, messages, up, drops, served>>
         /\ \/ Moves(w, ConnSteps) /\ out' = out /\ missed' = missed
            \/ /\ pc' = [pc EXCEPT ![w] = "output"] /\ out' = [out EXCEPT ![w] = @ + 1]
               /\ missed' = missed
            \/ pc' = [pc EXCEPT ![w] = "idle"] /\ out' = out /\ Ended(nr[w])
<1> USE DEF Moves, Goto, OnlyConn, ConnSteps, callVars, netVars, histVars
<1>1. CASE needToConnectOnMsg(w)
  <2>1. CASE ReadReconnect(w)
    BY <2>1 DEF ReadReconnect
  <2>2. CASE ClearReconnect(w)
    BY <2>2 DEF ClearReconnect
  <2>3. CASE NeedToConnect(w)
    BY <2>3 DEF NeedToConnect
  <2> QED
    BY <1>1, <2>1, <2>2, <2>3 DEF needToConnectOnMsg
<1>2. CASE connect(w)
  <2>1. CASE HasWriter(w)
    BY <2>1 DEF HasWriter
  <2>2. CASE CloseOld(w)
    BY <2>2 DEF CloseOld
  <2>3. CASE CloseNil(w)
    BY <2>3 DEF CloseNil, Panic
  <2>4. CASE Unset(w)
    BY <2>4 DEF Unset
  <2>5. CASE Dial(w)
    BY <2>5 DEF Dial
  <2>6. CASE DialFails(w)
    BY <2>6 DEF DialFails, LeaveConn
  <2> QED
    BY <1>2, <2>1, <2>2, <2>3, <2>4, <2>5, <2>6 DEF connect
<1>3. CASE ClearFlag(w)
  BY <1>3 DEF ClearFlag
<1>4. CASE Defer(w)
  BY <1>4 DEF Defer
<1>5. CASE DeferNil(w)
  BY <1>5 DEF DeferNil, Panic
<1>6. CASE TestFlag(w)
  BY <1>6 DEF TestFlag
<1>7. CASE Println(w)
  BY <1>7 DEF Println
<1>8. CASE PrintlnNil(w)
  BY <1>8 DEF PrintlnNil, Panic
<1>9. CASE Mark(w)
  BY <1>9 DEF Mark
<1>10. CASE Return(w)
  BY <1>10 DEF Return, LeaveConn
<1> QED
  BY <1>1, <1>2, <1>3, <1>4, <1>5, <1>6, <1>7, <1>8, <1>9, <1>10 DEF ConnLogWrite

\* The fields of connLogger keep their types, and what was delivered stays so.
ConnTypes ==
  /\ innerWriter \in Nr \union {NoConn}
  /\ Reconnect \in BOOLEAN
  /\ illNetFlag \in BOOLEAN
  /\ closing \in [Writer -> Nr \union {NoConn}]
  /\ conns \in [Nr -> {"none", "open", "dead", "broken", "closed"}]
  /\ delivered \subseteq Nr
  /\ quiet \in BOOLEAN

LEMMA ConnTyped ==
  ASSUME TypeOK, NEW w \in Writer, ConnLogWrite(w)
  PROVE  ConnTypes'
<1>1. ConnTypes /\ nr[w] \in Nr
  BY DEF TypeOK, ConnTypes
<1> USE <1>1 DEF ConnTypes, OnlyConn, connVars, histVars
<1>2. ASSUME Panic(w)
      PROVE  ConnTypes'
  BY <1>2 DEF Panic
<1>3. CASE needToConnectOnMsg(w)
  <2>1. CASE ReadReconnect(w)
    BY <2>1 DEF ReadReconnect
  <2>2. CASE ClearReconnect(w)
    BY <2>2 DEF ClearReconnect
  <2>3. CASE NeedToConnect(w)
    BY <2>3 DEF NeedToConnect
  <2> QED
    BY <1>3, <2>1, <2>2, <2>3 DEF needToConnectOnMsg
<1>4. CASE connect(w)
  <2>1. CASE HasWriter(w)
    BY <2>1 DEF HasWriter
  <2>2. CASE CloseOld(w)
    BY <2>2 DEF CloseOld
  <2>3. CASE CloseNil(w)
    BY <1>2, <2>3 DEF CloseNil
  <2>4. CASE Unset(w)
    BY <2>4 DEF Unset
  <2>5. CASE Dial(w)
    BY <2>5 DEF Dial
  <2>6. CASE DialFails(w)
    BY <2>6 DEF DialFails
  <2> QED
    BY <1>4, <2>1, <2>2, <2>3, <2>4, <2>5, <2>6 DEF connect
<1>5. CASE ClearFlag(w)
  BY <1>5 DEF ClearFlag
<1>6. CASE Defer(w)
  BY <1>6 DEF Defer
<1>7. CASE DeferNil(w)
  BY <1>2, <1>7 DEF DeferNil
<1>8. CASE TestFlag(w)
  BY <1>8 DEF TestFlag
<1>9. CASE Println(w)
  BY <1>9 DEF Println
<1>10. CASE PrintlnNil(w)
  BY <1>2, <1>10 DEF PrintlnNil
<1>11. CASE Mark(w)
  BY <1>11 DEF Mark
<1>12. CASE Return(w)
  BY <1>12 DEF Return
<1> QED
  BY <1>3, <1>4, <1>5, <1>6, <1>7, <1>8, <1>9, <1>10, <1>11, <1>12 DEF ConnLogWrite

-----------------------------------------------------------------------------
(* Type correctness.                                                       *)

Labels == {"idle", "output"} \union ConnSteps

\* The outputs stay as SetLogger has left them.
LEMMA ConfiguredStable ==
  ASSUME TypeInv, UNCHANGED <<config, step, outputs>>,
         \/ UNCHANGED <<pc, messages>>
         \/ step > Len(Adapters)
         \/ \E w \in Writer : pc[w] # "idle"
  PROVE  Configured'
<1>1. Configured /\ step \in 1 .. 4 /\ Len(Adapters) = 3
  BY DEF TypeInv, TypeOK, Adapters
<1>2. /\ HasFile' = HasFile /\ HasConn' = HasConn
      /\ ConsoleOutput' = ConsoleOutput /\ FileOutput' = FileOutput
  BY DEF HasFile, HasConn, ConsoleOutput, FileOutput, LevelOf, KnownLevel
<1>3. step' <= Len(Adapters) => messages' = 0 /\ \A w \in Writer : pc'[w] = "idle"
  BY <1>1 DEF Configured
<1>4. outputs' = outputs
  OBVIOUS
<1> QED
  BY <1>1, <1>2, <1>3, <1>4 DEF Configured

LEMMA NextTurn ==
  ASSUME NEW a \in 1 .. 4, NEW n \in 1 .. 3, a <= n
  PROVE  a + 1 \in 1 .. 4 /\ a + 1 <= n + 1
OBVIOUS

\* A goroutine that has a message goes on.
LEMMA TurnOf ==
  ASSUME TypeInv, NEW w \in Writer, pc[w] # "idle",
         UNCHANGED <<outputs, nr, level, messages>>,
         NEW label \in Labels, pc' = [pc EXCEPT ![w] = label],
         \/ out' = out
         \/ out[w] <= Len(outputs) /\ out' = [out EXCEPT ![w] = @ + 1],
         label \in ConnSteps =>
           /\ out' = out /\ out[w] = Len(outputs) /\ outputs[out[w]].name = "conn"
           /\ level[nr[w]] <= outputs[out[w]].LogLevel
  PROVE  InTurn' /\ out' \in [Writer -> 1 .. 4] /\ pc' \in [Writer -> Labels]
<1>1. /\ pc \in [Writer -> Labels] /\ out \in [Writer -> 1 .. 4] /\ InTurn
  BY DEF TypeInv, TypeOK, Labels
<1>2. Len(outputs) \in 1 .. 3
  BY OutputFacts
<1>3. out[w] <= Len(outputs) + 1 /\ nr[w] <= messages /\ out[w] \in 1 .. 4
  BY <1>1 DEF InTurn
<1>4. out'[w] \in 1 .. 4 /\ out'[w] <= Len(outputs) + 1
  <2>1. CASE out' = out
    BY <1>3, <2>1
  <2>2. CASE out[w] <= Len(outputs) /\ out' = [out EXCEPT ![w] = @ + 1]
    <3>1. out'[w] = out[w] + 1
      BY <1>1, <2>2
    <3>2. out[w] <= Len(outputs)
      BY <2>2
    <3> QED
      BY <1>2, <1>3, <3>1, <3>2, NextTurn
  <2> QED
    BY <2>1, <2>2
<1>5. \A v \in Writer \ {w} : out'[v] = out[v] /\ pc'[v] = pc[v]
  BY <1>1
<1>6. pc'[w] = label
  BY <1>1
<1>7. out' \in [Writer -> 1 .. 4]
  BY <1>1, <1>4
<1>8. pc' \in [Writer -> Labels]
  BY <1>1
<1>9. ASSUME NEW v \in Writer
      PROVE  /\ pc'[v] # "idle" => out'[v] <= Len(outputs') + 1 /\ nr'[v] <= messages'
             /\ pc'[v] \in ConnSteps =>
                  /\ out'[v] = Len(outputs') /\ outputs'[out'[v]].name = "conn"
                  /\ level'[nr'[v]] <= outputs'[out'[v]].LogLevel
  <2>1. CASE v = w
    BY <1>3, <1>4, <1>6, <2>1
  <2>2. CASE v # w
    BY <1>1, <1>5, <2>2 DEF InTurn
  <2> QED
    BY <2>1, <2>2
<1> QED
  BY <1>7, <1>8, <1>9 DEF InTurn

LEMMA TypeInit == Init => TypeInv
<1> SUFFICES ASSUME Init PROVE TypeInv
  OBVIOUS
<1>1. 1 \in Nr /\ NoConn \notin Nr /\ MaxMessages \in Nat /\ MaxDrops \in Nat
  BY BoundsAssumption DEF Nr, NoConn
<1> DEFINE o == [name |-> "console", LogLevel |-> LevelMap.DEBG]
<1>2. o \in [name : Adapter, LogLevel : 0 .. 7]
  BY LevelFacts DEF Adapter
<1>3. /\ outputs \in Seq([name : Adapter, LogLevel : 0 .. 7])
      /\ Len(outputs) = 1 /\ outputs[1] = o
  <2>1. outputs = <<o>>
    BY DEF Init
  <2> HIDE DEF o
  <2> QED
    BY <1>2, <2>1
<1>4. TypeOK
  <2>1. /\ pc \in [Writer -> {"idle", "output"} \union ConnSteps]
        /\ nr \in [Writer -> Nr] /\ out \in [Writer -> 1 .. 4]
        /\ closing \in [Writer -> Nr \union {NoConn}]
    BY <1>1 DEF Init
  <2>2. /\ level \in [Nr -> 0 .. 7]
        /\ conns \in [Nr -> {"none", "open", "dead", "broken", "closed"}]
        /\ served \in [Nr -> [{"console", "file"} -> Nat]]
    BY DEF Init
  <2>3. /\ config \in Configs /\ step \in 1 .. 4 /\ messages \in 0 .. MaxMessages
        /\ drops \in 0 .. MaxDrops /\ missed \in Nat /\ delivered \subseteq Nr
        /\ innerWriter \in Nr \union {NoConn}
    BY <1>1 DEF Init
  <2>4. up \in BOOLEAN /\ quiet \in BOOLEAN /\ Reconnect \in BOOLEAN /\ illNetFlag \in BOOLEAN
    BY DEF Init
  <2> QED
    BY <1>3, <2>1, <2>2, <2>3, <2>4 DEF TypeOK
<1>5. Configured
  BY <1>3 DEF Init, Configured, HasFile, HasConn, ConsoleOutput
<1>6. InTurn
  BY DEF Init, InTurn, ConnSteps
<1> QED
  BY <1>4, <1>5, <1>6 DEF TypeInv

\* The state stays well typed when a message begins.
LEMMA TypeBegin ==
  ASSUME TypeInv, NEW w \in Writer, Begin(w)
  PROVE  TypeInv'
<1>1. TypeOK /\ InTurn /\ MaxMessages \in Nat
  BY BoundsAssumption DEF TypeInv
<1>2. /\ step > Len(Adapters) /\ pc[w] = "idle" /\ messages < MaxMessages
      /\ messages' = messages + 1 /\ nr' = [nr EXCEPT ![w] = messages + 1]
      /\ out' = [out EXCEPT ![w] = 1] /\ pc' = [pc EXCEPT ![w] = "output"]
      /\ UNCHANGED <<config, step, outputs, innerWriter, Reconnect, illNetFlag,
                     closing, conns, up, drops, served, delivered>>
      /\ quiet' = (up /\ Others(w) = {})
      /\ missed' = IF Others(w) = {} THEN missed ELSE 0
  BY DEF Begin, Goto, connVars, netVars
<1>3. PICK l \in Levels : level' = [level EXCEPT ![messages + 1] = l]
  BY DEF Begin
<1>4. messages + 1 \in Nr /\ messages \in Nat /\ l \in 0 .. 7
  BY <1>1, <1>2, LevelsAssumption DEF TypeOK, Nr
<1>5. /\ pc \in [Writer -> Labels] /\ out \in [Writer -> 1 .. 4]
      /\ nr \in [Writer -> Nr] /\ level \in [Nr -> 0 .. 7]
  BY <1>1 DEF TypeOK, Labels
<1>6. /\ pc' \in [Writer -> Labels] /\ out' \in [Writer -> 1 .. 4]
      /\ nr' \in [Writer -> Nr] /\ level' \in [Nr -> 0 .. 7]
      /\ messages' \in 0 .. MaxMessages
  BY <1>1, <1>2, <1>3, <1>4, <1>5 DEF Labels
<1>7. quiet' \in BOOLEAN
  BY <1>2, Zenon
<1>8. TypeOK'
  <2>1. missed' \in Nat
    BY <1>1, <1>2 DEF TypeOK
  <2> QED
    BY <1>1, <1>2, <1>6, <1>7, <2>1 DEF TypeOK, Labels
<1>9. Configured'
  BY <1>2, ConfiguredStable
<1>10. Len(outputs) \in 1 .. 3
  BY OutputFacts
<1>11. /\ pc'[w] = "output" /\ out'[w] = 1 /\ nr'[w] = messages'
       /\ \A v \in Writer \ {w} : pc'[v] = pc[v] /\ out'[v] = out[v] /\ nr'[v] = nr[v]
  BY <1>2, <1>5
<1>12. \A n \in Nr : n <= messages => level'[n] = level[n]
  BY <1>3, <1>4, <1>5 DEF Nr
<1>13. ASSUME NEW v \in Writer
       PROVE  /\ pc'[v] # "idle" => out'[v] <= Len(outputs') + 1 /\ nr'[v] <= messages'
              /\ pc'[v] \in ConnSteps =>
                   /\ out'[v] = Len(outputs') /\ outputs'[out'[v]].name = "conn"
                   /\ level'[nr'[v]] <= outputs'[out'[v]].LogLevel
  <2>1. CASE v = w
    BY <1>2, <1>4, <1>10, <1>11, <2>1 DEF ConnSteps
  <2>2. CASE v # w
    <3>1. pc'[v] = pc[v] /\ out'[v] = out[v] /\ nr'[v] = nr[v] /\ nr[v] \in Nr
      BY <1>5, <1>11, <2>2
    <3>2. pc[v] # "idle" => out[v] <= Len(outputs) + 1 /\ nr[v] <= messages
      BY <1>1 DEF InTurn
    <3>3. pc[v] \in ConnSteps => pc[v] # "idle"
      BY DEF ConnSteps
    <3>4. pc[v] \in ConnSteps =>
            /\ out[v] = Len(outputs) /\ outputs[out[v]].name = "conn"
            /\ level'[nr[v]] <= outputs[out[v]].LogLevel
      BY <1>1, <1>12, <3>1, <3>2, <3>3 DEF InTurn
    <3>5. nr[v] <= messages => nr[v] <= messages'
      BY <1>2, <1>4, <3>1 DEF Nr
    <3> QED
      BY <1>2, <3>1, <3>2, <3>4, <3>5
  <2> QED
    BY <2>1, <2>2
<1> QED
  BY <1>8, <1>9, <1>13 DEF TypeInv, InTurn

LEMMA TypeNext == TypeInv /\ [Next]_vars => TypeInv'
<1> SUFFICES ASSUME TypeInv, [Next]_vars PROVE TypeInv'
  OBVIOUS
<1>0. TypeOK /\ Configured /\ InTurn
  BY DEF TypeInv
<1>1. CASE SetLogger
  <2>1. /\ step' = step + 1 /\ step <= 3
        /\ UNCHANGED <<config, pc, out, nr, level, messages, innerWriter, illNetFlag,
                       closing, conns, up, drops, served, delivered, quiet, missed>>
    BY <1>1 DEF SetLogger, Adapters, callVars, netVars, histVars
  <2>2. Reconnect' = config.Reconnect \/ Reconnect' = Reconnect
    BY <1>1 DEF SetLogger
  <2>3. Reconnect' \in BOOLEAN
    <3>1. config.Reconnect \in BOOLEAN
      BY <1>0, ConfigsAssumption DEF TypeOK, Config
    <3> QED
      BY <1>0, <2>2, <3>1, Zenon DEF TypeOK
  <2>4. outputs' \in Seq([name : Adapter, LogLevel : 0 .. 7]) /\ Configured'
    BY <1>1, SetAdapterFacts
  <2>5. TypeOK'
    BY <1>0, <2>1, <2>3, <2>4 DEF TypeOK
  <2>6. InTurn'
    BY <1>0, <2>1 DEF Configured, Adapters, InTurn, ConnSteps
  <2> QED
    BY <2>4, <2>5, <2>6 DEF TypeInv
<1>2. ASSUME NEW w \in Writer, Begin(w) PROVE TypeInv'
  BY <1>2, TypeBegin
<1>3. ASSUME NEW w \in Writer, WriteText(w) PROVE TypeInv'
  <2>1. /\ pc[w] = "output" /\ out[w] <= Len(outputs) /\ outputs[out[w]].name # "conn"
        /\ out' = [out EXCEPT ![w] = @ + 1] /\ pc' = pc
        /\ UNCHANGED <<config, step, outputs, nr, level, messages, innerWriter, Reconnect,
                       illNetFlag, closing, conns, up, drops, delivered, quiet, missed>>
        /\ served' = served \/
           served' = [served EXCEPT ![nr[w]][outputs[out[w]].name] = @ + 1]
    BY <1>3 DEF WriteText, callVars, connVars, netVars
  <2>2. pc' = [pc EXCEPT ![w] = "output"] /\ "output" \in Labels /\ "output" \notin ConnSteps
    BY <1>0, <2>1 DEF TypeOK, Labels, ConnSteps
  <2>3. InTurn' /\ out' \in [Writer -> 1 .. 4] /\ pc' \in [Writer -> Labels]
    BY <2>1, <2>2, TurnOf
  <2>4. outputs[out[w]].name \in {"console", "file"} /\ nr[w] \in Nr
    <3>1. out[w] \in DOMAIN outputs
      <4>1. out[w] \in 1 .. 4
        BY <1>0 DEF TypeOK
      <4> QED
        BY <2>1, <4>1, OutputFacts
    <3> QED
      BY <1>0, <2>1, <3>1, OutputFacts DEF TypeOK, Adapter
  <2>5. served' \in [Nr -> [{"console", "file"} -> Nat]]
    <3>1. served \in [Nr -> [{"console", "file"} -> Nat]]
      BY <1>0 DEF TypeOK
    <3> QED
      BY <2>1, <2>4, <3>1
  <2>6. Configured'
    BY <2>1, ConfiguredStable
  <2>7. TypeOK'
    BY <1>0, <2>1, <2>3, <2>5 DEF TypeOK
  <2> QED
    BY <2>3, <2>6, <2>7 DEF TypeInv
<1>4. ASSUME NEW w \in Writer, Send(w) PROVE TypeInv'
  <2>1. /\ pc[w] = "output" /\ out[w] <= Len(outputs) /\ outputs[out[w]].name = "conn"
        /\ \/ /\ level[nr[w]] <= outputs[out[w]].LogLevel
              /\ pc' = [pc EXCEPT ![w] = "reconnect"] /\ out' = out
           \/ out' = [out EXCEPT ![w] = @ + 1] /\ pc' = pc
        /\ UNCHANGED <<config, step, outputs, nr, level, messages, innerWriter, Reconnect,
                       illNetFlag, closing, conns, up, drops, served, delivered, quiet, missed>>
    BY <1>4 DEF Send, Goto, callVars, connVars, netVars, histVars
  <2>2. out[w] = Len(outputs)
    <3>1. out[w] \in DOMAIN outputs
      <4>1. out[w] \in 1 .. 4
        BY <1>0 DEF TypeOK
      <4> QED
        BY <2>1, <4>1, OutputFacts
    <3> QED
      BY <2>1, <3>1, OutputFacts
  <2>3. /\ {"output", "reconnect"} \subseteq Labels
        /\ "output" \notin ConnSteps /\ "reconnect" \in ConnSteps
    BY DEF Labels, ConnSteps
  <2>4. pc' = pc => pc' = [pc EXCEPT ![w] = "output"]
    BY <1>0, <2>1 DEF TypeOK
  <2>5. InTurn' /\ out' \in [Writer -> 1 .. 4] /\ pc' \in [Writer -> Labels]
    BY <2>1, <2>2, <2>3, <2>4, TurnOf
  <2>6. Configured'
    BY <2>1, ConfiguredStable
  <2>7. TypeOK'
    BY <1>0, <2>1, <2>5 DEF TypeOK, Labels
  <2> QED
    BY <2>5, <2>6, <2>7 DEF TypeInv
<1>5. ASSUME NEW w \in Writer, End(w) PROVE TypeInv'
  <2>1. /\ pc[w] = "output" /\ pc' = [pc EXCEPT ![w] = "idle"] /\ out' = out
        /\ UNCHANGED <<config, step, outputs, nr, level, messages, innerWriter, Reconnect,
                       illNetFlag, closing, conns, up, drops, served, delivered, quiet>>
        /\ Ended(nr[w])
    BY <1>5 DEF End, Goto, callVars, connVars, netVars
  <2>2. missed' \in Nat
    BY <1>0, <2>1 DEF Ended, TypeOK
  <2>3. "idle" \in Labels /\ "idle" \notin ConnSteps
    BY DEF Labels, ConnSteps
  <2>4. InTurn' /\ out' \in [Writer -> 1 .. 4] /\ pc' \in [Writer -> Labels]
    BY <2>1, <2>3, TurnOf
  <2>5. Configured'
    BY <2>1, ConfiguredStable
  <2>6. TypeOK'
    BY <1>0, <2>1, <2>2, <2>4 DEF TypeOK, Labels
  <2> QED
    BY <2>4, <2>5, <2>6 DEF TypeInv
<1>6. ASSUME NEW w \in Writer, ConnLogWrite(w) PROVE TypeInv'
  <2>1. /\ pc[w] \in ConnSteps
        /\ UNCHANGED <<config, step, outputs, nr, level, messages, up, drops, served>>
        /\ \/ Moves(w, ConnSteps) /\ out' = out /\ missed' = missed
           \/ /\ pc' = [pc EXCEPT ![w] = "output"] /\ out' = [out EXCEPT ![w] = @ + 1]
              /\ missed' = missed
           \/ pc' = [pc EXCEPT ![w] = "idle"] /\ out' = out /\ Ended(nr[w])
    BY <1>6, ConnControl
  <2>2. missed' \in Nat
    BY <1>0, <2>1 DEF Ended, TypeOK
  <2>3. /\ ConnSteps \subseteq Labels /\ {"idle", "output"} \subseteq Labels
        /\ "idle" \notin ConnSteps /\ "output" \notin ConnSteps
    BY DEF Labels, ConnSteps
  <2>4. /\ out[w] = Len(outputs) /\ outputs[out[w]].name = "conn"
        /\ level[nr[w]] <= outputs[out[w]].LogLevel
    BY <1>0, <2>1 DEF InTurn
  <2>5. out[w] <= Len(outputs)
    BY <2>4, OutputFacts
  <2>6. InTurn' /\ out' \in [Writer -> 1 .. 4] /\ pc' \in [Writer -> Labels]
    BY <2>1, <2>3, <2>4, <2>5, TurnOf DEF Moves
  <2>7. pc[w] # "idle"
    BY <2>1, <2>3
  <2>8. Configured'
    BY <2>1, <2>7, ConfiguredStable
  <2>9. ConnTypes'
    BY <1>0, <1>6, ConnTyped
  <2>10. TypeOK'
    BY <1>0, <2>1, <2>2, <2>6, <2>9 DEF TypeOK, ConnTypes, Labels
  <2> QED
    BY <2>6, <2>8, <2>10 DEF TypeInv
<1>7. CASE PeerLost \/ Noticed \/ PeerBack
  <2>1. /\ UNCHANGED <<config, step, outputs, pc, out, nr, level, messages, innerWriter,
                       Reconnect, illNetFlag, closing, served, delivered>>
        /\ quiet' = FALSE /\ missed' = 0
    BY <1>7 DEF PeerLost, Noticed, PeerBack, Disturbed, callVars, connVars, netVars
  <2>2. up' \in BOOLEAN
    BY <1>0, <1>7 DEF PeerLost, Noticed, PeerBack, netVars, TypeOK
  <2>3. drops' \in 0 .. MaxDrops
    BY <1>0, <1>7, BoundsAssumption DEF PeerLost, Noticed, PeerBack, netVars, TypeOK
  <2>4. conns' \in [Nr -> {"none", "open", "dead", "broken", "closed"}]
    BY <1>0, <1>7 DEF PeerLost, Noticed, PeerBack, connVars, TypeOK
  <2>5. TypeOK'
    BY <1>0, <2>1, <2>2, <2>3, <2>4 DEF TypeOK
  <2>6. Configured'
    BY <2>1, ConfiguredStable
  <2>7. InTurn'
    BY <1>0, <2>1 DEF InTurn
  <2> QED
    BY <2>5, <2>6, <2>7 DEF TypeInv
<1>8. CASE UNCHANGED vars
  <2>1. UNCHANGED <<config, step, outputs, pc, out, nr, level, messages, innerWriter,
                    Reconnect, illNetFlag, closing, conns, up, drops, served, delivered,
                    quiet, missed>>
    BY <1>8 DEF vars, callVars, connVars, netVars, histVars
  <2>2. TypeOK'
    BY <1>0, <2>1 DEF TypeOK
  <2>3. Configured'
    BY <2>1, ConfiguredStable
  <2>4. InTurn'
    BY <1>0, <2>1 DEF InTurn
  <2> QED
    BY <2>2, <2>3, <2>4 DEF TypeInv
<1> QED
  BY <1>1, <1>2, <1>3, <1>4, <1>5, <1>6, <1>7, <1>8 DEF Next, LogWrite

\* Type correctness of the logger.  That a message is at most one output past
\* the last needs what SetLogger has made of the outputs.
THEOREM LoggerTypeCorrect == Spec => []TypeOK
<1>1. TypeInv => TypeOK
  BY DEF TypeInv
<1> QED
  BY <1>1, TypeInit, TypeNext, PTL DEF Spec

-----------------------------------------------------------------------------
(* What console and file are given.                                        *)

\* How often an output before position k is to print message n.
Times(a, n, k) ==
  IF \E i \in DOMAIN outputs :
       i < k /\ outputs[i].name = a /\ level[n] <= outputs[i].LogLevel
  THEN 1 ELSE 0

Distinct ==
  \A w, v \in Writer :
    w # v /\ pc[w] # "idle" /\ pc[v] # "idle" => nr[w] # nr[v]

Local == {"console", "file"}

\* Messages to come have been printed by nobody, those that are over by all
\* outputs, and one that is under way by the outputs it has passed.
Counts ==
  \A a \in Local :
    /\ \A n \in Nr : n > messages => served[n][a] = 0
    /\ \A n \in Nr :
         n <= messages /\ (\A w \in Writer : nr[w] = n => pc[w] = "idle") =>
           served[n][a] = Times(a, n, Len(outputs) + 1)
    /\ \A w \in Writer : pc[w] # "idle" => served[nr[w]][a] = Times(a, nr[w], out[w])

ServedInv == TypeInv /\ Distinct /\ Counts

\* A position counts if it is that of the output a, and admits the message.
LEMMA TimesNext ==
  ASSUME TypeInv, NEW a, NEW n, NEW k \in DOMAIN outputs
  PROVE  /\ outputs[k].name # a \/ ~(level[n] <= outputs[k].LogLevel) =>
              Times(a, n, k + 1) = Times(a, n, k)
         /\ outputs[k].name = a /\ level[n] <= outputs[k].LogLevel =>
              Times(a, n, k + 1) = 1 /\ Times(a, n, k) = 0
<1>1. DOMAIN outputs = 1 .. Len(outputs) /\ Len(outputs) \in 1 .. 3
  BY OutputFacts
<1>2. \A i \in DOMAIN outputs : i < k + 1 <=> i < k \/ i = k
  BY <1>1
<1>3. \A i \in DOMAIN outputs : outputs[i].name = outputs[k].name => i = k
  BY OutputFacts DEF Adapter
<1>4. \A i \in DOMAIN outputs : i < k => i # k
  BY <1>1
<1>5. CASE outputs[k].name # a \/ ~(level[n] <= outputs[k].LogLevel)
  BY <1>2, <1>5 DEF Times
<1>6. CASE outputs[k].name = a /\ level[n] <= outputs[k].LogLevel
  <2>1. k < k + 1
    BY <1>1
  <2>2. Times(a, n, k + 1) = 1
    BY <1>6, <2>1 DEF Times
  <2>3. Times(a, n, k) = 0
    BY <1>3, <1>4, <1>6 DEF Times
  <2> QED
    BY <1>6, <2>2, <2>3
<1> QED
  BY <1>5, <1>6

\* What a goroutine does for its message changes nothing for the others.
LEMMA CountsOf ==
  ASSUME ServedInv, TypeInv', NEW w \in Writer, pc[w] # "idle",
         UNCHANGED <<outputs, nr, level, messages>>,
         NEW label \in Labels, pc' = [pc EXCEPT ![w] = label],
         \A v \in Writer \ {w} : out'[v] = out[v],
         \A n \in Nr \ {nr[w]} : served'[n] = served[n],
         \A a \in Local :
           served'[nr[w]][a] = Times(a, nr[w], IF label = "idle" THEN Len(outputs) + 1
                                               ELSE out'[w])
  PROVE  ServedInv'
<1>1. TypeInv /\ TypeOK /\ Distinct /\ Counts /\ InTurn
  BY DEF ServedInv, TypeInv
<1>2. /\ pc \in [Writer -> Labels] /\ out \in [Writer -> 1 .. 4] /\ nr \in [Writer -> Nr]
  BY <1>1 DEF TypeOK, Labels
<1>3. /\ pc'[w] = label
      /\ \A v \in Writer \ {w} : pc'[v] = pc[v] /\ out'[v] = out[v]
  BY <1>2
<1>4. nr[w] <= messages /\ messages \in Nat /\ nr[w] \in Nat /\ nr[w] \in Nr
  BY <1>1, <1>2 DEF InTurn, TypeOK, Nr
<1>5. Distinct'
  BY <1>1, <1>3 DEF Distinct
<1>6. \A a, n, k : Times(a, n, k)' = Times(a, n, k)
  BY DEF Times
<1>7. ASSUME NEW a \in Local, NEW n \in Nr, n > messages
      PROVE  served'[n][a] = 0
  BY <1>1, <1>4, <1>7 DEF Counts, Nr
<1>8. ASSUME NEW a \in Local, NEW n \in Nr, n <= messages,
             \A v \in Writer : nr[v] = n => pc'[v] = "idle"
      PROVE  served'[n][a] = Times(a, n, Len(outputs) + 1)
  <2>1. CASE n = nr[w]
    <3>1. label = "idle"
      BY <1>3, <1>8, <2>1
    <3> QED
      BY <2>1, <3>1
  <2>2. CASE n # nr[w]
    <3>1. \A v \in Writer : nr[v] = n => pc[v] = "idle"
      BY <1>3, <1>8, <2>2
    <3> QED
      BY <1>1, <1>8, <2>2, <3>1 DEF Counts
  <2> QED
    BY <2>1, <2>2
<1>9. ASSUME NEW a \in Local, NEW v \in Writer, pc'[v] # "idle"
      PROVE  served'[nr[v]][a] = Times(a, nr[v], out'[v])
  <2>1. CASE v = w
    BY <1>3, <1>9, <2>1
  <2>2. CASE v # w
    <3>1. nr[v] # nr[w] /\ nr[v] \in Nr /\ pc[v] # "idle" /\ out'[v] = out[v]
      BY <1>1, <1>2, <1>3, <1>9, <2>2 DEF Distinct
    <3> QED
      BY <1>1, <3>1 DEF Counts
  <2> QED
    BY <2>1, <2>2
<1>10. Counts'
  BY <1>7, <1>8, <1>9 DEF Counts, Times
<1> QED
  BY <1>5, <1>10 DEF ServedInv

\* Steps that log nothing.
LEMMA CountsStutter ==
  ASSUME ServedInv, TypeInv', UNCHANGED <<outputs, pc, out, nr, level, messages, served>>
  PROVE  ServedInv'
<1>1. Distinct' /\ Counts'
  BY DEF ServedInv, Distinct, Counts, Times
<1> QED
  BY <1>1 DEF ServedInv

LEMMA CountsBegin ==
  ASSUME ServedInv, TypeInv', NEW w \in Writer, Begin(w)
  PROVE  ServedInv'
<1>1. TypeInv /\ TypeOK /\ Distinct /\ Counts /\ InTurn
  BY DEF ServedInv, TypeInv
<1>2. /\ pc[w] = "idle" /\ messages < MaxMessages
      /\ messages' = messages + 1 /\ nr' = [nr EXCEPT ![w] = messages + 1]
      /\ out' = [out EXCEPT ![w] = 1] /\ pc' = [pc EXCEPT ![w] = "output"]
      /\ UNCHANGED <<outputs, served>>
  BY DEF Begin, Goto
<1>3. PICK l \in Levels : level' = [level EXCEPT ![messages + 1] = l]
  BY DEF Begin
<1>4. /\ pc \in [Writer -> Labels] /\ out \in [Writer -> 1 .. 4]
      /\ nr \in [Writer -> Nr] /\ level \in [Nr -> 0 .. 7]
      /\ messages \in Nat /\ messages + 1 \in Nr
      /\ \A n \in Nr : n \in Nat
  BY <1>1, <1>2, BoundsAssumption DEF TypeOK, Labels, Nr
<1>5. /\ pc'[w] = "output" /\ out'[w] = 1 /\ nr'[w] = messages + 1
      /\ \A v \in Writer \ {w} : pc'[v] = pc[v] /\ out'[v] = out[v] /\ nr'[v] = nr[v]
  BY <1>2, <1>4
<1>6. \A n \in Nr : n <= messages => level'[n] = level[n]
  BY <1>3, <1>4
<1>7. \A v \in Writer : pc[v] # "idle" => nr[v] <= messages
  BY <1>1 DEF InTurn
<1>8. Distinct'
  BY <1>1, <1>4, <1>5, <1>7 DEF Distinct
<1>9. ASSUME NEW a \in Local, NEW n \in Nr, n > messages'
       PROVE  served'[n][a] = 0
  <2>1. n > messages
    BY <1>2, <1>4, <1>9
  <2> QED
    BY <1>1, <1>2, <2>1 DEF Counts
<1>10. ASSUME NEW a \in Local, NEW n \in Nr, n <= messages',
              \A v \in Writer : nr'[v] = n => pc'[v] = "idle"
       PROVE  served'[n][a] = Times(a, n, Len(outputs) + 1)'
  <2>1. n # messages + 1
    BY <1>5, <1>10
  <2>2. n <= messages
    BY <1>2, <1>4, <1>10, <2>1
  <2>3. \A v \in Writer : nr[v] = n => pc[v] = "idle"
    BY <1>2, <1>5, <1>10
  <2>4. served[n][a] = Times(a, n, Len(outputs) + 1)
    BY <1>1, <2>2, <2>3 DEF Counts
  <2> QED
    BY <1>2, <1>6, <2>2, <2>4 DEF Times
<1>11. ASSUME NEW a \in Local, NEW v \in Writer, pc'[v] # "idle"
       PROVE  served'[nr'[v]][a] = Times(a, nr[v], out[v])'
  <2>1. CASE v = w
    <3>1. served[messages + 1][a] = 0
      BY <1>1, <1>4 DEF Counts
    <3>2. \A i \in DOMAIN outputs : ~(i < 1)
      BY <1>1, OutputFacts
    <3> QED
      BY <1>2, <1>5, <2>1, <3>1, <3>2 DEF Times
  <2>2. CASE v # w
    <3>1. pc[v] # "idle" /\ nr'[v] = nr[v] /\ out'[v] = out[v] /\ nr[v] \in Nr
      BY <1>4, <1>5, <1>11, <2>2
    <3>2. nr[v] <= messages
      BY <1>7, <3>1
    <3>3. served[nr[v]][a] = Times(a, nr[v], out[v])
      BY <1>1, <3>1 DEF Counts
    <3>4. level'[nr[v]] = level[nr[v]]
      BY <1>6, <3>1, <3>2
    <3> QED
      BY <1>2, <3>1, <3>3, <3>4 DEF Times
  <2> QED
    BY <2>1, <2>2
<1>12. Counts'
  BY <1>9, <1>10, <1>11 DEF Counts
<1> QED
  BY <1>8, <1>12 DEF ServedInv

\* Console and file print what they admit.
LEMMA CountsText ==
  ASSUME ServedInv, TypeInv', NEW w \in Writer, WriteText(w)
  PROVE  ServedInv'
<1>1. TypeInv /\ TypeOK /\ Counts
  BY DEF ServedInv, TypeInv
<1> DEFINE o == outputs[out[w]]
           n == nr[w]
<1>2. /\ pc[w] = "output" /\ out[w] <= Len(outputs) /\ o.name # "conn"
      /\ out' = [out EXCEPT ![w] = @ + 1] /\ pc' = pc
      /\ UNCHANGED <<outputs, nr, level, messages>>
      /\ served' = IF level[n] <= o.LogLevel
                   THEN [served EXCEPT ![n][o.name] = @ + 1] ELSE served
  BY DEF WriteText, callVars
<1>3. /\ pc \in [Writer -> Labels] /\ out \in [Writer -> 1 .. 4] /\ n \in Nr
      /\ served \in [Nr -> [Local -> Nat]]
  BY <1>1 DEF TypeOK, Labels, Local
<1>4. out[w] \in DOMAIN outputs
  <2>1. out[w] \in 1 .. 4 /\ out[w] <= Len(outputs)
    BY <1>2, <1>3
  <2> QED
    BY <1>1, <2>1, OutputFacts
<1>5. o.name \in Local
  BY <1>1, <1>2, <1>4, OutputFacts DEF Adapter, Local
<1>6. \A k \in Nr \ {n} : served'[k] = served[k]
  BY <1>2, <1>3
<1>7. ASSUME NEW a \in Local
      PROVE  served'[n][a] = Times(a, n, out[w] + 1)
  <2>1. served[n][a] = Times(a, n, out[w])
    BY <1>1, <1>2 DEF Counts
  <2>2. CASE o.name = a /\ level[n] <= o.LogLevel
    <3>1. served'[n][a] = served[n][a] + 1
      BY <1>2, <1>3, <1>5, <2>2
    <3>2. Times(a, n, out[w] + 1) = 1 /\ Times(a, n, out[w]) = 0
      BY <1>1, <1>4, <2>2, TimesNext
    <3> QED
      BY <2>1, <3>1, <3>2
  <2>3. CASE o.name # a \/ ~(level[n] <= o.LogLevel)
    <3>1. served'[n][a] = served[n][a]
      BY <1>2, <1>3, <1>5, <2>3
    <3>2. Times(a, n, out[w] + 1) = Times(a, n, out[w])
      BY <1>1, <1>4, <2>3, TimesNext
    <3> QED
      BY <2>1, <3>1, <3>2
  <2> QED
    BY <2>2, <2>3
<1>8. pc' = [pc EXCEPT ![w] = "output"] /\ "output" \in Labels /\ out'[w] = out[w] + 1
  BY <1>2, <1>3 DEF Labels
<1>9. \A v \in Writer \ {w} : out'[v] = out[v]
  BY <1>2, <1>3
<1> HIDE DEF o, n
<1>10. \A k \in Nr \ {nr[w]} : served'[k] = served[k]
  BY <1>6 DEF n
<1>11. \A a \in Local :
         served'[nr[w]][a] = Times(a, nr[w], IF "output" = "idle" THEN Len(outputs) + 1
                                             ELSE out'[w])
  BY <1>7, <1>8 DEF n
<1>12. pc[w] # "idle" /\ UNCHANGED <<outputs, nr, level, messages>>
  BY <1>2
<1> QED
  BY <1>8, <1>9, <1>10, <1>11, <1>12, CountsOf

\* The network output has no part in it: a message passes it, or is given up
\* there, at the last position.
LEMMA CountsConn ==
  ASSUME ServedInv, TypeInv', NEW w \in Writer, pc[w] # "idle",
         UNCHANGED <<outputs, nr, level, messages, served>>,
         NEW label \in Labels, pc' = [pc EXCEPT ![w] = label],
         out[w] = Len(outputs), outputs[out[w]].name = "conn",
         \/ out' = out
         \/ out' = [out EXCEPT ![w] = @ + 1] /\ label # "idle"
  PROVE  ServedInv'
<1>1. TypeInv /\ TypeOK /\ Counts
  BY DEF ServedInv, TypeInv
<1>2. out[w] \in DOMAIN outputs /\ out \in [Writer -> 1 .. 4]
  BY <1>1, OutputFacts DEF TypeOK
<1>3. ASSUME NEW a \in Local
      PROVE  /\ served[nr[w]][a] = Times(a, nr[w], out[w])
             /\ Times(a, nr[w], out[w] + 1) = Times(a, nr[w], out[w])
  <2>1. served[nr[w]][a] = Times(a, nr[w], out[w])
    BY <1>1 DEF Counts
  <2>2. outputs[out[w]].name # a
    BY DEF Local
  <2>3. Times(a, nr[w], out[w] + 1) = Times(a, nr[w], out[w])
    BY <1>1, <1>2, <2>2, TimesNext
  <2> QED
    BY <2>1, <2>3
<1>4. out'[w] \in {out[w], out[w] + 1}
  BY <1>2
<1>5. \A a \in Local : served'[nr[w]][a]
        = Times(a, nr[w], IF label = "idle" THEN Len(outputs) + 1 ELSE out'[w])
  BY <1>3, <1>4
<1>6. \A v \in Writer \ {w} : out'[v] = out[v]
  BY <1>2
<1> QED
  BY <1>5, <1>6, CountsOf

LEMMA ServedInit == Init => ServedInv
<1> SUFFICES ASSUME Init PROVE ServedInv
  OBVIOUS
<1>1. TypeInv
  BY TypeInit
<1>2. Distinct
  BY DEF Init, Distinct
<1>3. Counts
  BY DEF Init, Counts, Local, Nr
<1> QED
  BY <1>1, <1>2, <1>3 DEF ServedInv

LEMMA ServedNext == ServedInv /\ [Next]_vars => ServedInv'
<1> SUFFICES ASSUME ServedInv, [Next]_vars PROVE ServedInv'
  OBVIOUS
<1>0. TypeInv /\ TypeInv' /\ TypeOK /\ Configured /\ InTurn /\ Distinct /\ Counts
  BY TypeNext DEF ServedInv, TypeInv
<1>1. CASE SetLogger
  <2>1. /\ UNCHANGED <<pc, nr, messages>>
        /\ messages = 0 /\ \A w \in Writer : pc[w] = "idle"
        /\ served' = served
    BY <1>0, <1>1 DEF SetLogger, Configured, callVars, histVars
  <2>2. \A n \in Nr : n > 0 /\ ~(n <= 0)
    BY BoundsAssumption DEF Nr
  <2>3. Distinct' /\ Counts'
    BY <1>0, <2>1, <2>2 DEF Distinct, Counts
  <2> QED
    BY <1>0, <2>3 DEF ServedInv
<1>2. ASSUME NEW w \in Writer, Begin(w) PROVE ServedInv'
  BY <1>0, <1>2, CountsBegin
<1>3. ASSUME NEW w \in Writer, WriteText(w) PROVE ServedInv'
  BY <1>0, <1>3, CountsText
<1>4. ASSUME NEW w \in Writer, Send(w) PROVE ServedInv'
  <2>1. /\ pc[w] = "output" /\ out[w] <= Len(outputs) /\ outputs[out[w]].name = "conn"
        /\ \/ pc' = [pc EXCEPT ![w] = "reconnect"] /\ out' = out
           \/ out' = [out EXCEPT ![w] = @ + 1] /\ pc' = pc
        /\ UNCHANGED <<outputs, nr, level, messages, served>>
    BY <1>4 DEF Send, Goto, callVars, histVars
  <2>2. out[w] = Len(outputs)
    <3>1. out[w] \in 1 .. 4
      BY <1>0 DEF TypeOK
    <3>2. out[w] \in DOMAIN outputs
      BY <1>0, <2>1, <3>1, OutputFacts
    <3> QED
      BY <1>0, <2>1, <3>2, OutputFacts
  <2>3. pc' = pc => pc' = [pc EXCEPT ![w] = "output"]
    BY <1>0, <2>1 DEF TypeOK
  <2>4. "reconnect" \in Labels /\ "output" \in Labels
    BY DEF Labels, ConnSteps
  <2> QED
    BY <1>0, <2>1, <2>2, <2>3, <2>4, CountsConn
<1>5. ASSUME NEW w \in Writer, End(w) PROVE ServedInv'
  <2>1. /\ pc[w] = "output" /\ out[w] > Len(outputs)
        /\ pc' = [pc EXCEPT ![w] = "idle"] /\ out' = out
        /\ UNCHANGED <<outputs, nr, level, messages, served>>
    BY <1>5 DEF End, Goto, callVars
  <2>2. out[w] = Len(outputs) + 1
    <3>1. out[w] \in 1 .. 4 /\ out[w] <= Len(outputs) + 1
      BY <1>0, <2>1 DEF TypeOK, InTurn
    <3>2. Len(outputs) \in 1 .. 3
      BY <1>0, OutputFacts
    <3> QED
      BY <2>1, <3>1, <3>2
  <2>3. \A a \in Local : served'[nr[w]][a] = Times(a, nr[w], Len(outputs) + 1)
    BY <1>0, <2>1, <2>2 DEF Counts
  <2>4. "idle" \in Labels
    BY DEF Labels
  <2> QED
    BY <1>0, <2>1, <2>3, <2>4, CountsOf
<1>6. ASSUME NEW w \in Writer, ConnLogWrite(w) PROVE ServedInv'
  <2>1. /\ pc[w] \in ConnSteps
        /\ UNCHANGED <<outputs, nr, level, messages, served>>
        /\ \/ Moves(w, ConnSteps) /\ out' = out
           \/ /\ pc' = [pc EXCEPT ![w] = "output"] /\ out' = [out EXCEPT ![w] = @ + 1]
           \/ pc' = [pc EXCEPT ![w] = "idle"] /\ out' = out
    BY <1>6, ConnControl
  <2>2. out[w] = Len(outputs) /\ outputs[out[w]].name = "conn"
    BY <1>0, <2>1 DEF InTurn
  <2>3. /\ ConnSteps \subseteq Labels /\ {"idle", "output"} \subseteq Labels
        /\ "idle" \notin ConnSteps
    BY DEF Labels, ConnSteps
  <2> QED
    BY <1>0, <2>1, <2>2, <2>3, CountsConn DEF Moves
<1>7. CASE PeerLost \/ Noticed \/ PeerBack \/ UNCHANGED vars
  <2>1. UNCHANGED <<outputs, pc, out, nr, level, messages, served>>
    BY <1>7 DEF PeerLost, Noticed, PeerBack, vars, callVars, histVars
  <2> QED
    BY <1>0, <2>1, CountsStutter
<1> QED
  BY <1>1, <1>2, <1>3, <1>4, <1>5, <1>6, <1>7 DEF Next, LogWrite

\* Whatever the goroutines interleave, a console and a file that are configured
\* with a level of the table print every message that it admits exactly once,
\* and no other; a file that is not configured prints none.
THEOREM LoggerLocalOutputsServed == Spec => []LocalOutputsServed
<1>1. ServedInv => LocalOutputsServed
  <2> SUFFICES ASSUME ServedInv, NEW n \in 1 .. messages,
                      \A w \in Writer : nr[w] = n => pc[w] = "idle",
                      NEW a \in Local,
                      Documented(a)
               PROVE  served[n][a] = IF Wanted(a, n) THEN 1 ELSE 0
    BY DEF LocalOutputsServed, Local
  <2>1. TypeInv /\ TypeOK /\ Configured /\ Counts
    BY DEF ServedInv, TypeInv
  <2>2. n \in Nr /\ n <= messages /\ messages # 0
    BY <2>1, BoundsAssumption DEF TypeOK, Nr
  <2>3. served[n][a] = Times(a, n, Len(outputs) + 1)
    BY <2>1, <2>2 DEF Counts
  <2>4. step = 4
    BY <2>1, <2>2 DEF Configured, Adapters, TypeOK
  <2>5. \A i \in DOMAIN outputs : i < Len(outputs) + 1
    BY <2>1, OutputFacts
  <2>6. CASE a = "console"
    <3>1. 1 \in DOMAIN outputs /\ \A i \in DOMAIN outputs : outputs[i].name = "console" <=> i = 1
      BY <2>1, OutputFacts
    <3>2. outputs[1].LogLevel = IF config.level["console"] # "absent"
                                THEN LevelOf(config.level["console"]) ELSE LevelMap.DEBG
      BY <2>1, <2>4 DEF Configured, ConsoleOutput
    <3>3. Times(a, n, Len(outputs) + 1) = IF level[n] <= outputs[1].LogLevel THEN 1 ELSE 0
      BY <2>5, <2>6, <3>1 DEF Times
    <3>4. KnownLevel(config.level["console"])
      BY <2>6 DEF Documented
    <3>5. config.level["console"] # "absent"
      BY <3>4 DEF KnownLevel, LevelMap
    <3>6. Wanted(a, n) <=> level[n] <= outputs[1].LogLevel
      BY <2>6, <3>2, <3>4, <3>5 DEF Wanted, LevelOf
    <3> QED
      BY <2>3, <3>3, <3>6
  <2>7. CASE a = "file"
    <3>1. \A i \in DOMAIN outputs : outputs[i].name = "file" <=> HasFile /\ i = 2
      BY <2>1, OutputFacts
    <3>2. HasFile => 2 \in DOMAIN outputs
      BY <2>1, OutputFacts DEF Configured
    <3>3. HasFile => outputs[2].LogLevel = LevelOf(config.level["file"])
      BY <2>1 DEF Configured, FileOutput
    <3>4. Times(a, n, Len(outputs) + 1)
            = IF HasFile /\ level[n] <= outputs[2].LogLevel THEN 1 ELSE 0
      BY <2>5, <2>7, <3>1, <3>2 DEF Times
    <3>5. HasFile <=> config.level["file"] # "absent" /\ config.permit
      BY <2>4 DEF HasFile
    <3> QED
      BY <2>3, <2>7, <3>3, <3>4, <3>5 DEF Wanted, Documented, LevelOf, KnownLevel
  <2> QED
    BY <2>6, <2>7 DEF Local
<1> QED
  BY <1>1, ServedInit, ServedNext, PTL DEF Spec

-----------------------------------------------------------------------------
(* What the network output may miss.                                       *)

\* The next LogWrite of the network output connects.
WillConnect ==
  Reconnect \/ innerWriter = NoConn \/ illNetFlag \/ config.ReconnectOnMsg

\* It does not connect, or has: only a first miss can be ahead.
Ready ==
  innerWriter # NoConn /\ ~illNetFlag /\ (missed = 1 => conns[innerWriter] = "open")

\* The message has got through, or it is the first one missed, and that is known.
Settled(n) == n \in delivered \/ (missed = 0 /\ illNetFlag)

\* How far a goroutine that is alone has got with the network output.
Undisturbed(w) ==
  /\ up
  /\ pc[w] = "output" /\ out[w] <= Len(outputs) => (missed = 1 => WillConnect)
  /\ pc[w] = "output" /\ out[w] > Len(outputs) =>
       IF ConnAdmits(nr[w]) THEN Settled(nr[w]) ELSE missed = 1 => WillConnect
  /\ pc[w] = "reconnect" => (missed = 1 => WillConnect)
  /\ pc[w] = "need" =>
       (missed = 1 => innerWriter = NoConn \/ illNetFlag \/ config.ReconnectOnMsg)
  /\ pc[w] = "close" => innerWriter # NoConn
  /\ pc[w] = "flag" => innerWriter # NoConn /\ conns[innerWriter] = "open"
  /\ pc[w] \in {"defer", "test", "println"} => Ready
  /\ pc[w] = "mark" => missed = 0
  /\ pc[w] = "return" => Settled(nr[w])

AllIdle == \A w \in Writer : pc[w] = "idle"

\* As long as nothing has disturbed the last message, it is the only one.
Alone ==
  quiet => \A w, v \in Writer : pc[w] # "idle" /\ pc[v] # "idle" => w = v

TryInv ==
  /\ TypeInv
  /\ Alone
  /\ quiet => \A w \in Writer : pc[w] # "idle" => Undisturbed(w)
  /\ AllIdle /\ missed = 1 => WillConnect
  /\ step <= Len(Adapters) => missed = 0
  /\ SecondTryDelivers

\* The network output admits what its level admits.
LEMMA AdmitsFacts ==
  ASSUME TypeInv, NEW n
  PROVE  ConnAdmits(n) <=> HasConn /\ level[n] <= outputs[Len(outputs)].LogLevel
<1>1. Len(outputs) \in DOMAIN outputs
  BY OutputFacts
<1> QED
  BY <1>1, OutputFacts DEF ConnAdmits

\* A step of a goroutine that has a message: what there is to show.
LEMMA TryOf ==
  ASSUME TryInv, TypeInv', NEW w \in Writer, pc[w] # "idle", UNCHANGED step,
         NEW label \in Labels, pc' = [pc EXCEPT ![w] = label],
         quiet' => quiet, missed' <= 1,
         label # "idle" /\ quiet' => Undisturbed(w)',
         label = "idle" /\ missed' = 1 => WillConnect'
  PROVE  TryInv'
<1>1. TypeInv /\ Alone /\ DOMAIN pc = Writer /\ step > Len(Adapters)
  <2>1. TypeInv /\ Alone /\ Configured /\ step \in 1 .. 4 /\ DOMAIN pc = Writer
    BY DEF TryInv, TypeInv, TypeOK
  <2>2. Len(Adapters) = 3
    BY DEF Adapters
  <2>3. ~(step <= Len(Adapters))
    BY <2>1 DEF Configured
  <2> QED
    BY <2>1, <2>2, <2>3
<1>2. pc'[w] = label /\ \A v \in Writer \ {w} : pc'[v] = pc[v]
  BY <1>1
<1>3. Alone'
  BY <1>1, <1>2 DEF Alone
<1>4. quiet' => \A v \in Writer : pc'[v] # "idle" => v = w
  BY <1>1, <1>2 DEF Alone
<1>5. (quiet => \A v \in Writer : pc[v] # "idle" => Undisturbed(v))'
  BY <1>2, <1>4
<1>6. AllIdle' => label = "idle"
  BY <1>2 DEF AllIdle
<1>7. SecondTryDelivers'
  BY DEF SecondTryDelivers
<1>8. ~(step' <= Len(Adapters))
  BY <1>1 DEF Adapters, TypeInv, TypeOK
<1>9. AllIdle' /\ missed' = 1 => WillConnect'
  BY <1>6
<1> QED
  BY <1>3, <1>5, <1>7, <1>8, <1>9 DEF TryInv

\* A step of LogWrite of the network output that does not end the message.
LEMMA TryConn ==
  ASSUME TryInv, TypeInv', NEW w \in Writer, ConnLogWrite(w), quiet, quiet'
  PROVE  pc'[w] # "idle" /\ Undisturbed(w)'
<1>1. /\ TypeInv /\ TypeOK /\ InTurn /\ pc[w] \in ConnSteps /\ "idle" \notin ConnSteps
      /\ UNCHANGED <<config, outputs, nr, level, up>>
      /\ DOMAIN pc = Writer
  BY ConnControl DEF TryInv, TypeInv, TypeOK, ConnSteps
<1>2. Undisturbed(w) /\ up
  BY <1>1 DEF TryInv, Undisturbed
<1>3. missed \in {0, 1}
  BY <1>1 DEF TryInv, TypeOK, SecondTryDelivers
<1>4. /\ out[w] = Len(outputs) /\ ConnAdmits(nr[w])
  BY <1>1, OutputFacts DEF InTurn, ConnAdmits
<1>5. nr[w] \in Nr /\ NoConn \notin Nr
  BY <1>1 DEF TypeOK, Nr, NoConn
<1> USE DEF Goto, OnlyConn, connVars, netVars, histVars, Undisturbed
<1>6. CASE ReadReconnect(w)
  BY <1>1, <1>2, <1>6 DEF ReadReconnect, WillConnect
<1>7. CASE ClearReconnect(w)
  BY <1>1, <1>2, <1>7 DEF ClearReconnect
<1>8. CASE NeedToConnect(w)
  BY <1>1, <1>2, <1>8 DEF NeedToConnect, Ready
<1>9. CASE HasWriter(w)
  BY <1>1, <1>2, <1>9 DEF HasWriter
<1>10. CASE CloseOld(w)
  BY <1>1, <1>2, <1>10 DEF CloseOld
<1>11. CASE Unset(w)
  BY <1>1, <1>2, <1>11 DEF Unset
<1>12. CASE Dial(w)
  <2>1. /\ innerWriter' = nr[w] /\ conns' = [conns EXCEPT ![nr[w]] = "open"]
        /\ pc' = [pc EXCEPT ![w] = "flag"] /\ up' = up
    BY <1>12 DEF Dial
  <2>2. innerWriter' # NoConn /\ conns'[innerWriter'] = "open"
    BY <1>1, <1>5, <2>1 DEF TypeOK
  <2> QED
    BY <1>1, <1>2, <2>1, <2>2
<1>13. CASE ClearFlag(w)
  BY <1>1, <1>2, <1>13 DEF ClearFlag, Ready
<1>14. CASE Defer(w)
  BY <1>1, <1>2, <1>14 DEF Defer, Ready
<1>15. CASE TestFlag(w)
  BY <1>1, <1>2, <1>15 DEF TestFlag, Ready
<1>16. CASE Println(w)
  <2>1. /\ pc[w] = "println" /\ Ready /\ missed' = missed /\ illNetFlag' = illNetFlag
        /\ conns[innerWriter] # "dead"
        /\ conns[innerWriter] = "open" =>
             pc' = [pc EXCEPT ![w] = "return"] /\ delivered' = delivered \union {nr[w]}
        /\ conns[innerWriter] # "open" => pc' = [pc EXCEPT ![w] = "mark"]
    BY <1>2, <1>16 DEF Println
  <2>2. CASE conns[innerWriter] = "open"
    BY <1>1, <1>2, <2>1, <2>2 DEF Settled
  <2>3. CASE conns[innerWriter] # "open"
    <3>1. missed' = 0
      BY <1>3, <2>1, <2>3 DEF Ready
    <3> QED
      BY <1>1, <1>2, <2>1, <2>3, <3>1
  <2> QED
    BY <2>2, <2>3
<1>17. CASE Mark(w)
  BY <1>1, <1>2, <1>17 DEF Mark, Settled
<1>18. CASE Return(w)
  <2>1. /\ pc[w] = "return" /\ pc' = [pc EXCEPT ![w] = "output"]
        /\ out' = [out EXCEPT ![w] = @ + 1]
        /\ UNCHANGED <<innerWriter, illNetFlag, missed, delivered>>
    BY <1>18 DEF Return, LeaveConn
  <2>2. Settled(nr[w])
    BY <1>2, <2>1
  <2>3. out'[w] = Len(outputs) + 1 /\ Len(outputs) \in Nat
    BY <1>1, <1>4, <2>1, OutputFacts DEF TypeOK
  <2>4. out'[w] > Len(outputs) /\ ~(out'[w] <= Len(outputs))
    BY <2>3
  <2>5. ConnAdmits(nr[w])' /\ Settled(nr[w])'
    BY <1>1, <1>4, <2>1, <2>2 DEF ConnAdmits, Settled
  <2>6. pc'[w] = "output" /\ up'
    BY <1>1, <1>2, <2>1
  <2> QED
    BY <1>1, <2>4, <2>5, <2>6
<1>19. CASE CloseNil(w) \/ DeferNil(w) \/ PrintlnNil(w)
  BY <1>2, <1>19 DEF CloseNil, DeferNil, PrintlnNil, Ready
<1>20. CASE DialFails(w)
  BY <1>2, <1>20 DEF DialFails
<1> QED
  BY <1>6, <1>7, <1>8, <1>9, <1>10, <1>11, <1>12, <1>13, <1>14, <1>15, <1>16, <1>17,
     <1>18, <1>19, <1>20 DEF ConnLogWrite, needToConnectOnMsg, connect

LEMMA TryInit == Init => TryInv
<1> SUFFICES ASSUME Init PROVE TryInv
  OBVIOUS
<1>1. TypeInv
  BY TypeInit
<1>2. missed = 0 /\ ~quiet
  BY DEF Init
<1> QED
  BY <1>1, <1>2 DEF TryInv, Alone, SecondTryDelivers

\* A message begins; it is undisturbed if it is the only one.
LEMMA TryBegin ==
  ASSUME TryInv, TypeInv', NEW w \in Writer, Begin(w)
  PROVE  TryInv'
<1>1. /\ TypeInv /\ DOMAIN pc = Writer /\ missed <= 1 /\ missed \in Nat
      /\ AllIdle /\ missed = 1 => WillConnect
  BY DEF TryInv, TypeInv, TypeOK, SecondTryDelivers
<1>2. /\ step > Len(Adapters) /\ step' = step
      /\ pc' = [pc EXCEPT ![w] = "output"] /\ out' = [out EXCEPT ![w] = 1]
      /\ quiet' = (up /\ Others(w) = {})
      /\ missed' = IF Others(w) = {} THEN missed ELSE 0
      /\ pc[w] = "idle"
      /\ UNCHANGED <<config, outputs, up, Reconnect, innerWriter, illNetFlag>>
  BY DEF Begin, Goto, connVars, netVars
<1>3. pc'[w] = "output" /\ \A v \in Writer \ {w} : pc'[v] = pc[v]
  BY <1>1, <1>2
<1>4. Others(w) = {} => AllIdle
  BY <1>2 DEF Others, AllIdle
<1>5. quiet' => AllIdle /\ up' /\ missed' = missed
  BY <1>2, <1>4
<1>6. quiet' => \A v \in Writer : pc'[v] # "idle" => v = w
  BY <1>3, <1>5 DEF AllIdle
<1>7. out'[w] <= Len(outputs')
  <2>1. Len(outputs) \in 1 .. 3
    BY <1>1, OutputFacts
  <2>2. out \in [Writer -> 1 .. 4]
    BY <1>1 DEF TypeInv, TypeOK
  <2>3. out'[w] = 1
    BY <1>2, <2>2
  <2>4. Len(outputs') = Len(outputs)
    BY <1>2
  <2> QED
    BY <2>1, <2>3, <2>4
<1>8. ASSUME quiet' PROVE Undisturbed(w)'
  <2>1. missed' = 1 => WillConnect'
    BY <1>1, <1>2, <1>5, <1>8 DEF WillConnect
  <2>2. ~(out'[w] > Len(outputs'))
    <3>1. Len(outputs) \in 1 .. 3 /\ out \in [Writer -> 1 .. 4]
      BY <1>1, OutputFacts DEF TypeInv, TypeOK
    <3> QED
      BY <1>2, <1>7, <3>1
  <2> QED
    BY <1>3, <1>5, <1>8, <2>1, <2>2 DEF Undisturbed
<1>9. Alone'
  BY <1>6 DEF Alone
<1>10. (quiet => \A v \in Writer : pc[v] # "idle" => Undisturbed(v))'
  BY <1>6, <1>8
<1>11. ~AllIdle'
  BY <1>3 DEF AllIdle
<1>12. ~(step' <= Len(Adapters))
  <2>1. step \in 1 .. 4 /\ Len(Adapters) = 3
    BY <1>1 DEF TypeInv, TypeOK, Adapters
  <2> QED
    BY <1>2, <2>1
<1>13. SecondTryDelivers'
  BY <1>1, <1>2 DEF SecondTryDelivers
<1> QED
  BY <1>9, <1>10, <1>11, <1>12, <1>13 DEF TryInv

\* An output that is not the network output.
LEMMA TryText ==
  ASSUME TryInv, TypeInv', NEW w \in Writer, WriteText(w)
  PROVE  TryInv'
<1>1. /\ TypeInv /\ TypeOK /\ missed <= 1
      /\ quiet => Undisturbed(w)
  BY DEF TryInv, TypeInv, SecondTryDelivers, WriteText
<1>2. /\ pc[w] = "output" /\ pc' = [pc EXCEPT ![w] = "output"] /\ pc'[w] = "output"
      /\ out[w] <= Len(outputs) /\ outputs[out[w]].name # "conn"
      /\ out' = [out EXCEPT ![w] = @ + 1]
      /\ UNCHANGED <<config, step, outputs, nr, level, up, Reconnect, innerWriter,
                     illNetFlag, quiet, missed>>
  BY <1>1 DEF WriteText, TypeOK, callVars, connVars, netVars
<1>3. ASSUME out[w] = Len(outputs) PROVE ~ConnAdmits(nr[w])'
  <2>1. ~HasConn
    BY <1>1, <1>2, <1>3, OutputFacts
  <2>2. ~ConnAdmits(nr[w])
    BY <1>1, <2>1, AdmitsFacts
  <2> QED
    BY <1>2, <2>2 DEF ConnAdmits
<1>4. out'[w] > Len(outputs') => out[w] = Len(outputs)
  <2>1. Len(outputs) \in 1 .. 3 /\ out \in [Writer -> 1 .. 4]
    BY <1>1, OutputFacts DEF TypeOK
  <2> QED
    BY <1>2, <2>1
<1>5. ASSUME quiet' PROVE Undisturbed(w)'
  <2>1. up' /\ (missed' = 1 => WillConnect')
    BY <1>1, <1>2, <1>5 DEF Undisturbed, WillConnect
  <2> QED
    BY <1>2, <1>3, <1>4, <2>1 DEF Undisturbed
<1>6. "output" \in Labels
  BY DEF Labels
<1> QED
  BY <1>1, <1>2, <1>5, <1>6, TryOf

\* The network output takes the message, or does not admit it.
LEMMA TrySend ==
  ASSUME TryInv, TypeInv', NEW w \in Writer, Send(w)
  PROVE  TryInv'
<1>1. /\ TypeInv /\ TypeOK /\ missed <= 1
      /\ quiet => Undisturbed(w)
  BY DEF TryInv, TypeInv, SecondTryDelivers, Send
<1>2. /\ pc[w] = "output" /\ out[w] <= Len(outputs) /\ outputs[out[w]].name = "conn"
      /\ UNCHANGED <<config, step, outputs, nr, level, up, Reconnect, innerWriter,
                     illNetFlag, quiet, missed>>
  BY DEF Send, callVars, connVars, netVars, histVars
<1>3. quiet' => up' /\ (missed' = 1 => WillConnect')
  BY <1>1, <1>2 DEF Undisturbed, WillConnect
<1>4. CASE level[nr[w]] <= outputs[out[w]].LogLevel
  <2>1. pc' = [pc EXCEPT ![w] = "reconnect"] /\ pc'[w] = "reconnect"
    BY <1>1, <1>4 DEF Send, Goto, TypeOK
  <2>2. quiet' => Undisturbed(w)'
    BY <1>3, <2>1 DEF Undisturbed
  <2>3. "reconnect" \in Labels
    BY DEF Labels, ConnSteps
  <2> QED
    BY <1>1, <1>2, <2>1, <2>2, <2>3, TryOf
<1>5. CASE ~(level[nr[w]] <= outputs[out[w]].LogLevel)
  <2>1. /\ pc' = [pc EXCEPT ![w] = "output"] /\ pc'[w] = "output"
        /\ out' = [out EXCEPT ![w] = @ + 1]
    <3>1. pc' = pc /\ out' = [out EXCEPT ![w] = @ + 1]
      BY <1>5 DEF Send
    <3>2. pc = [pc EXCEPT ![w] = pc[w]]
      BY <1>1 DEF TypeOK
    <3> QED
      BY <1>2, <3>1, <3>2
  <2>2. Len(outputs) \in 1 .. 3 /\ out \in [Writer -> 1 .. 4] /\ out[w] \in DOMAIN outputs
    <3>1. Len(outputs) \in 1 .. 3 /\ DOMAIN outputs = 1 .. Len(outputs)
      BY <1>1, OutputFacts
    <3>2. out \in [Writer -> 1 .. 4] /\ out[w] \in 1 .. 4
      BY <1>1 DEF TypeOK
    <3> QED
      BY <1>2, <3>1, <3>2
  <2>3. out[w] = Len(outputs)
    BY <1>1, <1>2, <2>2, OutputFacts
  <2>4. ~(out'[w] <= Len(outputs')) /\ out'[w] > Len(outputs')
    BY <1>2, <2>1, <2>2, <2>3
  <2>5. ~ConnAdmits(nr[w])
    BY <1>1, <1>5, <2>3, AdmitsFacts
  <2>6. ~ConnAdmits(nr[w])'
    BY <1>2, <2>5 DEF ConnAdmits
  <2>7. quiet' => Undisturbed(w)'
    BY <1>3, <2>1, <2>4, <2>6 DEF Undisturbed
  <2>8. "output" \in Labels
    BY DEF Labels
  <2> QED
    BY <1>1, <1>2, <2>1, <2>7, <2>8, TryOf
<1> QED
  BY <1>4, <1>5

\* A message ends: it has been delivered, or it is the first that was missed.
LEMMA TryEnd ==
  ASSUME TryInv, TypeInv', NEW w \in Writer, End(w)
  PROVE  TryInv'
<1>1. /\ TypeInv /\ TypeOK /\ missed <= 1 /\ missed \in Nat
      /\ quiet => Undisturbed(w)
  BY DEF TryInv, TypeInv, TypeOK, SecondTryDelivers, End
<1>2. /\ pc[w] = "output" /\ out[w] > Len(outputs)
      /\ pc' = [pc EXCEPT ![w] = "idle"] /\ Ended(nr[w])
      /\ UNCHANGED <<config, step, outputs, nr, level, up, Reconnect, innerWriter,
                     illNetFlag, quiet>>
  BY DEF End, Goto, callVars, connVars, netVars
<1>3. quiet => IF ConnAdmits(nr[w]) THEN Settled(nr[w]) ELSE missed = 1 => WillConnect
  BY <1>1, <1>2 DEF Undisturbed
<1>4. missed' <= 1 /\ (missed' = 1 => WillConnect')
  <2>1. CASE quiet /\ ConnAdmits(nr[w])
    <3>1. nr[w] \in delivered => missed' = 0
      BY <1>2, <2>1 DEF Ended
    <3>2. nr[w] \notin delivered => missed' = 1 /\ illNetFlag'
      BY <1>2, <1>3, <2>1 DEF Ended, Settled
    <3> QED
      BY <3>1, <3>2 DEF WillConnect
  <2>2. CASE quiet /\ ~ConnAdmits(nr[w])
    BY <1>1, <1>2, <1>3, <2>2 DEF Ended, WillConnect
  <2>3. CASE ~quiet
    BY <1>2, <2>3 DEF Ended
  <2> QED
    BY <2>1, <2>2, <2>3
<1>5. "idle" \in Labels
  BY DEF Labels
<1> QED
  BY <1>2, <1>4, <1>5, TryOf

\* A step of LogWrite of the network output never makes a message undisturbed.
LEMMA ConnQuiet ==
  ASSUME TypeOK, NEW w \in Writer, ConnLogWrite(w)
  PROVE  (quiet' => quiet) /\ (pc'[w] = "idle" => quiet' = quiet)
<1> USE DEF OnlyConn, histVars
<1>1. CASE needToConnectOnMsg(w)
  BY <1>1 DEF needToConnectOnMsg, ReadReconnect, ClearReconnect, NeedToConnect
<1>2. CASE connect(w)
  BY <1>2 DEF connect, HasWriter, CloseOld, CloseNil, Panic, Unset, Dial, DialFails
<1>3. CASE ClearFlag(w) \/ Defer(w) \/ DeferNil(w) \/ TestFlag(w)
  BY <1>3 DEF ClearFlag, Defer, DeferNil, Panic, TestFlag
<1>4. CASE Println(w)
  <2>1. /\ pc' = [pc EXCEPT ![w] = "return"] \/ pc' = [pc EXCEPT ![w] = "mark"]
        /\ quiet' => quiet
    BY <1>4 DEF Println, Goto
  <2>2. pc'[w] # "idle"
    BY <2>1 DEF TypeOK
  <2> QED
    BY <2>1, <2>2
<1>5. CASE PrintlnNil(w) \/ Mark(w) \/ Return(w)
  BY <1>5 DEF PrintlnNil, Panic, Mark, Return
<1> QED
  BY <1>1, <1>2, <1>3, <1>4, <1>5 DEF ConnLogWrite

\* A step that ends no message and leaves none undisturbed.
LEMMA TryDisturbed ==
  ASSUME TryInv, TypeInv', UNCHANGED step, quiet' = FALSE, missed' = 0
  PROVE  TryInv'
BY DEF TryInv, Alone, SecondTryDelivers

LEMMA TryNext == TryInv /\ [Next]_vars => TryInv'
<1> SUFFICES ASSUME TryInv, [Next]_vars PROVE TryInv'
  OBVIOUS
<1>0. TypeInv /\ TypeInv' /\ TypeOK /\ missed <= 1
  BY TypeNext DEF TryInv, TypeInv, SecondTryDelivers
<1>1. CASE SetLogger
  <2>1. UNCHANGED <<pc, quiet, missed>> /\ missed = 0 /\ AllIdle
    BY <1>0, <1>1 DEF SetLogger, TryInv, TypeInv, Configured, AllIdle, histVars
  <2>2. Alone'
    BY <2>1 DEF AllIdle, Alone
  <2>3. (quiet => \A v \in Writer : pc[v] # "idle" => Undisturbed(v))'
    BY <2>1 DEF AllIdle
  <2> QED
    BY <1>0, <2>1, <2>2, <2>3 DEF TryInv, SecondTryDelivers
<1>2. ASSUME NEW w \in Writer, Begin(w) PROVE TryInv'
  BY <1>0, <1>2, TryBegin
<1>3. ASSUME NEW w \in Writer, WriteText(w) PROVE TryInv'
  BY <1>0, <1>3, TryText
<1>4. ASSUME NEW w \in Writer, Send(w) PROVE TryInv'
  BY <1>0, <1>4, TrySend
<1>5. ASSUME NEW w \in Writer, End(w) PROVE TryInv'
  BY <1>0, <1>5, TryEnd
<1>6. ASSUME NEW w \in Writer, ConnLogWrite(w) PROVE TryInv'
  <2>1. /\ pc[w] \in ConnSteps /\ UNCHANGED step
        /\ \/ Moves(w, ConnSteps) /\ missed' = missed
           \/ pc' = [pc EXCEPT ![w] = "output"] /\ missed' = missed
           \/ pc' = [pc EXCEPT ![w] = "idle"] /\ Ended(nr[w])
    BY <1>6, ConnControl
  <2>2. /\ ConnSteps \subseteq Labels /\ {"idle", "output"} \subseteq Labels
        /\ "idle" \notin ConnSteps /\ pc[w] # "idle"
    BY <2>1 DEF Labels, ConnSteps
  <2>3. quiet' => quiet
    BY <1>0, <1>6, ConnQuiet DEF TypeOK
  <2>4. quiet' => pc'[w] # "idle" /\ Undisturbed(w)'
    BY <1>0, <1>6, <2>3, TryConn
  <2>5. CASE \E label \in Labels \ {"idle"} : pc' = [pc EXCEPT ![w] = label] /\ missed' = missed
    <3>1. PICK label \in Labels \ {"idle"} : pc' = [pc EXCEPT ![w] = label] /\ missed' = missed
      BY <2>5
    <3> QED
      BY <1>0, <2>1, <2>2, <2>3, <2>4, <3>1, TryOf
  <2>6. CASE pc' = [pc EXCEPT ![w] = "idle"] /\ Ended(nr[w])
    <3>1. ~quiet'
      BY <1>0, <2>4, <2>6 DEF TypeOK
    <3>2. ~quiet
      <4>1. pc'[w] = "idle"
        BY <1>0, <2>6 DEF TypeOK
      <4> QED
        BY <1>0, <1>6, <3>1, <4>1, ConnQuiet
    <3>3. missed' = 0
      BY <2>6, <3>2 DEF Ended
    <3>4. quiet' = FALSE
      BY <1>0, <3>1 DEF TypeInv, TypeOK
    <3> QED
      BY <1>0, <2>1, <3>3, <3>4, TryDisturbed
  <2> QED
    BY <2>1, <2>2, <2>5, <2>6 DEF Moves
<1>7. CASE PeerLost \/ Noticed \/ PeerBack
  BY <1>0, <1>7, TryDisturbed DEF PeerLost, Noticed, PeerBack, Disturbed
<1>8. CASE UNCHANGED vars
  <2>1. /\ UNCHANGED <<config, step, outputs, pc, out, nr, level, innerWriter, Reconnect,
                       illNetFlag, conns, up, delivered, quiet, missed>>
    BY <1>8 DEF vars, callVars, connVars, netVars, histVars
  <2>2. Alone' /\ AllIdle' = AllIdle /\ WillConnect' = WillConnect
    BY <2>1 DEF TryInv, Alone, AllIdle, WillConnect
  <2>3. ASSUME NEW v \in Writer PROVE Undisturbed(v)' = Undisturbed(v)
    BY <2>1 DEF Undisturbed, WillConnect, Ready, Settled, ConnAdmits
  <2> QED
    BY <1>0, <2>1, <2>2, <2>3 DEF TryInv, SecondTryDelivers
<1> QED
  BY <1>1, <1>2, <1>3, <1>4, <1>5, <1>6, <1>7, <1>8 DEF Next, LogWrite

\* Whatever several goroutines have done to the fields of the network output
\* that no lock guards, one that logs alone while a log server can be reached
\* misses at most one message: innerWriter, illNetFlag and Reconnect are then
\* such that the next LogWrite connects.
THEOREM LoggerSecondTryDelivers == Spec => []SecondTryDelivers
<1>1. TryInv => SecondTryDelivers
  BY DEF TryInv
<1> QED
  BY <1>1, TryInit, TryNext, PTL DEF Spec
=============================================================================
