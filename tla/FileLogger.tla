------------------------------ MODULE FileLogger ------------------------------
(***************************************************************************)
(* The file output of logger/file.go: LogWrite in every goroutine that      *)
(* logs, the rotation by lines, by size and by day, the walk that deletes   *)
(* old files, midnight, and a restart of the process.  The three sections   *)
(* of LogWrite under the RWMutex (check; check again and rotate; write) are *)
(* one action each: between them other goroutines come in.                 *)
(***************************************************************************)
EXTENDS Integers, FiniteSetsExt

CONSTANTS
  Writer,     \* the goroutines that log
  MaxLines,   \* option maxlines; 0: no limit
  MaxSize,    \* option maxsize, in units of Sizes; 0: no limit
  Daily,      \* option daily
  MaxDays,    \* option maxdays; -1: nothing is deleted
  MaxNum,     \* greatest number of an old file: 999
  Month,      \* days until a day of the month comes back
  Sizes,      \* the sizes of messages
  LastDay,    \* bound: the last day
  MaxMessages,\* bound: how many messages are logged
  MaxFaults   \* bound: how many operations of the file system fail

ASSUME MaxLinesAssumption == MaxLines \in Nat
ASSUME MaxSizeAssumption == MaxSize \in Nat
ASSUME MonthAssumption == Month \in Nat \ {0, 1}
ASSUME MaxDaysAssumption == MaxDays \in Nat \union {-1}
ASSUME SizesAssumption == Sizes \subseteq Nat /\ Sizes # {}
ASSUME LastDayAssumption == LastDay \in Nat \ {0}
ASSUME WriterAssumption == IsFiniteSet(Writer)

Days == 1 .. LastDay
Message == [nr : Nat, stamp : Days, size : Sizes]

\* A file: its lines and the day it was last written.
NoFile == [lines |-> {}, mtime |-> 0]
Exists(file) == file.mtime > 0

\* Old files are called name.<date>.<num>.log.
Name == [date : Days, num : 1 .. MaxNum]

VARIABLES
  appendOption,      \* option append of the configuration: never changed
  pc,                \* where each goroutine is in LogWrite
  msg,               \* the message it logs
  active,            \* the file that is called Filename
  archive,           \* the old files
  fileWriter,        \* "open" on the active file, "closed", or "unlinked":
                     \* open on a file that has been deleted
  maxLinesCurLines, maxSizeCurSize,
  dailyOpenTime,     \* the day of dailyOpenTime; dailyOpenDate is its Day
  walking,           \* a goroutine runs deleteOldLog
  today,             \* the day of the clock
  messages, faults   \* how many there were

\* History variables.
VARIABLES
  written,    \* messages whose LogWrite returned no error
  failures,   \* the kinds of failures rotations met
  failed      \* how many rotations failed

fileVars == <<active, archive, fileWriter, maxLinesCurLines, maxSizeCurSize,
              dailyOpenTime>>
vars == <<appendOption, pc, msg, fileVars, walking, today, messages, faults,
          written, failures, failed>>

File == [lines : SUBSET Message, mtime : Days] \union {NoFile}
Failure == {"number", "rename", "open", "stat", "lines"}

TypeOK ==
  /\ appendOption \in BOOLEAN
  /\ pc \in [Writer -> {"idle", "check", "rotate", "write"}]
  /\ msg \in [Writer -> Message]
  /\ active \in File
  /\ archive \in [Name -> File]
  /\ fileWriter \in {"open", "closed", "unlinked"}
  /\ maxLinesCurLines \in Nat
  /\ maxSizeCurSize \in Nat
  /\ dailyOpenTime \in Days
  /\ walking \in BOOLEAN
  /\ today \in Days
  /\ messages \in Nat
  /\ faults \in Nat
  /\ written \subseteq Message
  /\ failures \subseteq Failure
  /\ failed \in Nat

\* After Init of the logger, on a file that did not exist; append is FALSE if
\* the configuration leaves it out.
Init ==
  /\ appendOption \in BOOLEAN
  /\ pc = [w \in Writer |-> "idle"]
  /\ msg = [w \in Writer |->
              [nr |-> 0, stamp |-> 1, size |-> CHOOSE s \in Sizes : TRUE]]
  /\ active = [lines |-> {}, mtime |-> 1]
  /\ archive = [n \in Name |-> NoFile]
  /\ fileWriter = "open"
  /\ maxLinesCurLines = 0
  /\ maxSizeCurSize = 0
  /\ dailyOpenTime = 1
  /\ walking = FALSE
  /\ today = 1
  /\ messages = 0
  /\ faults = 0
  /\ written = {}
  /\ failures = {}
  /\ failed = 0

-----------------------------------------------------------------------------
Goto(w, label) == pc' = [pc EXCEPT ![w] = label]

\* time.Time.Day: the day of the month.
Day(d) == d % Month

SizeOf(lines) == MapThenSumSet(LAMBDA m : m.size, lines)

needCreateFresh(m) ==
  \/ MaxLines > 0 /\ maxLinesCurLines >= MaxLines
  \/ MaxSize > 0 /\ maxSizeCurSize + m.size >= MaxSize
  \/ Daily /\ Day(m.stamp) # Day(dailyOpenTime)

\* Bug (never part of Next, like the others below): the file is not read.
newFileUncounted(file, writer, kind) ==
  LET opened == IF Exists(file) THEN file ELSE [lines |-> {}, mtime |-> today]
  IN  /\ active' = IF kind = "open" THEN file ELSE opened
      /\ fileWriter' = IF kind = "open" THEN writer ELSE "open"
      /\ maxLinesCurLines' = 0
      /\ maxSizeCurSize' = SizeOf(opened.lines)
      /\ dailyOpenTime' = today

\* Bug: the result of lines is stored before its error is looked at.
newFileMinusOne(file, writer, kind) ==
  /\ active' = IF Exists(file) THEN file ELSE [lines |-> {}, mtime |-> today]
  /\ fileWriter' = "open"
  /\ maxLinesCurLines' = IF kind = "lines" THEN -1 ELSE Cardinality(file.lines)
  /\ maxSizeCurSize' = SizeOf(file.lines)
  /\ dailyOpenTime' = today

\* newFile on what Filename stands for; writer is the state of fileWriter so
\* far, kind "none" or the operation that fails.  The counters are those of
\* the file that is there, unless they cannot be read.
newFile(file, writer, kind) ==
  LET opened == IF Exists(file) THEN file ELSE [lines |-> {}, mtime |-> today]
  IN  \/ /\ kind = "open"
         /\ active' = file
         /\ fileWriter' = writer
         /\ UNCHANGED <<maxLinesCurLines, maxSizeCurSize, dailyOpenTime>>
      \/ /\ kind = "stat"
         /\ active' = opened
         /\ fileWriter' = "open"
         /\ UNCHANGED <<maxLinesCurLines, maxSizeCurSize, dailyOpenTime>>
      \/ /\ kind \in {"lines", "none"}
         /\ kind = "lines" => opened.lines # {}
         /\ active' = opened
         /\ fileWriter' = "open"
         /\ maxLinesCurLines' = IF kind = "lines" THEN 0
                                ELSE Cardinality(opened.lines)
         /\ maxSizeCurSize' = SizeOf(opened.lines)
         /\ dailyOpenTime' = today

\* Bug: always the day of the message.
RotateDateOfMessage(m) == m.stamp

\* The date in the name of the old file: the day it was opened if the message
\* is of another day, and else the day of the message.
RotateDate(m) ==
  IF Day(dailyOpenTime) # Day(m.stamp) THEN dailyOpenTime ELSE m.stamp

\* Bug: names that are taken are free.
AnyNames(date) == {n \in Name : n.date = date}

FreeNames(date) == {n \in Name : n.date = date /\ ~Exists(archive[n])}

\* The end of createFreshFile, after the failures so far: newFile, which may
\* fail as well, and the goroutine that deletes old files.
Restarted(file, writer, soFar) ==
  \E kind \in {"none", "open", "stat", "lines"} :
    LET kinds == soFar \union ({kind} \ {"none"})
    IN  /\ faults + Cardinality(kinds) <= MaxFaults
        /\ faults' = faults + Cardinality(kinds)
        /\ newFile(file, writer, kind)
        /\ failures' = failures \union kinds
        /\ failed' = IF kinds = {} THEN failed ELSE failed + 1
        /\ walking' = TRUE

\* No number is free: the full file stays as it is.
NoNumber(m) ==
  /\ Exists(active)
  /\ FreeNames(RotateDate(m)) = {}
  /\ failures' = failures \union {"number"}
  /\ failed' = failed + 1
  /\ UNCHANGED <<fileVars, walking, faults>>

\* Filename does not exist: there is nothing to rename.
Gone ==
  /\ ~Exists(active)
  /\ Restarted(NoFile, fileWriter, {})
  /\ UNCHANGED archive

\* The file is closed, renamed to the least free number, and a new one opened.
Renamed(m) ==
  /\ Exists(active)
  /\ \E n \in FreeNames(RotateDate(m)) :
       /\ \A k \in FreeNames(RotateDate(m)) : n.num <= k.num
       /\ archive' = [archive EXCEPT ![n] = active]
  /\ Restarted(NoFile, "closed", {})

\* Renaming fails: the same file is opened again.
NotRenamed(m) ==
  /\ Exists(active)
  /\ FreeNames(RotateDate(m)) # {}
  /\ Restarted(active, "closed", {"rename"})
  /\ UNCHANGED archive

createFreshFile(m) == NoNumber(m) \/ Gone \/ Renamed(m) \/ NotRenamed(m)

-----------------------------------------------------------------------------
(* LogWrite.                                                               *)

histVars == <<written, failures, failed>>

\* Bug: the option append is not looked at.
BeginUnguarded(w) ==
  /\ pc[w] = "idle"
  /\ messages < MaxMessages
  /\ messages' = messages + 1
  /\ \E s \in Sizes :
       msg' = [msg EXCEPT ![w] = [nr |-> messages + 1, stamp |-> today, size |-> s]]
  /\ Goto(w, "check")
  /\ UNCHANGED <<fileVars, walking, today, faults, histVars>>

\* The level is admitted, and the message has the time it was logged at.
\* Without the option append no file is ever full.
Begin(w) ==
  /\ pc[w] = "idle"
  /\ messages < MaxMessages
  /\ messages' = messages + 1
  /\ \E s \in Sizes :
       msg' = [msg EXCEPT ![w] = [nr |-> messages + 1, stamp |-> today, size |-> s]]
  /\ Goto(w, IF appendOption THEN "check" ELSE "write")
  /\ UNCHANGED <<fileVars, walking, today, faults, histVars>>

\* Bug: a full file is noticed one line late.
CheckLate(w) ==
  /\ pc[w] = "check"
  /\ Goto(w, IF needCreateFresh(msg[w]) /\ maxLinesCurLines # MaxLines
             THEN "rotate" ELSE "write")
  /\ UNCHANGED <<msg, fileVars, walking, today, messages, faults, histVars>>

\* Under the read lock.
Check(w) ==
  /\ pc[w] = "check"
  /\ Goto(w, IF needCreateFresh(msg[w]) THEN "rotate" ELSE "write")
  /\ UNCHANGED <<msg, fileVars, walking, today, messages, faults, histVars>>

\* Under the write lock: another goroutine has rotated the file already.
Rechecked(w) ==
  /\ pc[w] = "rotate"
  /\ ~needCreateFresh(msg[w])
  /\ Goto(w, "write")
  /\ UNCHANGED <<msg, fileVars, walking, today, messages, faults, histVars>>

\* Under the write lock.  An error is printed, and the message is written.
Rotate(w) ==
  /\ pc[w] = "rotate"
  /\ needCreateFresh(msg[w])
  /\ createFreshFile(msg[w])
  /\ Goto(w, "write")
  /\ UNCHANGED <<msg, today, messages, written>>

\* Under the write lock, in a section of its own.
Write(w) ==
  /\ pc[w] = "write"
  /\ fileWriter # "closed"
  /\ active' = IF fileWriter = "open"
               THEN [lines |-> active.lines \union {msg[w]}, mtime |-> today]
               ELSE active
  /\ maxLinesCurLines' = maxLinesCurLines + 1
  /\ maxSizeCurSize' = maxSizeCurSize + msg[w].size
  /\ written' = written \union {msg[w]}
  /\ Goto(w, "idle")
  /\ UNCHANGED <<msg, archive, fileWriter, dailyOpenTime, walking, today,
                 messages, faults, failures, failed>>

\* The file is closed, or the disk is full: LogWrite returns the error.
WriteFails(w) ==
  /\ pc[w] = "write"
  /\ \/ fileWriter = "closed" /\ UNCHANGED faults
     \/ fileWriter # "closed" /\ faults < MaxFaults /\ faults' = faults + 1
  /\ Goto(w, "idle")
  /\ UNCHANGED <<msg, fileVars, walking, today, messages, histVars>>

LogWrite(w) ==
  Begin(w) \/ Check(w) \/ Rechecked(w) \/ Rotate(w) \/ Write(w) \/ WriteFails(w)

-----------------------------------------------------------------------------
(* deleteOldLog, the clock, and a restart.                                 *)

Files == {active} \union {archive[n] : n \in Name}

\* A file whose last write is more than MaxDays days ago is removed, and one
\* that was written exactly so many days before may be.
MayExpire(file) == Exists(file) /\ file.mtime + MaxDays <= today
MustExpire(file) == Exists(file) /\ file.mtime + MaxDays < today

deleteOldLog ==
  /\ walking
  /\ walking' = FALSE
  /\ IF MaxDays = -1 THEN UNCHANGED fileVars
     ELSE \E D \in SUBSET {f \in Files : MayExpire(f)} :
            /\ \A f \in Files : MustExpire(f) => f \in D
            /\ active' = IF active \in D THEN NoFile ELSE active
            /\ fileWriter' = IF active \in D /\ fileWriter = "open"
                             THEN "unlinked" ELSE fileWriter
            /\ archive' = [n \in Name |->
                             IF archive[n] \in D THEN NoFile ELSE archive[n]]
            /\ UNCHANGED <<maxLinesCurLines, maxSizeCurSize, dailyOpenTime>>
  /\ UNCHANGED <<pc, msg, today, messages, faults, histVars>>

\* Midnight.  A walk is over by then, and no goroutine needs as long as a
\* month for one message.
Tick ==
  /\ today < LastDay
  /\ ~walking
  /\ \A w \in Writer : pc[w] # "idle" => today + 1 < msg[w].stamp + Month
  /\ today' = today + 1
  /\ UNCHANGED <<pc, msg, fileVars, walking, messages, faults, histVars>>

\* The process dies, and its successor goes on with the file that is there.
Restart ==
  /\ pc' = [w \in Writer |-> "idle"]
  /\ newFile(active, "closed", "none")
  /\ walking' = FALSE
  /\ UNCHANGED <<msg, archive, today, messages, faults, histVars>>

Next ==
  /\ \/ \E w \in Writer : LogWrite(w)
     \/ deleteOldLog
     \/ Tick
     \/ Restart
  /\ UNCHANGED appendOption

Spec == Init /\ [][Next]_vars

-----------------------------------------------------------------------------
(* Properties.                                                             *)

Existing == {f \in Files : Exists(f)}

\* Whenever the file is open, the counters are the lines and the bytes it
\* holds: after a rotation, after one that could not rename the file, after a
\* restart, and with lines that were let through before it rotated.
CountersAgree ==
  failures \intersect {"stat", "lines"} = {} /\ fileWriter = "open" =>
    /\ maxLinesCurLines = Cardinality(active.lines)
    /\ maxSizeCurSize = SizeOf(active.lines)

\* maxlines is exceeded, but by no more than the other goroutines between
\* their check and their write, and a line for every rotation that failed.
\* Without the option append there is no limit.
LinesBounded ==
  appendOption /\ MaxLines > 0 /\ failures \intersect {"stat", "lines"} = {} =>
    \A f \in Files :
      Cardinality(f.lines) <= MaxLines + Cardinality(Writer) - 1 + failed

\* A line whose LogWrite returned no error is in the active file or in an old
\* one, until a walk removes it after MaxDays days: no rotation overwrites an
\* old file, and the walk does not reach the file that is being written, unless
\* renaming failed.
WrittenIsKept ==
  "rename" \notin failures =>
    \A m \in written :
      \/ \E f \in Files : m \in f.lines
      \/ MaxDays # -1 /\ m.stamp + MaxDays <= today

\* Without the option append (README.md:64-66 of the logger: the limits count
\* only with it) the active file grows, and whatever day it is and however full
\* it is, no line that LogWrite accepted leaves it, restarts included.
KeptWithoutAppend == ~appendOption => written \subseteq active.lines

\* The date in the name of an old file, and the day the active file was
\* opened, is not before that of any of its lines; unless that is a month
\* earlier, since only the day of the month is compared.  Without the option
\* append a file goes on over midnight.
NoLineIsNewer ==
  appendOption /\ Daily /\ failures \intersect {"number", "stat"} = {} =>
    /\ \A m \in active.lines :
         m.stamp <= dailyOpenTime \/ Day(m.stamp) = Day(dailyOpenTime)
    /\ \A n \in Name : \A m \in archive[n].lines :
         m.stamp <= n.date \/ Day(m.stamp) = Day(n.date)
=============================================================================
