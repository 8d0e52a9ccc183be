--------------------------- MODULE FileLoggerProofs ---------------------------
(***************************************************************************)
(* The file output of the logger for any number of goroutines, any limits, *)
(* any sizes of messages and any length of a month: its counters, the      *)
(* lines of a file, what a walk may delete and the dates of old files.     *)
(***************************************************************************)
EXTENDS FileLogger, FiniteSums, TLAPS

\* The files hold finitely many lines.
FilesFinite ==
  /\ IsFiniteSet(active.lines)
  /\ \A n \in Name : IsFiniteSet(archive[n].lines)

TypeInv == TypeOK /\ FilesFinite

-----------------------------------------------------------------------------
(* Sizes, files and what newFile and createFreshFile do to them.           *)

MessageSize == [m \in Message |-> m.size]

\* The size of a file is the sum of those of its messages.
LEMMA SizeIsSum ==
  ASSUME NEW lines \in SUBSET Message, IsFiniteSet(lines)
  PROVE  SizeOf(lines) = Sum(MessageSize, lines)
<1> DEFINE Fold(it) == it = [s \in SUBSET lines |->
                               IF s = {} THEN 0 ELSE Pick(s).size + it[s \ {Pick(s)}]]
<1>1. SizeOf(lines) = (CHOOSE it : Fold(it))[lines]
  BY DEF SizeOf, MapThenSumSet, MapThenFoldSet, Pick
<1>2. Sum(MessageSize, lines) = (CHOOSE it : Folding(it, MessageSize, lines))[lines]
  BY DEF Sum
<1>3. ASSUME NEW it
      PROVE  Fold(it) <=> Folding(it, MessageSize, lines)
  <2>1. \A s \in SUBSET lines : s # {} => Pick(s).size = MessageSize[Pick(s)]
    BY PickIn DEF MessageSize
  <2>2. [s \in SUBSET lines |->
           IF s = {} THEN 0 ELSE Pick(s).size + it[s \ {Pick(s)}]]
        = [s \in SUBSET lines |->
             IF s = {} THEN 0 ELSE MessageSize[Pick(s)] + it[s \ {Pick(s)}]]
    BY <2>1
  <2> QED
    BY <2>2 DEF Folding
<1>4. \E it : Folding(it, MessageSize, lines)
  BY FoldingExists
<1> HIDE DEF Fold
<1>5. Fold(CHOOSE it : Fold(it))
  BY <1>3, <1>4
<1>6. Folding(CHOOSE it : Fold(it), MessageSize, lines)
  BY <1>3, <1>5
<1>7. Folding(CHOOSE it : Folding(it, MessageSize, lines), MessageSize, lines)
  BY <1>4
<1>8. (CHOOSE it : Fold(it)) = (CHOOSE it : Folding(it, MessageSize, lines))
  BY <1>6, <1>7, FoldingUnique
<1> QED
  BY <1>1, <1>2, <1>8

\* A size is a number, that of an empty file is 0, and a line adds its own.
LEMMA SizeFacts ==
  /\ SizeOf({}) = 0
  /\ \A lines \in SUBSET Message : IsFiniteSet(lines) =>
       /\ SizeOf(lines) \in Nat
       /\ \A m \in Message \ lines : SizeOf(lines \union {m}) = SizeOf(lines) + m.size
<1>1. \A m \in Message : MessageSize[m] \in Nat /\ MessageSize[m] = m.size
  BY SizesAssumption DEF MessageSize, Message
<1>2. SizeOf({}) = 0
  BY SizeIsSum, SumEmpty, FS_EmptySet
<1>3. ASSUME NEW lines \in SUBSET Message, IsFiniteSet(lines)
      PROVE  SizeOf(lines) \in Nat
  BY <1>1, <1>3, SizeIsSum, SumType
<1>4. ASSUME NEW lines \in SUBSET Message, IsFiniteSet(lines), NEW m \in Message \ lines
      PROVE  SizeOf(lines \union {m}) = SizeOf(lines) + m.size
  <2>1. IsFiniteSet(lines \union {m}) /\ lines \union {m} \in SUBSET Message
    BY <1>4, FS_AddElement
  <2>2. Sum(MessageSize, lines \union {m}) = Sum(MessageSize, lines) + MessageSize[m]
    BY <1>1, <1>4, <2>1, SumAdd
  <2> QED
    BY <1>1, <1>4, <2>1, <2>2, SizeIsSum
<1> QED
  BY <1>2, <1>3, <1>4

\* A file that does not exist has no lines.
LEMMA FileFacts ==
  ASSUME NEW file \in File
  PROVE  /\ file.lines \subseteq Message
         /\ file.mtime \in Nat
         /\ ~Exists(file) => file = NoFile /\ file.lines = {} /\ file.mtime = 0
         /\ Exists(file) => file.mtime \in Days
  BY LastDayAssumption DEF File, NoFile, Exists, Days

\* What newFile does: the lines of the file stay, and unless it fails the
\* counters are those of the file.
LEMMA NewFile ==
  ASSUME today \in Days, NEW file \in File, IsFiniteSet(file.lines),
         NEW writer, NEW kind, newFile(file, writer, kind)
  PROVE  /\ kind \in {"none", "open", "stat", "lines"}
         /\ active' \in File /\ active'.lines = file.lines
         /\ active' = file \/ (file.mtime = 0 /\ active'.mtime = today)
         /\ kind = "open" =>
              /\ active' = file /\ fileWriter' = writer
              /\ UNCHANGED <<maxLinesCurLines, maxSizeCurSize, dailyOpenTime>>
         /\ kind # "open" => fileWriter' = "open" /\ Exists(active)'
         /\ kind = "stat" =>
              UNCHANGED <<maxLinesCurLines, maxSizeCurSize, dailyOpenTime>>
         /\ kind \in {"none", "lines"} =>
              /\ maxLinesCurLines' \in {0, Cardinality(file.lines)}
              /\ maxSizeCurSize' \in Nat
              /\ dailyOpenTime' = today
         /\ kind = "none" =>
              /\ maxLinesCurLines' = Cardinality(file.lines)
              /\ maxSizeCurSize' = SizeOf(file.lines)
<1> DEFINE opened == IF Exists(file) THEN file ELSE [lines |-> {}, mtime |-> today]
<1>1. /\ opened \in File /\ opened.lines = file.lines /\ Exists(opened)
      /\ opened = file \/ (file.mtime = 0 /\ opened.mtime = today)
  BY FileFacts DEF File, Exists, Days
<1>2. SizeOf(opened.lines) \in Nat
  BY <1>1, FileFacts, SizeFacts
<1>3. kind \in {"none", "open", "stat", "lines"}
  BY DEF newFile
<1>4. CASE kind = "open"
  BY <1>4 DEF newFile
<1>5. CASE kind = "stat"
  BY <1>1, <1>5 DEF newFile
<1>6. CASE kind \in {"none", "lines"}
  <2>1. /\ active' = opened /\ fileWriter' = "open" /\ dailyOpenTime' = today
        /\ maxLinesCurLines' = IF kind = "lines" THEN 0 ELSE Cardinality(opened.lines)
        /\ maxSizeCurSize' = SizeOf(opened.lines)
    BY <1>6 DEF newFile
  <2> QED
    BY <1>1, <1>2, <1>6, <2>1 DEF Exists
<1> QED
  BY <1>3, <1>4, <1>5, <1>6

\* How a rotation ends: newFile succeeds, or fails in one of three ways.
LEMMA Restarting ==
  ASSUME TypeOK, NEW file, NEW writer, NEW soFar \in {{}, {"rename"}},
         Restarted(file, writer, soFar)
  PROVE  \E kind \in {"none", "open", "stat", "lines"} :
           /\ newFile(file, writer, kind)
           /\ failures' = failures \union soFar \union ({kind} \ {"none"})
           /\ failures' \subseteq Failure
           /\ failed' \in {failed, failed + 1}
           /\ soFar # {} => failed' = failed + 1
           /\ walking' = TRUE
           /\ faults' \in Nat
<1>1. PICK kind \in {"none", "open", "stat", "lines"} :
        /\ faults' = faults + Cardinality(soFar \union ({kind} \ {"none"}))
        /\ newFile(file, writer, kind)
        /\ failures' = failures \union (soFar \union ({kind} \ {"none"}))
        /\ failed' = IF soFar \union ({kind} \ {"none"}) = {} THEN failed ELSE failed + 1
        /\ walking' = TRUE
  BY DEF Restarted
<1> DEFINE kinds == soFar \union ({kind} \ {"none"})
<1>2. kinds \subseteq Failure /\ (soFar # {} => kinds # {})
  BY DEF Failure
<1>3. Cardinality(kinds) \in Nat
  <2>1. IsFiniteSet({kind} \union {"rename"})
    BY FS_Singleton, FS_AddElement
  <2>2. kinds \subseteq {kind} \union {"rename"}
    OBVIOUS
  <2> HIDE DEF kinds
  <2> QED
    BY <2>1, <2>2, FS_Subset, FS_CardinalityType
<1>4. faults' \in Nat
  <2>1. faults' = faults + Cardinality(kinds)
    BY <1>1
  <2> HIDE DEF kinds
  <2> QED
    BY <1>3, <2>1 DEF TypeOK
<1>5. failures' \subseteq Failure
  <2>1. failures' = failures \union kinds
    BY <1>1
  <2> HIDE DEF kinds
  <2> QED
    BY <1>2, <2>1 DEF TypeOK
<1>6. failures' = failures \union soFar \union ({kind} \ {"none"})
  BY <1>1
<1>7. failed' \in {failed, failed + 1} /\ (soFar # {} => failed' = failed + 1)
  BY <1>1, <1>2
<1> QED
  BY <1>1, <1>4, <1>5, <1>6, <1>7

\* What a rotation does: it finds no number, or opens a file: a new one after
\* the old one is gone or renamed, or the same one after renaming has failed.
LEMMA Rotation ==
  ASSUME TypeOK, NEW w \in Writer, Rotate(w)
  PROVE  /\ pc[w] = "rotate" /\ pc' = [pc EXCEPT ![w] = "write"]
         /\ UNCHANGED <<msg, today, messages, written>>
         /\ failures \subseteq failures' /\ failures' \subseteq Failure
         /\ faults' \in Nat
         /\ \/ /\ failures' = failures \union {"number"} /\ failed' = failed + 1
               /\ UNCHANGED <<fileVars, walking, faults>>
            \/ \E kind \in {"none", "open", "stat", "lines"} :
                 /\ walking' = TRUE
                 /\ kind = "none" \/ kind \in failures'
                 /\ \/ /\ ~Exists(active) /\ newFile(NoFile, fileWriter, kind)
                       /\ UNCHANGED archive
                       /\ failed' \in {failed, failed + 1}
                    \/ /\ Exists(active) /\ newFile(NoFile, "closed", kind)
                       /\ \E n \in FreeNames(RotateDate(msg[w])) :
                            archive' = [archive EXCEPT ![n] = active]
                       /\ failed' \in {failed, failed + 1}
                    \/ /\ Exists(active) /\ newFile(active, "closed", kind)
                       /\ UNCHANGED archive
                       /\ failed' = failed + 1 /\ "rename" \in failures'
<1>1. /\ pc[w] = "rotate" /\ pc' = [pc EXCEPT ![w] = "write"]
      /\ UNCHANGED <<msg, today, messages, written>>
      /\ createFreshFile(msg[w])
  BY DEF Rotate, Goto
<1>2. CASE NoNumber(msg[w])
  BY <1>1, <1>2 DEF NoNumber, Failure, TypeOK
<1>3. CASE Gone
  <2>1. ~Exists(active) /\ UNCHANGED archive /\ Restarted(NoFile, fileWriter, {})
    BY <1>3 DEF Gone
  <2>2. PICK kind \in {"none", "open", "stat", "lines"} :
          /\ newFile(NoFile, fileWriter, kind)
          /\ failures' = failures \union {} \union ({kind} \ {"none"})
          /\ failures' \subseteq Failure
          /\ failed' \in {failed, failed + 1}
          /\ walking' = TRUE /\ faults' \in Nat
    BY <2>1, Restarting
  <2>3. failures \subseteq failures' /\ (kind = "none" \/ kind \in failures')
    BY <2>2
  <2> QED
    BY <1>1, <2>1, <2>2, <2>3
<1>4. CASE Renamed(msg[w])
  <2>1. Exists(active) /\ Restarted(NoFile, "closed", {})
    BY <1>4 DEF Renamed
  <2>4. \E n \in FreeNames(RotateDate(msg[w])) : archive' = [archive EXCEPT ![n] = active]
    BY <1>4 DEF Renamed
  <2>2. PICK kind \in {"none", "open", "stat", "lines"} :
          /\ newFile(NoFile, "closed", kind)
          /\ failures' = failures \union {} \union ({kind} \ {"none"})
          /\ failures' \subseteq Failure
          /\ failed' \in {failed, failed + 1}
          /\ walking' = TRUE /\ faults' \in Nat
    BY <2>1, Restarting
  <2>3. failures \subseteq failures' /\ (kind = "none" \/ kind \in failures')
    BY <2>2
  <2> QED
    BY <1>1, <2>1, <2>2, <2>3, <2>4
<1>5. CASE NotRenamed(msg[w])
  <2>1. /\ Exists(active) /\ Restarted(active, "closed", {"rename"})
        /\ UNCHANGED archive
    BY <1>5 DEF NotRenamed
  <2>2. PICK kind \in {"none", "open", "stat", "lines"} :
          /\ newFile(active, "closed", kind)
          /\ failures' = failures \union {"rename"} \union ({kind} \ {"none"})
          /\ failures' \subseteq Failure
          /\ failed' = failed + 1
          /\ walking' = TRUE /\ faults' \in Nat
    BY <2>1, Restarting
  <2>3. /\ failures \subseteq failures' /\ "rename" \in failures'
        /\ kind = "none" \/ kind \in failures'
    BY <2>2
  <2> QED
    BY <1>1, <2>1, <2>2, <2>3
<1> QED
  BY <1>1, <1>2, <1>3, <1>4, <1>5 DEF createFreshFile

\* A walk leaves files as they are, or removes them.
LEMMA Walk ==
  ASSUME TypeOK, deleteOldLog
  PROVE  /\ UNCHANGED <<pc, msg, today, messages, faults, histVars>>
         /\ UNCHANGED <<maxLinesCurLines, maxSizeCurSize, dailyOpenTime>>
         /\ walking /\ walking' = FALSE
         /\ \/ active' = active /\ fileWriter' = fileWriter
            \/ /\ MaxDays # -1 /\ MayExpire(active)
               /\ active' = NoFile
               /\ fileWriter' = IF fileWriter = "open" THEN "unlinked" ELSE fileWriter
         /\ archive' \in [Name -> File]
         /\ \A n \in Name : \/ archive'[n] = archive[n]
                            \/ MaxDays # -1 /\ MayExpire(archive[n]) /\ archive'[n] = NoFile
<1>1. CASE MaxDays = -1
  BY <1>1 DEF deleteOldLog, fileVars, TypeOK
<1>2. CASE MaxDays # -1
  <2>1. PICK D \in SUBSET {f \in Files : MayExpire(f)} :
          /\ active' = IF active \in D THEN NoFile ELSE active
          /\ fileWriter' = IF active \in D /\ fileWriter = "open"
                           THEN "unlinked" ELSE fileWriter
          /\ archive' = [n \in Name |-> IF archive[n] \in D THEN NoFile ELSE archive[n]]
          /\ UNCHANGED <<maxLinesCurLines, maxSizeCurSize, dailyOpenTime>>
    BY <1>2 DEF deleteOldLog
  <2>2. archive' \in [Name -> File]
    BY <2>1 DEF TypeOK, File
  <2> QED
    BY <1>2, <2>1, <2>2 DEF deleteOldLog
<1> QED
  BY <1>1, <1>2

-----------------------------------------------------------------------------
(* Type correctness.                                                       *)

\* The initial state is well typed.
LEMMA TypeInit == Init => TypeInv
<1> SUFFICES ASSUME Init PROVE TypeInv
  OBVIOUS
<1>1. msg \in [Writer -> Message]
  BY SizesAssumption, LastDayAssumption DEF Init, Message, Days
<1>2. active \in File /\ archive \in [Name -> File] /\ 1 \in Days
  BY LastDayAssumption DEF Init, File, Days
<1>3. FilesFinite
  BY FS_EmptySet DEF Init, FilesFinite, NoFile
<1> QED
  BY <1>1, <1>2, <1>3 DEF Init, TypeInv, TypeOK

\* A rotation keeps the state well typed.
LEMMA TypeRotate ==
  ASSUME TypeInv, UNCHANGED appendOption, NEW w \in Writer, Rotate(w)
  PROVE  TypeInv'
<1>0. TypeOK
  BY DEF TypeInv
<1>1. /\ pc' \in [Writer -> {"idle", "check", "rotate", "write"}]
      /\ msg' \in [Writer -> Message]
      /\ today' \in Days /\ messages' \in Nat /\ written' \subseteq Message
      /\ failures' \subseteq Failure /\ faults' \in Nat
  <2>1. /\ pc' = [pc EXCEPT ![w] = "write"]
        /\ UNCHANGED <<msg, today, messages, written>>
        /\ failures' \subseteq Failure /\ faults' \in Nat
    BY <1>0, Rotation
  <2> QED
    BY <1>0, <2>1 DEF TypeOK
<1>2. failed' \in Nat /\ walking' \in BOOLEAN
  <2>1. failed' \in {failed, failed + 1}
    BY <1>0, Rotation
  <2>2. failed' \in Nat
    BY <1>0, <2>1 DEF TypeOK
  <2>3. walking' = walking \/ walking' = TRUE
    BY <1>0, Rotation
  <2>4. walking' \in BOOLEAN
    BY <1>0, <2>3, Zenon DEF TypeOK
  <2> QED
    BY <2>2, <2>4
<1>3. CASE UNCHANGED fileVars
  BY <1>1, <1>2, <1>3 DEF TypeInv, TypeOK, FilesFinite, fileVars
<1>4. ASSUME NEW file \in File, IsFiniteSet(file.lines),
             NEW writer \in {"open", "closed", "unlinked"}, NEW kind,
             newFile(file, writer, kind),
             archive' \in [Name -> File], \A n \in Name : IsFiniteSet(archive'[n].lines)
      PROVE  TypeInv'
  <2>1. today \in Days /\ Cardinality(file.lines) \in Nat
    BY <1>4, FS_CardinalityType DEF TypeInv, TypeOK
  <2>2. /\ active' \in File /\ IsFiniteSet(active'.lines)
        /\ fileWriter' \in {"open", "closed", "unlinked"}
        /\ maxLinesCurLines' \in Nat /\ maxSizeCurSize' \in Nat
        /\ dailyOpenTime' \in Days
    BY <1>4, <2>1, NewFile DEF TypeInv, TypeOK
  <2> QED
    BY <1>1, <1>2, <1>4, <2>2 DEF TypeInv, TypeOK, FilesFinite
<1>5. /\ NoFile \in File /\ IsFiniteSet(NoFile.lines)
      /\ active \in File /\ IsFiniteSet(active.lines)
      /\ fileWriter \in {"open", "closed", "unlinked"}
      /\ archive \in [Name -> File] /\ \A n \in Name : IsFiniteSet(archive[n].lines)
  BY FS_EmptySet DEF File, NoFile, TypeInv, TypeOK, FilesFinite
<1>6. ASSUME NEW n \in Name, archive' = [archive EXCEPT ![n] = active]
      PROVE  archive' \in [Name -> File] /\ \A k \in Name : IsFiniteSet(archive'[k].lines)
  BY <1>5, <1>6
<1>7. FreeNames(RotateDate(msg[w])) \subseteq Name
  BY DEF FreeNames
<1>8. CASE ~UNCHANGED fileVars
  <2>1. PICK kind \in {"none", "open", "stat", "lines"} :
          \/ newFile(NoFile, fileWriter, kind) /\ UNCHANGED archive
          \/ /\ newFile(NoFile, "closed", kind)
             /\ \E n \in FreeNames(RotateDate(msg[w])) :
                  archive' = [archive EXCEPT ![n] = active]
          \/ newFile(active, "closed", kind) /\ UNCHANGED archive
    BY <1>0, <1>8, Rotation
  <2>2. archive' \in [Name -> File] /\ \A n \in Name : IsFiniteSet(archive'[n].lines)
    BY <2>1, <1>5, <1>6, <1>7
  <2> QED
    BY <2>1, <2>2, <1>4, <1>5
<1> QED
  BY <1>3, <1>8

\* Every step keeps the state well typed.
LEMMA TypeNext == TypeInv /\ [Next]_vars => TypeInv'
<1> SUFFICES ASSUME TypeInv, [Next]_vars, UNCHANGED appendOption PROVE TypeInv'
  BY DEF Next, vars
<1> USE DEF TypeInv, TypeOK, FilesFinite, fileVars, histVars, Goto
<1>1. ASSUME NEW w \in Writer, Begin(w) PROVE TypeInv'
  BY <1>1 DEF Begin, Message
<1>2. ASSUME NEW w \in Writer, Check(w) PROVE TypeInv'
  BY <1>2 DEF Check
<1>3. ASSUME NEW w \in Writer, Rechecked(w) PROVE TypeInv'
  BY <1>3 DEF Rechecked
<1>4. ASSUME NEW w \in Writer, Write(w) PROVE TypeInv'
  <2>1. msg[w] \in Message /\ msg[w].size \in Nat
    BY SizesAssumption DEF Message
  <2>2. IsFiniteSet(active.lines \union {msg[w]})
    BY FS_AddElement
  <2>3. active' \in File /\ IsFiniteSet(active'.lines)
    BY <1>4, <2>1, <2>2, FileFacts DEF Write, File
  <2> QED
    BY <1>4, <2>1, <2>3 DEF Write
<1>5. ASSUME NEW w \in Writer, WriteFails(w) PROVE TypeInv'
  BY <1>5 DEF WriteFails
<1>6. CASE deleteOldLog
  <2> HIDE DEF TypeOK
  <2>1. /\ UNCHANGED <<pc, msg, today, messages, faults, histVars>>
        /\ UNCHANGED <<maxLinesCurLines, maxSizeCurSize, dailyOpenTime>>
        /\ walking' = FALSE
        /\ active' \in {active, NoFile}
        /\ fileWriter' \in {fileWriter, "unlinked"}
        /\ archive' \in [Name -> File]
        /\ \A n \in Name : archive'[n] \in {archive[n], NoFile}
    BY <1>6, Walk
  <2>2. IsFiniteSet(NoFile.lines) /\ NoFile \in File
    BY FS_EmptySet DEF NoFile, File
  <2>3. \A n \in Name : IsFiniteSet(archive'[n].lines)
    BY <2>1, <2>2
  <2>4. IsFiniteSet(active'.lines)
    BY <2>1, <2>2
  <2>5. TypeOK
    OBVIOUS
  <2>6. TypeOK'
    BY <2>1, <2>2, <2>5 DEF TypeOK
  <2> QED
    BY <2>3, <2>4, <2>6
<1>7. CASE Tick
  BY <1>7, LastDayAssumption DEF Tick, Days
<1>8. CASE Restart
  <2>1. newFile(active, "closed", "none") /\ today \in Days
    BY <1>8 DEF Restart
  <2>2. /\ active' \in File /\ IsFiniteSet(active'.lines)
        /\ fileWriter' = "open" /\ maxSizeCurSize' \in Nat
        /\ maxLinesCurLines' = Cardinality(active.lines)
        /\ dailyOpenTime' = today
    BY <2>1, NewFile
  <2>3. Cardinality(active.lines) \in Nat
    BY FS_CardinalityType
  <2> QED
    BY <1>8, <2>2, <2>3 DEF Restart
<1>9. CASE UNCHANGED vars
  BY <1>9 DEF vars
<1> QED
  BY <1>1, <1>2, <1>3, <1>4, <1>5, <1>6, <1>7, <1>8, <1>9, TypeRotate
     DEF Next, LogWrite

\* Type correctness of the file output; in particular the counters are never
\* negative.
THEOREM FileTypeCorrect == Spec => []TypeOK
<1>1. TypeInv => TypeOK
  BY DEF TypeInv
<1> QED
  BY <1>1, TypeInit, TypeNext, PTL DEF Spec

-----------------------------------------------------------------------------
(* What a rotation does to the files, the counters and the day.            *)

\* No rotation has failed in a way that leaves the counters of another file.
CountsKnown == failures \intersect {"stat", "lines"} = {}

\* The file is open, with its counters and its day unless a failure is on
\* record, or it is as writer says, with those of before.
Reopened(writer) ==
  \/ /\ fileWriter' = "open" /\ Exists(active)'
     /\ CountsKnown' => /\ maxLinesCurLines' = Cardinality(active'.lines)
                        /\ maxSizeCurSize' = SizeOf(active'.lines)
     /\ dailyOpenTime' = today \/ ("stat" \in failures' /\ UNCHANGED dailyOpenTime)
  \/ /\ UNCHANGED <<maxLinesCurLines, maxSizeCurSize, dailyOpenTime>>
     /\ fileWriter' = writer

\* Afterwards the active file is a new one, or after a failure the same one;
\* what the new one replaces is gone, or it is an old file under a free name.
LEMMA RotationEffect ==
  ASSUME TypeInv, NEW w \in Writer, Rotate(w)
  PROVE  \/ /\ UNCHANGED <<fileVars, walking>>
            /\ failures' = failures \union {"number"} /\ failed' = failed + 1
         \/ /\ walking' = TRUE
            /\ \/ /\ active'.lines = {} /\ active'.mtime \in {0, today}
                  /\ failed' \in {failed, failed + 1}
                  /\ \/ ~Exists(active) /\ archive' = archive
                     \/ /\ Exists(active)
                        /\ \E n \in FreeNames(RotateDate(msg[w])) :
                             archive' = [archive EXCEPT ![n] = active]
               \/ /\ active' = active /\ archive' = archive
                  /\ failed' = failed + 1 /\ "rename" \in failures'
            /\ Reopened("closed") \/ (~Exists(active) /\ Reopened(fileWriter))
<1>1. /\ TypeOK /\ today \in Days /\ active \in File /\ NoFile \in File
      /\ IsFiniteSet(active.lines) /\ IsFiniteSet(NoFile.lines)
      /\ NoFile.lines = {} /\ NoFile.mtime = 0
  BY FS_EmptySet DEF TypeInv, TypeOK, FilesFinite, File, NoFile
<1>2. ASSUME NEW kind, kind = "none" \/ kind \in failures',
             NEW file \in {NoFile, active}, NEW writer, newFile(file, writer, kind)
      PROVE  /\ active'.lines = file.lines
             /\ active' = file \/ (file.mtime = 0 /\ active'.mtime = today)
             /\ Reopened(writer)
  <2>1. file \in File /\ IsFiniteSet(file.lines)
    BY <1>1
  <2>2. kind \in {"none", "open", "stat", "lines"}
    BY <1>1, <1>2, <2>1, NewFile
  <2>3. active'.lines = file.lines /\ (active' = file \/ (file.mtime = 0 /\ active'.mtime = today))
    BY <1>1, <1>2, <2>1, NewFile
  <2>4. CASE kind = "open"
    BY <1>1, <1>2, <2>1, <2>3, <2>4, NewFile DEF Reopened
  <2>5. CASE kind = "stat"
    <3>1. fileWriter' = "open" /\ Exists(active)' /\ UNCHANGED dailyOpenTime
      BY <1>1, <1>2, <2>1, <2>5, NewFile
    <3> QED
      BY <1>2, <2>3, <2>5, <3>1 DEF CountsKnown, Reopened
  <2>6. CASE kind = "lines"
    <3>1. fileWriter' = "open" /\ Exists(active)' /\ dailyOpenTime' = today
      BY <1>1, <1>2, <2>1, <2>6, NewFile
    <3> QED
      BY <1>2, <2>3, <2>6, <3>1 DEF CountsKnown, Reopened
  <2>7. CASE kind = "none"
    <3>1. /\ fileWriter' = "open" /\ Exists(active)' /\ dailyOpenTime' = today
          /\ maxLinesCurLines' = Cardinality(file.lines)
          /\ maxSizeCurSize' = SizeOf(file.lines)
      BY <1>1, <1>2, <2>1, <2>7, NewFile
    <3> QED
      BY <2>3, <3>1 DEF Reopened
  <2> QED
    BY <2>2, <2>4, <2>5, <2>6, <2>7
<1>3. CASE /\ failures' = failures \union {"number"} /\ failed' = failed + 1
           /\ UNCHANGED <<fileVars, walking, faults>>
  BY <1>3
<1>4. ASSUME NEW kind \in {"none", "open", "stat", "lines"}, walking' = TRUE,
             kind = "none" \/ kind \in failures',
             ~Exists(active), newFile(NoFile, fileWriter, kind), UNCHANGED archive,
             failed' \in {failed, failed + 1}
      PROVE  /\ active'.lines = {} /\ active'.mtime \in {0, today}
             /\ Reopened(fileWriter)
  BY <1>1, <1>2, <1>4
<1>5. ASSUME NEW kind \in {"none", "open", "stat", "lines"}, walking' = TRUE,
             kind = "none" \/ kind \in failures',
             newFile(NoFile, "closed", kind)
      PROVE  /\ active'.lines = {} /\ active'.mtime \in {0, today}
             /\ Reopened("closed")
  BY <1>1, <1>2, <1>5
<1>6. ASSUME NEW kind \in {"none", "open", "stat", "lines"}, walking' = TRUE,
             kind = "none" \/ kind \in failures',
             Exists(active), newFile(active, "closed", kind)
      PROVE  /\ active' = active
             /\ Reopened("closed")
  <2>1. active.mtime # 0
    BY <1>6 DEF Exists
  <2> QED
    BY <1>1, <1>2, <1>6, <2>1
<1> QED
  BY <1>1, <1>3, <1>4, <1>5, <1>6, Rotation

-----------------------------------------------------------------------------
(* The counters.                                                           *)

\* A goroutine that has a message to write.
Pending(w) == pc[w] # "idle"

\* A message that is being logged is in no file yet, and no other goroutine's.
Numbered ==
  /\ \A m \in active.lines : m.nr <= messages
  /\ \A w \in Writer : msg[w].nr <= messages
  /\ \A w \in Writer : Pending(w) =>
       /\ \A m \in active.lines : m.nr # msg[w].nr
       /\ \A v \in Writer \ {w} : Pending(v) => msg[v].nr # msg[w].nr

OpenExists == fileWriter = "open" => Exists(active)

CountInv == TypeInv /\ Numbered /\ OpenExists /\ CountersAgree

\* Numbered is stable when lines only go, and messages only end.
LEMMA NumberedStable ==
  ASSUME Numbered, active'.lines \subseteq active.lines, UNCHANGED <<msg, messages>>,
         \A w \in Writer : Pending(w)' => Pending(w)
  PROVE  Numbered'
BY DEF Numbered

\* A message has a new number.
LEMMA NumberedBegin ==
  ASSUME TypeInv, Numbered, NEW w \in Writer, Begin(w)
  PROVE  Numbered'
<1>1. PICK s \in Sizes :
        msg' = [msg EXCEPT ![w] = [nr |-> messages + 1, stamp |-> today, size |-> s]]
  BY DEF Begin
<1>2. /\ messages' = messages + 1 /\ messages \in Nat
      /\ active' = active /\ pc' = [pc EXCEPT ![w] = IF appendOption THEN "check" ELSE "write"]
      /\ msg \in [Writer -> Message] /\ active.lines \subseteq Message
      /\ DOMAIN pc = Writer
  BY FileFacts DEF Begin, fileVars, Goto, TypeInv, TypeOK
<1>3. \A m \in Message : m.nr \in Nat
  BY DEF Message
<1>4. msg'[w].nr = messages + 1 /\ \A v \in Writer \ {w} : msg'[v] = msg[v] /\ pc'[v] = pc[v]
  BY <1>1, <1>2
<1>5. \A m \in active'.lines : m.nr <= messages /\ m.nr \in Nat
  BY <1>2, <1>3 DEF Numbered
<1>6. \A v \in Writer \ {w} : msg'[v].nr <= messages /\ msg'[v].nr \in Nat
  BY <1>2, <1>3, <1>4 DEF Numbered
<1>7. ASSUME NEW v \in Writer, Pending(v)',
             NEW m \in active'.lines
      PROVE  m.nr # msg'[v].nr
  <2>1. CASE v = w
    BY <1>2, <1>4, <1>5, <2>1
  <2>2. CASE v # w
    BY <1>2, <1>4, <1>7, <2>2 DEF Numbered, Pending
  <2> QED
    BY <2>1, <2>2
<1>8. ASSUME NEW v \in Writer, Pending(v)', NEW u \in Writer \ {v}, Pending(u)'
      PROVE  msg'[u].nr # msg'[v].nr
  <2>1. CASE v = w
    BY <1>2, <1>4, <1>6, <2>1
  <2>2. CASE u = w
    BY <1>2, <1>4, <1>6, <2>2
  <2>3. CASE v # w /\ u # w
    BY <1>2, <1>4, <1>8, <2>3 DEF Numbered, Pending
  <2> QED
    BY <2>1, <2>2, <2>3
<1>9. \A v \in Writer : msg'[v].nr <= messages'
  BY <1>2, <1>4, <1>6
<1>10. \A m \in active'.lines : m.nr <= messages'
  BY <1>2, <1>5
<1> QED
  BY <1>7, <1>8, <1>9, <1>10 DEF Numbered

\* A message that has been written is no longer being logged.
LEMMA NumberedWrite ==
  ASSUME TypeInv, Numbered, NEW w \in Writer, Write(w)
  PROVE  /\ Numbered'
         /\ msg[w] \notin active.lines
<1>1. /\ pc[w] = "write" /\ pc' = [pc EXCEPT ![w] = "idle"] /\ UNCHANGED <<msg, messages>>
      /\ active'.lines \in {active.lines, active.lines \union {msg[w]}}
      /\ DOMAIN pc = Writer
  BY DEF Write, Goto, TypeInv, TypeOK
<1>2. \A v \in Writer : Pending(v)' => Pending(v) /\ v # w
  BY <1>1 DEF Pending
<1>3. \A m \in active.lines : m.nr # msg[w].nr
  BY <1>1 DEF Numbered, Pending
<1>4. ASSUME NEW v \in Writer, Pending(v)'
      PROVE  msg[w].nr # msg[v].nr
  BY <1>1, <1>2, <1>4 DEF Numbered, Pending
<1>5. ASSUME NEW m \in active'.lines
      PROVE  m.nr <= messages' /\ \A v \in Writer : Pending(v)' => m.nr # msg'[v].nr
  BY <1>1, <1>2, <1>4, <1>5 DEF Numbered
<1>6. \A v \in Writer : Pending(v)' =>
        \A u \in Writer \ {v} : Pending(u)' => msg'[u].nr # msg'[v].nr
  BY <1>1, <1>2 DEF Numbered
<1>7. \A v \in Writer : msg'[v].nr <= messages'
  BY <1>1 DEF Numbered
<1> QED
  BY <1>3, <1>5, <1>6, <1>7 DEF Numbered

\* The step of every action but Begin, Write, Rotate, the walk and Restart
\* leaves files and counters alone.
LEMMA CountStutter ==
  ASSUME CountInv, TypeInv', UNCHANGED <<msg, fileVars, messages, failures>>,
         \A w \in Writer : Pending(w)' => Pending(w)
  PROVE  CountInv'
<1>1. UNCHANGED <<active, archive, fileWriter, maxLinesCurLines, maxSizeCurSize, dailyOpenTime>>
  BY DEF fileVars
<1>2. Numbered'
  BY <1>1, NumberedStable DEF CountInv
<1>3. OpenExists'
  BY <1>1 DEF CountInv, OpenExists, Exists
<1>4. CountersAgree'
  BY <1>1 DEF CountInv, CountersAgree
<1> QED
  BY <1>2, <1>3, <1>4 DEF CountInv

LEMMA CountInit == Init => CountInv
<1> SUFFICES ASSUME Init PROVE CountInv
  OBVIOUS
<1>1. TypeInv
  BY TypeInit
<1>2. Numbered
  BY DEF Init, Numbered, Pending
<1>3. OpenExists
  BY DEF Init, OpenExists, Exists
<1>4. CountersAgree
  BY SizeFacts, FS_EmptySet DEF Init, CountersAgree
<1> QED
  BY <1>1, <1>2, <1>3, <1>4 DEF CountInv

LEMMA CountNext == CountInv /\ [Next]_vars => CountInv'
<1> SUFFICES ASSUME CountInv, [Next]_vars, UNCHANGED appendOption PROVE CountInv'
  BY DEF Next, vars
<1>0. TypeInv /\ TypeInv' /\ TypeOK /\ DOMAIN pc = Writer
  BY TypeNext DEF CountInv, TypeInv, TypeOK
<1>1. ASSUME NEW w \in Writer, Begin(w) PROVE CountInv'
  <2>1. Numbered'
    BY <1>0, <1>1, NumberedBegin DEF CountInv
  <2>2. UNCHANGED <<active, archive, fileWriter, maxLinesCurLines, maxSizeCurSize, failures>>
    BY <1>1 DEF Begin, fileVars, histVars
  <2>3. OpenExists' /\ CountersAgree'
    BY <2>2 DEF CountInv, OpenExists, Exists, CountersAgree
  <2> QED
    BY <1>0, <2>1, <2>3 DEF CountInv
<1>2. ASSUME NEW w \in Writer, Check(w) \/ Rechecked(w) \/ WriteFails(w) PROVE CountInv'
  <2>1. UNCHANGED <<msg, fileVars, messages, failures>>
    BY <1>2 DEF Check, Rechecked, WriteFails, histVars
  <2>2. \A v \in Writer : Pending(v)' => Pending(v)
    BY <1>0, <1>2 DEF Check, Rechecked, WriteFails, Goto, Pending
  <2> QED
    BY <1>0, <2>1, <2>2, CountStutter
<1>3. ASSUME NEW w \in Writer, Rotate(w) PROVE CountInv'
  <2>1. /\ pc[w] = "rotate" /\ pc' = [pc EXCEPT ![w] = "write"] /\ UNCHANGED <<msg, messages>>
        /\ failures \subseteq failures'
    BY <1>0, <1>3, Rotation
  <2>2. \A v \in Writer : Pending(v)' => Pending(v)
    BY <1>0, <2>1 DEF Pending
  <2>3. CASE UNCHANGED fileVars
    <3>1. UNCHANGED <<active, fileWriter, maxLinesCurLines, maxSizeCurSize>>
      BY <2>3 DEF fileVars
    <3>2. Numbered'
      BY <2>1, <2>2, <3>1, NumberedStable DEF CountInv
    <3>3. OpenExists'
      BY <3>1 DEF CountInv, OpenExists, Exists
    <3>4. CountersAgree'
      BY <2>1, <3>1 DEF CountInv, CountersAgree
    <3> QED
      BY <1>0, <3>2, <3>3, <3>4 DEF CountInv
  <2>4. CASE ~UNCHANGED fileVars
    <3>1. /\ active'.lines = {} \/ active' = active
          /\ Reopened("closed") \/ (~Exists(active) /\ Reopened(fileWriter))
      BY <1>0, <1>3, <2>4, RotationEffect
    <3>2. Numbered'
      BY <2>1, <2>2, <3>1, NumberedStable DEF CountInv
    <3>3. OpenExists'
      BY <3>1 DEF CountInv, OpenExists, Reopened
    <3>4. fileWriter' = "open" /\ CountsKnown' =>
            /\ maxLinesCurLines' = Cardinality(active'.lines)
            /\ maxSizeCurSize' = SizeOf(active'.lines)
      BY <3>1 DEF CountInv, OpenExists, Reopened
    <3>5. CountersAgree'
      BY <3>4 DEF CountersAgree, CountsKnown
    <3> QED
      BY <1>0, <3>2, <3>3, <3>5 DEF CountInv
  <2> QED
    BY <2>3, <2>4
<1>4. ASSUME NEW w \in Writer, Write(w) PROVE CountInv'
  <2>1. Numbered' /\ msg[w] \notin active.lines
    BY <1>0, <1>4, NumberedWrite DEF CountInv
  <2>2. /\ fileWriter' = fileWriter /\ failures' = failures
        /\ maxLinesCurLines' = maxLinesCurLines + 1
        /\ maxSizeCurSize' = maxSizeCurSize + msg[w].size
        /\ active' = IF fileWriter = "open"
                     THEN [lines |-> active.lines \union {msg[w]}, mtime |-> today]
                     ELSE active
    BY <1>4 DEF Write
  <2>3. today \in Days /\ msg[w] \in Message /\ active \in File /\ IsFiniteSet(active.lines)
    BY <1>0 DEF TypeInv, TypeOK, FilesFinite
  <2>4. OpenExists'
    BY <2>2, <2>3 DEF CountInv, OpenExists, Exists, Days
  <2>5. active.lines \in SUBSET Message
    BY <2>3, FileFacts
  <2>6. /\ Cardinality(active.lines \union {msg[w]}) = Cardinality(active.lines) + 1
        /\ SizeOf(active.lines \union {msg[w]}) = SizeOf(active.lines) + msg[w].size
    BY <2>1, <2>3, <2>5, SizeFacts, FS_AddElement
  <2>7. CountersAgree' => CountInv'
    BY <1>0, <2>1, <2>4 DEF CountInv
  <2>8. CASE fileWriter = "open"
    <3>1. CountersAgree'
      BY <2>2, <2>6, <2>8 DEF CountInv, CountersAgree
    <3> QED
      BY <2>7, <3>1
  <2>9. CASE fileWriter # "open"
    BY <2>2, <2>7, <2>9 DEF CountersAgree
  <2> QED
    BY <2>8, <2>9
<1>5. CASE deleteOldLog
  <2>1. /\ UNCHANGED <<pc, msg, messages, histVars, maxLinesCurLines, maxSizeCurSize>>
        /\ \/ active' = active /\ fileWriter' = fileWriter
           \/ active' = NoFile /\ fileWriter' # "open"
    BY <1>0, <1>5, Walk
  <2>2. Numbered'
    BY <2>1, NumberedStable DEF CountInv, NoFile, Pending
  <2>3. OpenExists'
    BY <2>1 DEF CountInv, OpenExists, Exists
  <2>4. CountersAgree'
    BY <2>1 DEF CountInv, CountersAgree, histVars
  <2> QED
    BY <1>0, <2>2, <2>3, <2>4 DEF CountInv
<1>6. CASE Tick
  <2>1. UNCHANGED <<pc, msg, fileVars, messages, failures>>
    BY <1>6 DEF Tick, histVars
  <2> QED
    BY <1>0, <2>1, CountStutter DEF Pending
<1>7. CASE Restart
  <2>1. /\ UNCHANGED <<msg, messages, failures>> /\ pc' = [w \in Writer |-> "idle"]
        /\ newFile(active, "closed", "none")
        /\ today \in Days /\ active \in File /\ IsFiniteSet(active.lines)
    BY <1>0, <1>7 DEF Restart, TypeInv, TypeOK, FilesFinite, histVars
  <2>2. /\ active'.lines = active.lines /\ fileWriter' = "open" /\ Exists(active)'
        /\ maxLinesCurLines' = Cardinality(active.lines)
        /\ maxSizeCurSize' = SizeOf(active.lines)
    BY <2>1, NewFile
  <2>3. Numbered'
    BY <2>1, <2>2, NumberedStable DEF CountInv, Pending
  <2>4. OpenExists' /\ CountersAgree'
    BY <2>2 DEF OpenExists, CountersAgree
  <2> QED
    BY <1>0, <2>3, <2>4 DEF CountInv
<1>8. CASE UNCHANGED vars
  <2>1. UNCHANGED <<pc, msg, fileVars, messages, failures>>
    BY <1>8 DEF vars
  <2> QED
    BY <1>0, <2>1, CountStutter DEF Pending
<1> QED
  BY <1>1, <1>2, <1>3, <1>4, <1>5, <1>6, <1>7, <1>8 DEF Next, LogWrite

\* The counters of an open file are its lines and its bytes, whatever rotations
\* did, as long as none of them failed to read the file it opened.
THEOREM FileCountersAgree == Spec => []CountersAgree
<1>1. CountInv => CountersAgree
  BY DEF CountInv
<1> QED
  BY <1>1, CountInit, CountNext, PTL DEF Spec

-----------------------------------------------------------------------------
(* The lines of a file.                                                    *)

\* The goroutines that have been let through.
Waiting == {w \in Writer : pc[w] = "write"}

\* What LinesBounded allows a file.
LinesAllowed == MaxLines + Cardinality(Writer) - 1 + failed

\* With those that are let through the file stays within that bound.
RoomForWaiting ==
  appendOption /\ MaxLines > 0 /\ CountsKnown =>
    /\ Cardinality(active.lines) + Cardinality(Waiting) <= LinesAllowed
    /\ \A n \in Name : Cardinality(archive[n].lines) <= LinesAllowed

\* The counter of lines is never too small, whether the file is open or not.
CountedAtLeast == CountsKnown => Cardinality(active.lines) <= maxLinesCurLines

LinesInv == TypeInv /\ CountedAtLeast /\ RoomForWaiting

\* How many are let through.
LEMMA WaitingFacts ==
  ASSUME TypeInv
  PROVE  /\ Cardinality(Writer) \in Nat /\ Cardinality(Waiting) \in Nat
         /\ Cardinality(Waiting) <= Cardinality(Writer)
         /\ IsFiniteSet(Waiting)
<1>1. Waiting \subseteq Writer
  BY DEF Waiting
<1> QED
  BY <1>1, WriterAssumption, FS_Subset, FS_CardinalityType

\* One more is let through.
LEMMA LetThrough ==
  ASSUME TypeInv, TypeInv', NEW w \in Writer, pc[w] # "write",
         pc' = [pc EXCEPT ![w] = "write"]
  PROVE  /\ Cardinality(Waiting') = Cardinality(Waiting) + 1
         /\ Cardinality(Waiting') <= Cardinality(Writer)
<1>1. Waiting' = Waiting \union {w} /\ w \notin Waiting
  BY DEF Waiting, TypeInv, TypeOK
<1>2. Cardinality(Waiting') = Cardinality(Waiting) + 1
  BY <1>1, WaitingFacts, FS_AddElement
<1>3. Waiting' \subseteq Writer
  BY DEF Waiting
<1>4. Cardinality(Waiting') <= Cardinality(Writer)
  BY <1>3, WriterAssumption, FS_Subset
<1> QED
  BY <1>2, <1>4

\* One is through.
LEMMA Through ==
  ASSUME TypeInv, NEW w \in Writer, pc[w] = "write", pc' = [pc EXCEPT ![w] = "idle"]
  PROVE  Cardinality(Waiting') = Cardinality(Waiting) - 1
<1>1. Waiting' = Waiting \ {w} /\ w \in Waiting
  BY DEF Waiting, TypeInv, TypeOK
<1> QED
  BY <1>1, WaitingFacts, FS_RemoveElement

\* The sizes of the files are numbers.
LEMMA LinesNat ==
  ASSUME TypeInv
  PROVE  /\ Cardinality(active.lines) \in Nat
         /\ \A n \in Name : Cardinality(archive[n].lines) \in Nat
         /\ maxLinesCurLines \in Nat /\ failed \in Nat
BY FS_CardinalityType DEF TypeInv, TypeOK, FilesFinite

\* Steps that change no file, and let nobody through.
LEMMA LinesStutter ==
  ASSUME LinesInv, TypeInv', UNCHANGED <<appendOption, fileVars, failures, failed>>,
         Waiting' \subseteq Waiting
  PROVE  LinesInv'
<1>1. /\ UNCHANGED <<active, archive, maxLinesCurLines>>
      /\ LinesAllowed' = LinesAllowed /\ CountsKnown' = CountsKnown
  BY DEF fileVars, LinesAllowed, CountsKnown
<1>2. TypeInv /\ CountedAtLeast /\ RoomForWaiting
  BY DEF LinesInv
<1>3. CountedAtLeast'
  BY <1>1, <1>2 DEF CountedAtLeast
<1>4. Cardinality(Waiting') <= Cardinality(Waiting) /\ Cardinality(Waiting') \in Nat
  BY <1>2, WaitingFacts, FS_Subset, FS_CardinalityType
<1>5. /\ Cardinality(active.lines) \in Nat /\ Cardinality(Waiting) \in Nat
      /\ LinesAllowed \in Int
  BY <1>2, WaitingFacts, LinesNat, MaxLinesAssumption DEF LinesAllowed
<1>6. RoomForWaiting'
  BY <1>1, <1>2, <1>4, <1>5 DEF RoomForWaiting
<1> QED
  BY <1>3, <1>6 DEF LinesInv

\* A goroutine is let through to a file that has room for a line.
LEMMA LinesLetThrough ==
  ASSUME LinesInv, TypeInv', UNCHANGED <<appendOption, fileVars, failures, failed>>,
         NEW w \in Writer, pc[w] # "write", pc' = [pc EXCEPT ![w] = "write"],
         ~needCreateFresh(msg[w])
  PROVE  LinesInv'
<1>1. /\ UNCHANGED <<active, archive, maxLinesCurLines>>
      /\ LinesAllowed' = LinesAllowed /\ CountsKnown' = CountsKnown
  BY DEF fileVars, LinesAllowed, CountsKnown
<1>2. TypeInv /\ CountedAtLeast /\ RoomForWaiting
  BY DEF LinesInv
<1>3. CountedAtLeast'
  BY <1>1, <1>2 DEF CountedAtLeast
<1>4. MaxLines > 0 => maxLinesCurLines < MaxLines
  BY <1>2, LinesNat, MaxLinesAssumption DEF needCreateFresh
<1>5. Cardinality(Waiting') <= Cardinality(Writer) /\ Cardinality(Waiting') \in Nat
  <2>1. Waiting' \subseteq Writer
    BY DEF Waiting
  <2> QED
    BY <2>1, WriterAssumption, FS_Subset, FS_CardinalityType
<1>6. appendOption /\ MaxLines > 0 /\ CountsKnown =>
        Cardinality(active.lines) + Cardinality(Waiting') <= LinesAllowed
  BY <1>2, <1>4, <1>5, LinesNat, WaitingFacts, MaxLinesAssumption
     DEF CountedAtLeast, LinesAllowed
<1>7. RoomForWaiting'
  BY <1>1, <1>2, <1>6 DEF RoomForWaiting
<1> QED
  BY <1>3, <1>7 DEF LinesInv

\* A rotation that fails lets a line more through, and one that does not
\* starts a file without lines.
LEMMA LinesRotate ==
  ASSUME LinesInv, TypeInv', UNCHANGED appendOption, NEW w \in Writer, Rotate(w)
  PROVE  LinesInv'
<1>1. TypeInv /\ TypeOK /\ CountedAtLeast /\ RoomForWaiting
  BY DEF LinesInv, TypeInv
<1>2. pc[w] = "rotate" /\ pc' = [pc EXCEPT ![w] = "write"] /\ failures \subseteq failures'
  BY <1>1, Rotation
<1>3. /\ Cardinality(Waiting') = Cardinality(Waiting) + 1
      /\ Cardinality(Waiting') <= Cardinality(Writer)
      /\ Cardinality(Waiting) \in Nat /\ Cardinality(Writer) \in Nat
  BY <1>1, <1>2, LetThrough, WaitingFacts
<1>4. CountsKnown' => CountsKnown
  BY <1>2 DEF CountsKnown
<1>5. /\ Cardinality(active.lines) \in Nat
      /\ \A n \in Name : Cardinality(archive[n].lines) \in Nat
      /\ maxLinesCurLines \in Nat /\ failed \in Nat
  BY <1>1, LinesNat
<1>6. ASSUME failed' = failed + 1, active' = active, archive' = archive
      PROVE  RoomForWaiting'
  <2>1. LinesAllowed' = LinesAllowed + 1 /\ LinesAllowed \in Int
    BY <1>3, <1>5, <1>6, MaxLinesAssumption DEF LinesAllowed
  <2>2. ASSUME appendOption, MaxLines > 0, CountsKnown'
        PROVE  /\ Cardinality(active'.lines) + Cardinality(Waiting') <= LinesAllowed'
               /\ \A n \in Name : Cardinality(archive'[n].lines) <= LinesAllowed'
    <3>1. /\ Cardinality(active.lines) + Cardinality(Waiting) <= LinesAllowed
          /\ \A n \in Name : Cardinality(archive[n].lines) <= LinesAllowed
      BY <1>1, <1>4, <2>2 DEF RoomForWaiting
    <3>2. Cardinality(active'.lines) + Cardinality(Waiting') <= LinesAllowed'
      BY <1>3, <1>5, <1>6, <2>1, <3>1
    <3>3. \A n \in Name : Cardinality(archive'[n].lines) <= LinesAllowed'
      BY <1>5, <1>6, <2>1, <3>1
    <3> QED
      BY <3>2, <3>3
  <2> QED
    BY <2>2 DEF RoomForWaiting
<1>7. ASSUME failed' \in {failed, failed + 1}, active'.lines = {},
             \/ archive' = archive
             \/ \E n \in FreeNames(RotateDate(msg[w])) :
                  archive' = [archive EXCEPT ![n] = active]
      PROVE  RoomForWaiting'
  <2>1. /\ LinesAllowed' >= LinesAllowed /\ LinesAllowed \in Int /\ LinesAllowed' \in Int
        /\ MaxLines > 0 => LinesAllowed' >= Cardinality(Writer)
    BY <1>3, <1>5, <1>7, MaxLinesAssumption DEF LinesAllowed
  <2>2. Cardinality(active'.lines) = 0
    BY <1>7, FS_EmptySet
  <2>3. archive \in [Name -> File]
    BY <1>1 DEF TypeOK
  <2>4. appendOption /\ MaxLines > 0 /\ CountsKnown' =>
          \A n \in Name : Cardinality(archive[n].lines) <= LinesAllowed'
    BY <1>1, <1>4, <1>5, <2>1 DEF RoomForWaiting
  <2>5. appendOption /\ MaxLines > 0 /\ CountsKnown' => Cardinality(active.lines) <= LinesAllowed'
    BY <1>1, <1>3, <1>4, <1>5, <2>1 DEF RoomForWaiting
  <2>6. \A n \in Name : archive'[n] \in {archive[n], active}
    BY <1>7, <2>3 DEF FreeNames
  <2>7. appendOption /\ MaxLines > 0 /\ CountsKnown' =>
          \A n \in Name : Cardinality(archive'[n].lines) <= LinesAllowed'
    BY <2>4, <2>5, <2>6
  <2>8. MaxLines > 0 => Cardinality(active'.lines) + Cardinality(Waiting') <= LinesAllowed'
    BY <1>3, <2>1, <2>2
  <2> QED
    BY <2>7, <2>8 DEF RoomForWaiting
<1>8. CountedAtLeast'
  <2>1. CASE UNCHANGED fileVars
    BY <1>1, <1>4, <2>1 DEF fileVars, CountedAtLeast
  <2>2. CASE ~UNCHANGED fileVars
    <3>1. /\ active'.lines = {} \/ active' = active
          /\ Reopened("closed") \/ Reopened(fileWriter)
      BY <1>1, <2>2, RotationEffect
    <3>2. \/ CountsKnown' => maxLinesCurLines' = Cardinality(active'.lines)
          \/ maxLinesCurLines' = maxLinesCurLines
      BY <3>1 DEF Reopened
    <3>3. Cardinality(active'.lines) \in Nat
      BY FS_CardinalityType DEF TypeInv, FilesFinite
    <3>4. active'.lines = {} => Cardinality(active'.lines) = 0
      BY FS_EmptySet
    <3> QED
      BY <1>1, <1>4, <1>5, <3>1, <3>2, <3>3, <3>4 DEF CountedAtLeast
  <2> QED
    BY <2>1, <2>2
<1>9. RoomForWaiting'
  BY <1>1, <1>6, <1>7, RotationEffect DEF fileVars
<1> QED
  BY <1>8, <1>9 DEF LinesInv

LEMMA LinesInit == Init => LinesInv
<1> SUFFICES ASSUME Init PROVE LinesInv
  OBVIOUS
<1>1. TypeInv
  BY TypeInit
<1>2. /\ Cardinality(active.lines) = 0 /\ maxLinesCurLines = 0 /\ failed = 0
      /\ \A n \in Name : Cardinality(archive[n].lines) = 0
  BY FS_EmptySet DEF Init, NoFile
<1>3. Waiting = {}
  BY DEF Init, Waiting
<1>4. Cardinality(Waiting) = 0 /\ Cardinality(Writer) \in Nat
  BY <1>1, <1>3, FS_EmptySet, WaitingFacts
<1> QED
  BY <1>1, <1>2, <1>4, MaxLinesAssumption
     DEF LinesInv, CountedAtLeast, RoomForWaiting, LinesAllowed

LEMMA LinesNext == LinesInv /\ [Next]_vars => LinesInv'
<1> SUFFICES ASSUME LinesInv, [Next]_vars, UNCHANGED appendOption PROVE LinesInv'
  BY DEF Next, vars
<1>0. TypeInv /\ TypeInv' /\ TypeOK /\ DOMAIN pc = Writer
  BY TypeNext DEF LinesInv, TypeInv, TypeOK
<1>1. ASSUME NEW w \in Writer, Begin(w) PROVE LinesInv'
  <2>1. UNCHANGED <<fileVars, failures, failed>>
    BY <1>1 DEF Begin, histVars
  <2>2. CASE appendOption
    <3>1. Waiting' \subseteq Waiting
      BY <1>0, <1>1, <2>2 DEF Begin, Goto, Waiting
    <3> QED
      BY <1>0, <2>1, <3>1, LinesStutter
  <2>3. CASE ~appendOption
    BY <1>0, <2>1, <2>3 DEF LinesInv, CountedAtLeast, RoomForWaiting, CountsKnown, fileVars
  <2> QED
    BY <2>2, <2>3
<1>2. ASSUME NEW w \in Writer, Check(w) \/ Rechecked(w) PROVE LinesInv'
  <2>1. /\ UNCHANGED <<fileVars, failures, failed>> /\ pc[w] # "write"
        /\ \/ ~needCreateFresh(msg[w]) /\ pc' = [pc EXCEPT ![w] = "write"]
           \/ pc' = [pc EXCEPT ![w] = "rotate"]
    BY <1>2 DEF Check, Rechecked, Goto, histVars
  <2>2. CASE pc' = [pc EXCEPT ![w] = "rotate"]
    <3>1. Waiting' \subseteq Waiting
      BY <1>0, <2>2 DEF Waiting
    <3> QED
      BY <1>0, <2>1, <3>1, LinesStutter
  <2> QED
    BY <1>0, <2>1, <2>2, LinesLetThrough
<1>3. ASSUME NEW w \in Writer, Rotate(w) PROVE LinesInv'
  BY <1>0, <1>3, LinesRotate
<1>4. ASSUME NEW w \in Writer, Write(w) PROVE LinesInv'
  <2>1. /\ pc[w] = "write" /\ pc' = [pc EXCEPT ![w] = "idle"]
        /\ UNCHANGED <<archive, failures, failed>>
        /\ maxLinesCurLines' = maxLinesCurLines + 1
        /\ active'.lines \in {active.lines, active.lines \union {msg[w]}}
    BY <1>4 DEF Write, Goto
  <2>2. Cardinality(Waiting') = Cardinality(Waiting) - 1 /\ Cardinality(Waiting) \in Nat
    BY <1>0, <2>1, Through, WaitingFacts
  <2>3. /\ Cardinality(active.lines) \in Nat /\ maxLinesCurLines \in Nat
        /\ Cardinality(active'.lines) \in Nat
        /\ IsFiniteSet(active.lines)
    BY <1>0, LinesNat, FS_CardinalityType DEF TypeInv, FilesFinite
  <2>4. Cardinality(active'.lines) <= Cardinality(active.lines) + 1
    <3>1. Cardinality(active.lines \union {msg[w]})
            \in {Cardinality(active.lines), Cardinality(active.lines) + 1}
      BY <2>3, FS_AddElement
    <3>2. Cardinality(active'.lines) \in {Cardinality(active.lines), Cardinality(active.lines) + 1}
      BY <2>1, <3>1
    <3> QED
      BY <2>3, <3>2
  <2>5. LinesAllowed' = LinesAllowed /\ CountsKnown' = CountsKnown /\ LinesAllowed \in Int
    BY <1>0, <2>1, LinesNat, WaitingFacts, MaxLinesAssumption DEF LinesAllowed, CountsKnown
  <2>6. CountedAtLeast'
    BY <2>1, <2>3, <2>4, <2>5 DEF LinesInv, CountedAtLeast
  <2>7. RoomForWaiting'
    BY <2>1, <2>2, <2>3, <2>4, <2>5 DEF LinesInv, RoomForWaiting
  <2> QED
    BY <1>0, <2>6, <2>7 DEF LinesInv
<1>5. ASSUME NEW w \in Writer, WriteFails(w) PROVE LinesInv'
  <2>1. UNCHANGED <<fileVars, failures, failed>> /\ Waiting' \subseteq Waiting
    BY <1>0, <1>5 DEF WriteFails, Goto, histVars, Waiting
  <2> QED
    BY <1>0, <2>1, LinesStutter
<1>6. CASE deleteOldLog
  <2>1. /\ UNCHANGED <<pc, histVars, maxLinesCurLines>>
        /\ active' \in {active, NoFile}
        /\ \A n \in Name : archive'[n] \in {archive[n], NoFile}
    BY <1>0, <1>6, Walk
  <2>2. Cardinality(NoFile.lines) = 0
    BY FS_EmptySet DEF NoFile
  <2>3. Cardinality(active'.lines) <= Cardinality(active.lines)
    BY <1>0, <2>1, <2>2, LinesNat
  <2>4. /\ LinesAllowed' = LinesAllowed /\ CountsKnown' = CountsKnown /\ LinesAllowed \in Int
        /\ Waiting' = Waiting /\ (MaxLines > 0 => LinesAllowed >= 0)
    BY <1>0, <2>1, LinesNat, WaitingFacts, MaxLinesAssumption
       DEF LinesAllowed, CountsKnown, Waiting, histVars
  <2>5. Cardinality(active'.lines) \in Nat /\ Cardinality(active.lines) \in Nat
    BY <1>0, FS_CardinalityType DEF TypeInv, FilesFinite
  <2>6. CountedAtLeast'
    BY <1>0, <2>1, <2>3, <2>4, <2>5, LinesNat DEF LinesInv, CountedAtLeast
  <2>7. appendOption /\ MaxLines > 0 /\ CountsKnown' =>
          \A n \in Name : Cardinality(archive'[n].lines) <= LinesAllowed
    BY <2>1, <2>2, <2>4 DEF LinesInv, RoomForWaiting
  <2>8. RoomForWaiting'
    BY <1>0, <2>3, <2>4, <2>5, <2>7, WaitingFacts DEF LinesInv, RoomForWaiting
  <2> QED
    BY <1>0, <2>6, <2>8 DEF LinesInv
<1>7. CASE Tick
  <2>1. UNCHANGED <<fileVars, failures, failed>> /\ Waiting' \subseteq Waiting
    BY <1>7 DEF Tick, histVars, Waiting
  <2> QED
    BY <1>0, <2>1, LinesStutter
<1>8. CASE Restart
  <2>1. /\ UNCHANGED <<archive, failures, failed>> /\ pc' = [w \in Writer |-> "idle"]
        /\ newFile(active, "closed", "none")
        /\ today \in Days /\ active \in File /\ IsFiniteSet(active.lines)
    BY <1>0, <1>8 DEF Restart, TypeInv, TypeOK, FilesFinite, histVars
  <2>2. active'.lines = active.lines /\ maxLinesCurLines' = Cardinality(active.lines)
    BY <2>1, NewFile
  <2>3. Waiting' = {}
    BY <2>1 DEF Waiting
  <2>4. Cardinality(Waiting') = 0
    BY <2>3, FS_EmptySet
  <2>5. LinesAllowed' = LinesAllowed /\ CountsKnown' = CountsKnown /\ LinesAllowed \in Int
    BY <1>0, <2>1, LinesNat, WaitingFacts, MaxLinesAssumption DEF LinesAllowed, CountsKnown
  <2>6. CountedAtLeast'
    BY <1>0, <2>2, LinesNat DEF CountedAtLeast
  <2>7. RoomForWaiting'
    BY <1>0, <2>1, <2>2, <2>4, <2>5, LinesNat, WaitingFacts DEF LinesInv, RoomForWaiting
  <2> QED
    BY <1>0, <2>6, <2>7 DEF LinesInv
<1>9. CASE UNCHANGED vars
  <2>1. UNCHANGED <<fileVars, failures, failed>> /\ Waiting' \subseteq Waiting
    BY <1>9 DEF vars, Waiting
  <2> QED
    BY <1>0, <2>1, LinesStutter
<1> QED
  BY <1>1, <1>2, <1>3, <1>4, <1>5, <1>6, <1>7, <1>8, <1>9 DEF Next, LogWrite

\* No file holds more lines than maxlines, one for every other goroutine and
\* one for every rotation that failed.
THEOREM FileLinesBounded == Spec => []LinesBounded
<1>1. LinesInv => LinesBounded
  <2> SUFFICES ASSUME LinesInv, appendOption, MaxLines > 0, CountsKnown, NEW f \in Files
               PROVE  Cardinality(f.lines) <= LinesAllowed
    BY DEF LinesBounded, LinesAllowed, CountsKnown
  <2>1. /\ Cardinality(active.lines) \in Nat /\ Cardinality(Waiting) \in Nat
        /\ LinesAllowed \in Int
    BY LinesNat, WaitingFacts, MaxLinesAssumption DEF LinesInv, LinesAllowed
  <2>2. Cardinality(active.lines) + Cardinality(Waiting) <= LinesAllowed
    BY DEF LinesInv, RoomForWaiting
  <2> QED
    BY <2>1, <2>2 DEF Files, LinesInv, RoomForWaiting
<1> QED
  BY <1>1, LinesInit, LinesNext, PTL DEF Spec

-----------------------------------------------------------------------------
(* The days of files and messages.                                         *)

\* No file is written after today or before the messages in it were logged,
\* and no goroutine takes as long as a month for a message.
Stamps ==
  /\ \A m \in active.lines : m.stamp <= active.mtime
  /\ \A n \in Name : \A m \in archive[n].lines : m.stamp <= archive[n].mtime
  /\ active.mtime <= today
  /\ \A n \in Name : archive[n].mtime <= today
  /\ \A w \in Writer : msg[w].stamp <= today
  /\ \A w \in Writer : Pending(w) => today < msg[w].stamp + Month
  /\ \A m \in written : m.stamp <= today
  /\ dailyOpenTime <= today

StampInv == TypeInv /\ Stamps

\* The numbers of the comparisons.
LEMMA StampFacts ==
  ASSUME TypeInv
  PROVE  /\ today \in Nat /\ active.mtime \in Nat /\ dailyOpenTime \in Nat
         /\ active.lines \subseteq Message /\ today \in Days
         /\ \A n \in Name : archive[n].mtime \in Nat /\ archive[n].lines \subseteq Message
         /\ \A w \in Writer : msg[w] \in Message
         /\ written \subseteq Message
         /\ \A m \in Message : m.stamp \in Nat
         /\ DOMAIN pc = Writer
<1>1. \A d \in Days : d \in Nat
  BY LastDayAssumption DEF Days
<1>2. \A m \in Message : m.stamp \in Nat
  BY <1>1 DEF Message
<1>3. TypeOK
  BY DEF TypeInv
<1>4. active \in File /\ \A n \in Name : archive[n] \in File
  BY <1>3 DEF TypeOK
<1> QED
  BY <1>1, <1>2, <1>3, <1>4, FileFacts DEF TypeOK

\* Steps that change no file.
LEMMA StampStutter ==
  ASSUME StampInv, TypeInv', UNCHANGED <<msg, fileVars, today, written>>,
         \A w \in Writer : Pending(w)' => Pending(w)
  PROVE  StampInv'
BY DEF StampInv, Stamps, fileVars

LEMMA StampRotate ==
  ASSUME StampInv, TypeInv', NEW w \in Writer, Rotate(w)
  PROVE  StampInv'
<1>1. TypeInv /\ TypeOK /\ Stamps
  BY DEF StampInv, TypeInv
<1>2. /\ pc[w] = "rotate" /\ pc' = [pc EXCEPT ![w] = "write"]
      /\ UNCHANGED <<msg, today, written>>
  BY <1>1, Rotation
<1>3. \A v \in Writer : Pending(v)' => Pending(v)
  BY <1>1, <1>2, StampFacts DEF Pending
<1>4. CASE UNCHANGED fileVars
  BY <1>2, <1>3, <1>4, StampStutter
<1>5. CASE ~UNCHANGED fileVars
  <2>1. /\ \/ active'.lines = {} /\ active'.mtime \in {0, today}
           \/ active' = active
        /\ \/ archive' = archive
           \/ \E n \in FreeNames(RotateDate(msg[w])) :
                archive' = [archive EXCEPT ![n] = active]
        /\ Reopened("closed") \/ Reopened(fileWriter)
    BY <1>1, <1>5, RotationEffect
  <2>2. /\ \A m \in active'.lines : m.stamp <= active'.mtime
        /\ active'.mtime <= today
    BY <1>1, <2>1, StampFacts DEF Stamps
  <2>3. archive \in [Name -> File]
    BY <1>1 DEF TypeOK
  <2>4. \A n \in Name : archive'[n] \in {archive[n], active}
    BY <2>1, <2>3 DEF FreeNames
  <2>5. \A n \in Name : /\ \A m \in archive'[n].lines : m.stamp <= archive'[n].mtime
                        /\ archive'[n].mtime <= today
    BY <1>1, <2>4 DEF Stamps
  <2>6. dailyOpenTime' \in {dailyOpenTime, today}
    BY <2>1 DEF Reopened
  <2>7. dailyOpenTime' <= today
    BY <1>1, <2>6, StampFacts DEF Stamps
  <2>8. /\ \A v \in Writer : msg[v].stamp <= today
        /\ \A v \in Writer : Pending(v)' => today < msg[v].stamp + Month
        /\ \A m \in written : m.stamp <= today
    BY <1>1, <1>3 DEF Stamps
  <2> QED
    BY <1>2, <2>2, <2>5, <2>7, <2>8 DEF StampInv, Stamps
<1> QED
  BY <1>4, <1>5

LEMMA StampInit == Init => StampInv
<1> SUFFICES ASSUME Init PROVE StampInv
  OBVIOUS
<1>1. TypeInv
  BY TypeInit
<1>2. /\ active.lines = {} /\ active.mtime = 1 /\ today = 1 /\ dailyOpenTime = 1
      /\ \A n \in Name : archive[n].lines = {} /\ archive[n].mtime = 0
      /\ \A w \in Writer : msg[w].stamp = 1 /\ pc[w] = "idle"
      /\ written = {}
  BY DEF Init, NoFile
<1> QED
  BY <1>1, <1>2 DEF StampInv, Stamps, Pending

LEMMA StampNext == StampInv /\ [Next]_vars => StampInv'
<1> SUFFICES ASSUME StampInv, [Next]_vars, UNCHANGED appendOption PROVE StampInv'
  BY DEF Next, vars
<1>0. TypeInv /\ TypeInv' /\ Stamps /\ TypeOK
  BY TypeNext DEF StampInv, TypeInv
<1>1. ASSUME NEW w \in Writer, Begin(w) PROVE StampInv'
  <2>1. PICK s \in Sizes :
          msg' = [msg EXCEPT ![w] = [nr |-> messages + 1, stamp |-> today, size |-> s]]
    BY <1>1 DEF Begin
  <2>2. /\ UNCHANGED <<active, archive, dailyOpenTime, today, written>>
        /\ pc' = [pc EXCEPT ![w] = IF appendOption THEN "check" ELSE "write"]
        /\ msg \in [Writer -> Message]
    BY <1>0, <1>1 DEF Begin, fileVars, histVars, Goto, TypeOK
  <2>3. \A v \in Writer \ {w} : msg'[v] = msg[v] /\ pc'[v] = pc[v]
    BY <2>1, <2>2, <1>0, StampFacts
  <2>4. msg'[w].stamp = today
    BY <2>1, <2>2
  <2>5. ASSUME NEW v \in Writer
        PROVE  msg'[v].stamp <= today /\ (Pending(v)' => today < msg'[v].stamp + Month)
    <3>1. CASE v = w
      BY <1>0, <2>4, <3>1, StampFacts, MonthAssumption
    <3>2. CASE v # w
      BY <1>0, <2>3, <3>2 DEF Stamps, Pending
    <3> QED
      BY <3>1, <3>2
  <2> QED
    BY <1>0, <2>2, <2>5 DEF StampInv, Stamps
<1>2. ASSUME NEW w \in Writer, Check(w) \/ Rechecked(w) \/ WriteFails(w) PROVE StampInv'
  <2>1. UNCHANGED <<msg, fileVars, today, written>>
    BY <1>2 DEF Check, Rechecked, WriteFails, histVars
  <2>2. \A v \in Writer : Pending(v)' => Pending(v)
    BY <1>0, <1>2, StampFacts DEF Check, Rechecked, WriteFails, Goto, Pending
  <2> QED
    BY <1>0, <2>1, <2>2, StampStutter
<1>3. ASSUME NEW w \in Writer, Rotate(w) PROVE StampInv'
  BY <1>0, <1>3, StampRotate
<1>4. ASSUME NEW w \in Writer, Write(w) PROVE StampInv'
  <2>1. /\ pc[w] = "write" /\ pc' = [pc EXCEPT ![w] = "idle"]
        /\ UNCHANGED <<msg, archive, dailyOpenTime, today>>
        /\ written' = written \union {msg[w]}
        /\ \/ active' = active
           \/ active' = [lines |-> active.lines \union {msg[w]}, mtime |-> today]
    BY <1>4 DEF Write, Goto
  <2>2. \A v \in Writer : Pending(v)' => Pending(v)
    BY <1>0, <2>1, StampFacts DEF Pending
  <2>3. \A m \in written' : m.stamp <= today
    BY <1>0, <2>1 DEF Stamps
  <2>4. \A m \in active.lines \union {msg[w]} : m.stamp <= today
    BY <1>0, StampFacts DEF Stamps
  <2>5. (\A m \in active'.lines : m.stamp <= active'.mtime) /\ active'.mtime <= today
    BY <1>0, <2>1, <2>4, StampFacts DEF Stamps
  <2> QED
    BY <1>0, <2>1, <2>2, <2>3, <2>5 DEF StampInv, Stamps
<1>5. CASE deleteOldLog
  <2>1. /\ UNCHANGED <<pc, msg, today, histVars, dailyOpenTime>>
        /\ active' \in {active, NoFile}
        /\ \A n \in Name : archive'[n] \in {archive[n], NoFile}
    BY <1>0, <1>5, Walk
  <2>2. NoFile.lines = {} /\ NoFile.mtime <= today
    BY <1>0, StampFacts DEF NoFile
  <2>3. UNCHANGED <<pc, msg, today, written, dailyOpenTime>>
    BY <2>1 DEF histVars
  <2>4. /\ \A m \in active'.lines : m.stamp <= active'.mtime
        /\ active'.mtime <= today
    BY <1>0, <2>1, <2>2 DEF Stamps
  <2>5. \A n \in Name : /\ \A m \in archive'[n].lines : m.stamp <= archive'[n].mtime
                        /\ archive'[n].mtime <= today
    BY <1>0, <2>1, <2>2 DEF Stamps
  <2> QED
    BY <1>0, <2>3, <2>4, <2>5 DEF StampInv, Stamps, Pending
<1>6. CASE Tick
  <2>1. /\ UNCHANGED <<pc, msg, active, archive, dailyOpenTime, written>>
        /\ today' = today + 1
        /\ \A w \in Writer : Pending(w) => today' < msg[w].stamp + Month
    BY <1>6 DEF Tick, fileVars, histVars, Pending
  <2>2. \A d \in Nat : d <= today => d <= today'
    BY <1>0, <2>1, StampFacts
  <2>3. /\ active.mtime <= today' /\ dailyOpenTime <= today'
        /\ \A n \in Name : archive[n].mtime <= today'
        /\ \A w \in Writer : msg[w].stamp <= today'
    BY <1>0, <2>2, StampFacts DEF Stamps
  <2>4. \A m \in written : m.stamp <= today'
    BY <1>0, <2>2, StampFacts DEF Stamps
  <2> QED
    BY <1>0, <2>1, <2>3, <2>4 DEF StampInv, Stamps, Pending
<1>7. CASE Restart
  <2>1. /\ UNCHANGED <<msg, archive, today, written>> /\ pc' = [w \in Writer |-> "idle"]
        /\ newFile(active, "closed", "none")
        /\ today \in Days /\ active \in File /\ IsFiniteSet(active.lines)
    BY <1>0, <1>7 DEF Restart, TypeInv, TypeOK, FilesFinite, histVars
  <2>2. /\ active'.lines = active.lines /\ dailyOpenTime' = today
        /\ active' = active \/ (active.mtime = 0 /\ active'.mtime = today)
    BY <2>1, NewFile
  <2>3. (\A m \in active'.lines : m.stamp <= active'.mtime) /\ active'.mtime <= today
    BY <1>0, <2>2, StampFacts DEF Stamps
  <2>4. dailyOpenTime' <= today
    BY <1>0, <2>2, StampFacts
  <2> QED
    BY <1>0, <2>1, <2>3, <2>4 DEF StampInv, Stamps, Pending
<1>8. CASE UNCHANGED vars
  <2>1. UNCHANGED <<pc, msg, fileVars, today, written>>
    BY <1>8 DEF vars
  <2> QED
    BY <1>0, <2>1, StampStutter DEF Pending
<1> QED
  BY <1>1, <1>2, <1>3, <1>4, <1>5, <1>6, <1>7, <1>8 DEF Next, LogWrite

-----------------------------------------------------------------------------
(* No line is lost.                                                        *)

\* While a walk runs, the file that is being written is of today: the walk was
\* started by the rotation that opened it.
WalkedFile == walking /\ "rename" \notin failures => active.mtime \in {0, today}

\* So a walk only reaches the open file if it removes the files of today.
Unlinked == fileWriter = "unlinked" /\ "rename" \notin failures => MaxDays = 0

KeptInv == StampInv /\ WalkedFile /\ Unlinked /\ WrittenIsKept

\* A file that holds m.
InFile(m) == m \in active.lines \/ \E n \in Name : m \in archive[n].lines

\* A line that is too old to be kept.
Expired(m) == MaxDays # -1 /\ m.stamp + MaxDays <= today

LEMMA KeptMeaning ==
  WrittenIsKept <=> ("rename" \notin failures =>
                       \A m \in written : InFile(m) \/ Expired(m))
<1>1. \A m : (\E f \in Files : m \in f.lines) <=> InFile(m)
  BY DEF Files, InFile
<1> QED
  BY <1>1 DEF WrittenIsKept, Expired

LEMMA KeptStutter ==
  ASSUME KeptInv, StampInv', UNCHANGED <<fileVars, today, written, failures>>,
         walking' = walking \/ walking' = FALSE
  PROVE  KeptInv'
<1>1. UNCHANGED <<active, archive, fileWriter>>
  BY DEF fileVars
<1>2. WalkedFile' /\ Unlinked'
  BY <1>1 DEF KeptInv, WalkedFile, Unlinked
<1>3. WrittenIsKept'
  BY <1>1 DEF KeptInv, WrittenIsKept, Files
<1> QED
  BY <1>2, <1>3 DEF KeptInv

\* The lines of the active file go to a name that was free, or stay.
LEMMA RotateKeeps ==
  ASSUME TypeInv, NEW w \in Writer, Rotate(w), NEW m, InFile(m)
  PROVE  InFile(m)'
<1>1. TypeOK /\ archive \in [Name -> File] /\ active \in File
  BY DEF TypeInv, TypeOK
<1>2. CASE UNCHANGED fileVars
  BY <1>2 DEF fileVars, InFile
<1>3. CASE active' = active /\ archive' = archive
  BY <1>3 DEF InFile
<1>4. CASE active'.lines = {} /\ ~Exists(active) /\ archive' = archive
  <2>1. active.lines = {}
    BY <1>1, <1>4, FileFacts
  <2> QED
    BY <1>4, <2>1 DEF InFile
<1>5. ASSUME NEW n \in FreeNames(RotateDate(msg[w])),
             archive' = [archive EXCEPT ![n] = active]
      PROVE  InFile(m)'
  <2>1. n \in Name /\ ~Exists(archive[n])
    BY <1>5 DEF FreeNames
  <2>2. archive[n].lines = {}
    BY <1>1, <2>1, FileFacts
  <2>3. archive'[n] = active /\ \A k \in Name \ {n} : archive'[k] = archive[k]
    BY <1>1, <1>5, <2>1
  <2>4. CASE m \in active.lines
    BY <2>1, <2>3, <2>4 DEF InFile
  <2>5. ASSUME NEW k \in Name, m \in archive[k].lines
        PROVE  InFile(m)'
    <3>1. k # n
      BY <2>2, <2>5
    <3> QED
      BY <2>3, <2>5, <3>1 DEF InFile
  <2> QED
    BY <2>4, <2>5 DEF InFile
<1> QED
  BY <1>1, <1>2, <1>3, <1>4, <1>5, RotationEffect

LEMMA KeptInit == Init => KeptInv
<1> SUFFICES ASSUME Init PROVE KeptInv
  OBVIOUS
<1>1. StampInv
  BY StampInit
<1>2. WalkedFile /\ Unlinked /\ WrittenIsKept
  BY DEF Init, WalkedFile, Unlinked, WrittenIsKept
<1> QED
  BY <1>1, <1>2 DEF KeptInv

LEMMA KeptNext == KeptInv /\ [Next]_vars => KeptInv'
<1> SUFFICES ASSUME KeptInv, [Next]_vars, UNCHANGED appendOption PROVE KeptInv'
  BY DEF Next, vars
<1>0. /\ StampInv /\ StampInv' /\ TypeInv /\ TypeInv' /\ TypeOK /\ Stamps
      /\ WalkedFile /\ Unlinked
      /\ "rename" \notin failures => \A m \in written : InFile(m) \/ Expired(m)
  BY StampNext, KeptMeaning DEF KeptInv, StampInv, TypeInv
<1>1. ASSUME NEW w \in Writer, Begin(w) \/ Check(w) \/ Rechecked(w) \/ WriteFails(w)
      PROVE  KeptInv'
  <2>1. UNCHANGED <<fileVars, today, written, failures, walking>>
    BY <1>1 DEF Begin, Check, Rechecked, WriteFails, histVars
  <2> QED
    BY <1>0, <2>1, KeptStutter
<1>2. ASSUME NEW w \in Writer, Rotate(w) PROVE KeptInv'
  <2>1. UNCHANGED <<today, written>> /\ failures \subseteq failures'
    BY <1>0, <1>2, Rotation
  <2>2. ("rename" \notin failures => \A m \in written : InFile(m) \/ Expired(m))'
    <3> SUFFICES ASSUME "rename" \notin failures', NEW m \in written'
                 PROVE  InFile(m)' \/ Expired(m)'
      OBVIOUS
    <3>1. InFile(m) \/ Expired(m)
      BY <1>0, <2>1
    <3>2. Expired(m) => Expired(m)'
      BY <2>1 DEF Expired
    <3>3. InFile(m) => InFile(m)'
      BY <1>0, <1>2, RotateKeeps
    <3> QED
      BY <3>1, <3>2, <3>3
  <2>3. WrittenIsKept'
    BY <2>2 DEF WrittenIsKept, Files, InFile, Expired
  <2>4. CASE UNCHANGED <<fileVars, walking>>
    <3>1. WalkedFile' /\ Unlinked'
      BY <1>0, <2>1, <2>4 DEF fileVars, WalkedFile, Unlinked
    <3> QED
      BY <1>0, <2>3, <3>1 DEF KeptInv
  <2>5. CASE ~UNCHANGED <<fileVars, walking>>
    <3>1. /\ active'.mtime \in {0, today} \/ "rename" \in failures'
          /\ Reopened("closed") \/ Reopened(fileWriter)
      BY <1>0, <1>2, <2>5, RotationEffect
    <3>2. fileWriter' \in {"open", "closed", fileWriter}
      BY <3>1 DEF Reopened
    <3>3. WalkedFile' /\ Unlinked'
      BY <1>0, <2>1, <3>1, <3>2 DEF WalkedFile, Unlinked
    <3> QED
      BY <1>0, <2>3, <3>3 DEF KeptInv
  <2> QED
    BY <2>4, <2>5
<1>3. ASSUME NEW w \in Writer, Write(w) PROVE KeptInv'
  <2>1. /\ fileWriter # "closed"
        /\ UNCHANGED <<archive, fileWriter, walking, today, failures>>
        /\ written' = written \union {msg[w]}
        /\ IF fileWriter = "open"
           THEN active' = [lines |-> active.lines \union {msg[w]}, mtime |-> today]
           ELSE active' = active
    BY <1>3 DEF Write
  <2>2. WalkedFile' /\ Unlinked'
    BY <1>0, <2>1 DEF WalkedFile, Unlinked
  <2>3. ("rename" \notin failures => \A m \in written : InFile(m) \/ Expired(m))'
    <3> SUFFICES ASSUME "rename" \notin failures', NEW m \in written'
                 PROVE  InFile(m)' \/ Expired(m)'
      OBVIOUS
    <3>1. InFile(m) => InFile(m)'
      BY <2>1 DEF InFile
    <3>2. Expired(m) => Expired(m)'
      BY <2>1 DEF Expired
    <3>3. CASE m \in written
      BY <1>0, <2>1, <3>1, <3>2, <3>3
    <3>4. CASE m = msg[w] /\ fileWriter = "open"
      BY <2>1, <3>4 DEF InFile
    <3>5. CASE m = msg[w] /\ fileWriter # "open"
      <4>1. fileWriter = "unlinked"
        BY <1>0, <2>1, <3>5 DEF TypeOK
      <4>2. MaxDays = 0
        BY <1>0, <2>1, <4>1 DEF Unlinked
      <4>3. m.stamp <= today /\ m.stamp \in Nat
        BY <1>0, <3>5, StampFacts DEF Stamps
      <4> QED
        BY <2>1, <4>2, <4>3 DEF Expired
    <3> QED
      BY <2>1, <3>3, <3>4, <3>5
  <2>4. WrittenIsKept'
    BY <2>3 DEF WrittenIsKept, Files, InFile, Expired
  <2> QED
    BY <1>0, <2>2, <2>4 DEF KeptInv
<1>4. CASE deleteOldLog
  <2>1. /\ UNCHANGED <<pc, msg, today, messages, faults, histVars>>
        /\ walking /\ walking' = FALSE
        /\ \/ active' = active /\ fileWriter' = fileWriter
           \/ /\ MaxDays # -1 /\ MayExpire(active) /\ active' = NoFile
              /\ fileWriter' = IF fileWriter = "open" THEN "unlinked" ELSE fileWriter
        /\ \A n \in Name : \/ archive'[n] = archive[n]
                           \/ MaxDays # -1 /\ MayExpire(archive[n]) /\ archive'[n] = NoFile
    BY <1>0, <1>4, Walk
  <2>2. UNCHANGED <<today, written, failures>>
    BY <2>1 DEF histVars
  <2>3. WalkedFile'
    BY <2>1 DEF WalkedFile
  <2>4. Unlinked'
    <3> SUFFICES ASSUME fileWriter' = "unlinked", "rename" \notin failures
                 PROVE  MaxDays = 0
      BY <2>2 DEF Unlinked
    <3>1. CASE fileWriter = "unlinked"
      BY <1>0, <3>1 DEF Unlinked
    <3>2. CASE fileWriter # "unlinked"
      <4>1. MaxDays # -1 /\ MayExpire(active)
        BY <2>1, <3>2
      <4>2. active.mtime \in {0, today} /\ active.mtime > 0 /\ active.mtime + MaxDays <= today
        BY <1>0, <2>1, <4>1 DEF WalkedFile, MayExpire, Exists
      <4> QED
        BY <1>0, <4>1, <4>2, StampFacts, MaxDaysAssumption
    <3> QED
      BY <3>1, <3>2
  <2>5. ("rename" \notin failures => \A m \in written : InFile(m) \/ Expired(m))'
    <3> SUFFICES ASSUME "rename" \notin failures', NEW m \in written'
                 PROVE  InFile(m)' \/ Expired(m)'
      OBVIOUS
    <3>1. InFile(m) \/ Expired(m)
      BY <1>0, <2>2
    <3>2. Expired(m)' <=> Expired(m)
      BY <2>2 DEF Expired
    <3>3. m.stamp \in Nat /\ today \in Nat
      BY <1>0, <2>2, StampFacts
    <3>4. ASSUME NEW file, m.stamp <= file.mtime, file.mtime \in Nat,
                 MaxDays # -1, MayExpire(file)
          PROVE  Expired(m)
      BY <3>3, <3>4, MaxDaysAssumption DEF Expired, MayExpire
    <3>5. CASE m \in active.lines
      <4>1. m.stamp <= active.mtime /\ active.mtime \in Nat
        BY <1>0, <3>5, StampFacts DEF Stamps
      <4>2. CASE active' = active
        BY <3>5, <4>2 DEF InFile
      <4>3. CASE MaxDays # -1 /\ MayExpire(active)
        BY <3>2, <3>4, <4>1, <4>3
      <4> QED
        BY <2>1, <4>2, <4>3
    <3>6. ASSUME NEW n \in Name, m \in archive[n].lines
          PROVE  InFile(m)' \/ Expired(m)'
      <4>1. m.stamp <= archive[n].mtime /\ archive[n].mtime \in Nat
        BY <1>0, <3>6, StampFacts DEF Stamps
      <4>2. CASE archive'[n] = archive[n]
        BY <3>6, <4>2 DEF InFile
      <4>3. CASE MaxDays # -1 /\ MayExpire(archive[n])
        BY <3>2, <3>4, <4>1, <4>3
      <4> QED
        BY <2>1, <4>2, <4>3
    <3> QED
      BY <3>1, <3>2, <3>5, <3>6 DEF InFile
  <2>6. WrittenIsKept'
    BY <2>5 DEF WrittenIsKept, Files, InFile, Expired
  <2> QED
    BY <1>0, <2>3, <2>4, <2>6 DEF KeptInv
<1>5. CASE Tick
  <2>1. /\ UNCHANGED <<active, archive, fileWriter, written, failures, walking>>
        /\ today' = today + 1 /\ ~walking
    BY <1>5 DEF Tick, fileVars, histVars
  <2>2. WalkedFile' /\ Unlinked'
    BY <1>0, <2>1 DEF WalkedFile, Unlinked
  <2>3. ASSUME NEW m \in written, Expired(m)
        PROVE  Expired(m)'
    BY <1>0, <2>1, <2>3, StampFacts, MaxDaysAssumption DEF Expired
  <2>4. ASSUME NEW m, InFile(m)
        PROVE  InFile(m)'
    BY <2>1, <2>4 DEF InFile
  <2>5. ("rename" \notin failures => \A m \in written : InFile(m) \/ Expired(m))'
    BY <1>0, <2>1, <2>3, <2>4
  <2>6. WrittenIsKept'
    BY <2>5 DEF WrittenIsKept, Files, InFile, Expired
  <2> QED
    BY <1>0, <2>2, <2>6 DEF KeptInv
<1>6. CASE Restart
  <2>1. /\ UNCHANGED <<archive, today, written, failures>> /\ walking' = FALSE
        /\ newFile(active, "closed", "none")
        /\ today \in Days /\ active \in File /\ IsFiniteSet(active.lines)
    BY <1>0, <1>6 DEF Restart, TypeInv, TypeOK, FilesFinite, histVars
  <2>2. active'.lines = active.lines /\ fileWriter' = "open"
    BY <2>1, NewFile
  <2>3. WalkedFile' /\ Unlinked'
    BY <2>1, <2>2 DEF WalkedFile, Unlinked
  <2>4. ASSUME NEW m, InFile(m) \/ Expired(m)
        PROVE  InFile(m)' \/ Expired(m)'
    BY <2>1, <2>2, <2>4 DEF InFile, Expired
  <2>5. ("rename" \notin failures => \A m \in written : InFile(m) \/ Expired(m))'
    BY <1>0, <2>1, <2>4
  <2>6. WrittenIsKept'
    BY <2>5 DEF WrittenIsKept, Files, InFile, Expired
  <2> QED
    BY <1>0, <2>3, <2>6 DEF KeptInv
<1>7. CASE UNCHANGED vars
  <2>1. UNCHANGED <<fileVars, today, written, failures, walking>>
    BY <1>7 DEF vars
  <2> QED
    BY <1>0, <2>1, KeptStutter
<1> QED
  BY <1>1, <1>2, <1>3, <1>4, <1>5, <1>6, <1>7 DEF Next, LogWrite

\* A line that was written stays in a file until it is MaxDays days old: no
\* rotation overwrites a file, and a walk removes nothing that is younger,
\* unless renaming failed.
THEOREM FileWrittenIsKept == Spec => []WrittenIsKept
<1>1. KeptInv => WrittenIsKept
  BY DEF KeptInv
<1> QED
  BY <1>1, KeptInit, KeptNext, PTL DEF Spec

-----------------------------------------------------------------------------
(* The dates of old files.                                                 *)

\* Division with remainder, in the form the provers know.
LEMMA Division ==
  \A a \in Int : \A n \in Int :
    n > 0 => a = n * (a \div n) + (a % n) /\ a \div n \in Int
OBVIOUS

\* Different multiples are a whole multiple apart.
LEMMA Multiples ==
  ASSUME NEW p \in Int, NEW q \in Int, NEW n \in Nat \ {0}, p < q
  PROVE  n * p + n <= n * q
<1>1. p + 1 <= q
  OBVIOUS
<1>2. n * (p + 1) <= n * q
  BY <1>1
<1>3. n * (p + 1) = n * p + n
  OBVIOUS
<1> QED
  BY <1>2, <1>3

\* Within a month a day of the month does not come back.
LEMMA SameDay ==
  ASSUME NEW a \in Nat, NEW b \in Nat, a <= b, b < a + Month, Day(a) = Day(b)
  PROVE  a = b
<1> DEFINE p == a \div Month
           q == b \div Month
           r == Day(a)
<1>1. /\ a = Month * p + r /\ b = Month * q + r
      /\ p \in Int /\ q \in Int
  BY Division, MonthAssumption DEF Day
<1>2. r \in Int /\ Month * p \in Int /\ Month * q \in Int /\ Month \in Nat
  BY <1>1, MonthAssumption DEF Day
<1>3. p < q => Month * p + Month <= Month * q
  BY <1>1, Multiples, MonthAssumption
<1>4. q < p => Month * q + Month <= Month * p
  BY <1>1, Multiples, MonthAssumption
<1>5. p < q \/ q < p \/ p = q
  BY <1>1
<1> HIDE DEF p, q, r
<1> DEFINE x == Month * p
           y == Month * q
<1>6. /\ a = x + r /\ b = y + r /\ x \in Int /\ y \in Int
      /\ p < q => x + Month <= y
      /\ q < p => y + Month <= x
      /\ p = q => x = y
  BY <1>1, <1>2, <1>3, <1>4
<1> HIDE DEF x, y
<1> QED
  BY <1>2, <1>5, <1>6

\* A line of stamp s may be in a file of date d.
OnDate(s, d) == s <= d \/ Day(s) = Day(d)

\* No rotation left a file under an old date.
DatesKnown == appendOption /\ Daily /\ failures \intersect {"number", "stat"} = {}

\* Who is let through to an open file has a message of its day, or an older one.
OnTime ==
  DatesKnown /\ fileWriter = "open" =>
    \A w \in Writer : pc[w] = "write" => OnDate(msg[w].stamp, dailyOpenTime)

DateInv == CountInv /\ StampInv /\ OnTime /\ NoLineIsNewer

LEMMA DateMeaning ==
  NoLineIsNewer <=>
    (DatesKnown =>
       /\ \A m \in active.lines : OnDate(m.stamp, dailyOpenTime)
       /\ \A n \in Name : \A m \in archive[n].lines : OnDate(m.stamp, n.date))
BY DEF NoLineIsNewer, DatesKnown, OnDate

\* The date of the old file suits every line that suited the day it was opened.
LEMMA RotatedDate ==
  ASSUME StampInv, NEW w \in Writer, Pending(w), NEW m \in Message,
         OnDate(m.stamp, dailyOpenTime)
  PROVE  OnDate(m.stamp, RotateDate(msg[w]))
<1>1. TypeInv /\ Stamps
  BY DEF StampInv
<1>2. CASE Day(dailyOpenTime) # Day(msg[w].stamp)
  BY <1>2 DEF RotateDate
<1>3. CASE Day(dailyOpenTime) = Day(msg[w].stamp)
  <2>1. RotateDate(msg[w]) = msg[w].stamp
    BY <1>3 DEF RotateDate
  <2>2. /\ msg[w].stamp \in Nat /\ dailyOpenTime \in Nat /\ m.stamp \in Nat /\ today \in Nat
        /\ dailyOpenTime <= today /\ today < msg[w].stamp + Month
    BY <1>1, StampFacts DEF Stamps
  <2>3. CASE Day(m.stamp) = Day(dailyOpenTime)
    BY <1>3, <2>1, <2>3 DEF OnDate
  <2>4. CASE m.stamp <= dailyOpenTime
    <3>1. dailyOpenTime < msg[w].stamp + Month
      BY <2>2, MonthAssumption
    <3>2. msg[w].stamp <= dailyOpenTime => msg[w].stamp = dailyOpenTime
      BY <1>3, <2>2, <3>1, SameDay
    <3>3. dailyOpenTime <= msg[w].stamp
      BY <2>2, <3>2
    <3>4. m.stamp <= msg[w].stamp
      BY <2>2, <2>4, <3>3
    <3> QED
      BY <2>1, <3>4 DEF OnDate
  <2> QED
    BY <2>3, <2>4 DEF OnDate
<1> QED
  BY <1>2, <1>3

\* Steps that change no file and let nobody through.
LEMMA DateStutter ==
  ASSUME DateInv, CountInv', StampInv', UNCHANGED <<appendOption, msg, fileVars, failures>>,
         \A w \in Writer : pc'[w] = "write" => pc[w] = "write"
  PROVE  DateInv'
<1>1. /\ UNCHANGED <<active, archive, fileWriter, dailyOpenTime>>
      /\ DatesKnown' = DatesKnown
  BY DEF fileVars, DatesKnown
<1>2. OnTime'
  BY <1>1 DEF DateInv, OnTime
<1>3. NoLineIsNewer'
  BY <1>1 DEF DateInv, NoLineIsNewer
<1> QED
  BY <1>2, <1>3 DEF DateInv

LEMMA DateRotate ==
  ASSUME DateInv, CountInv', StampInv', UNCHANGED appendOption, NEW w \in Writer, Rotate(w)
  PROVE  DateInv'
<1>1. TypeInv /\ TypeOK /\ Stamps /\ OpenExists /\ StampInv
  BY DEF DateInv, CountInv, StampInv, TypeInv
<1>2. /\ pc[w] = "rotate" /\ pc' = [pc EXCEPT ![w] = "write"]
      /\ UNCHANGED <<msg, today>> /\ failures \subseteq failures'
  BY <1>1, Rotation
<1>3. DatesKnown' => DatesKnown
  BY <1>2 DEF DatesKnown
<1>4. DatesKnown =>
        /\ \A m \in active.lines : OnDate(m.stamp, dailyOpenTime)
        /\ \A n \in Name : \A m \in archive[n].lines : OnDate(m.stamp, n.date)
  BY DateMeaning DEF DateInv
<1> SUFFICES ASSUME DatesKnown'
             PROVE  /\ fileWriter' = "open" =>
                         \A v \in Writer : OnDate(msg[v].stamp, dailyOpenTime')
                    /\ \A m \in active'.lines : OnDate(m.stamp, dailyOpenTime')
                    /\ \A n \in Name : \A m \in archive'[n].lines : OnDate(m.stamp, n.date)
  <2>1. NoLineIsNewer' <=>
          (DatesKnown' =>
             /\ \A m \in active'.lines : OnDate(m.stamp, dailyOpenTime')
             /\ \A n \in Name : \A m \in archive'[n].lines : OnDate(m.stamp, n.date))
    BY DEF NoLineIsNewer, DatesKnown, OnDate
  <2>2. (DatesKnown' /\ fileWriter' = "open" =>
           \A v \in Writer : OnDate(msg[v].stamp, dailyOpenTime')) => OnTime'
    BY <1>2 DEF OnTime, OnDate
  <2> QED
    BY <2>1, <2>2 DEF DateInv
<1>5. /\ "number" \notin failures' /\ "stat" \notin failures'
      /\ \A m \in active.lines : OnDate(m.stamp, dailyOpenTime)
      /\ \A n \in Name : \A m \in archive[n].lines : OnDate(m.stamp, n.date)
  BY <1>3, <1>4 DEF DatesKnown
<1>6. /\ \/ active'.lines = {} /\ archive' = archive
         \/ /\ active'.lines = {}
            /\ \E n \in FreeNames(RotateDate(msg[w])) :
                 archive' = [archive EXCEPT ![n] = active]
         \/ active' = active /\ archive' = archive
      /\ Reopened("closed") \/ (~Exists(active) /\ Reopened(fileWriter))
  BY <1>1, <1>5, RotationEffect
<1>7. dailyOpenTime' = today \/ (dailyOpenTime' = dailyOpenTime /\ fileWriter' # "open")
  BY <1>1, <1>5, <1>6 DEF Reopened, OpenExists
<1>8. fileWriter' = "open" => \A v \in Writer : OnDate(msg[v].stamp, dailyOpenTime')
  BY <1>1, <1>7 DEF Stamps, OnDate
<1>9. \A m \in active.lines : m.stamp <= today
  BY <1>1, StampFacts DEF Stamps
<1>10. \A m \in active'.lines : OnDate(m.stamp, dailyOpenTime')
  BY <1>5, <1>6, <1>7, <1>9 DEF OnDate
<1>11. ASSUME NEW n \in FreeNames(RotateDate(msg[w])),
              archive' = [archive EXCEPT ![n] = active]
       PROVE  \A k \in Name : \A m \in archive'[k].lines : OnDate(m.stamp, k.date)
  <2>1. n \in Name /\ n.date = RotateDate(msg[w]) /\ archive \in [Name -> File]
    BY <1>1, <1>11 DEF FreeNames, TypeOK
  <2>2. archive'[n] = active /\ \A k \in Name \ {n} : archive'[k] = archive[k]
    BY <1>11, <2>1
  <2>3. Pending(w)
    BY <1>2 DEF Pending
  <2>4. \A m \in active.lines : OnDate(m.stamp, n.date)
    BY <1>1, <1>5, <2>1, <2>3, RotatedDate, StampFacts
  <2> QED
    BY <1>5, <2>2, <2>4
<1>12. \A n \in Name : \A m \in archive'[n].lines : OnDate(m.stamp, n.date)
  BY <1>5, <1>6, <1>11
<1> QED
  BY <1>8, <1>10, <1>12

LEMMA DateInit == Init => DateInv
<1> SUFFICES ASSUME Init PROVE DateInv
  OBVIOUS
<1>1. CountInv /\ StampInv
  BY CountInit, StampInit
<1>2. OnTime /\ NoLineIsNewer
  BY DEF Init, OnTime, NoLineIsNewer, NoFile
<1> QED
  BY <1>1, <1>2 DEF DateInv

LEMMA DateNext == DateInv /\ [Next]_vars => DateInv'
<1> SUFFICES ASSUME DateInv, [Next]_vars, UNCHANGED appendOption PROVE DateInv'
  BY DEF Next, vars
<1>0. /\ CountInv' /\ StampInv' /\ CountInv /\ StampInv /\ TypeInv /\ TypeOK /\ Stamps
      /\ OnTime /\ DOMAIN pc = Writer
      /\ DatesKnown =>
           /\ \A m \in active.lines : OnDate(m.stamp, dailyOpenTime)
           /\ \A n \in Name : \A m \in archive[n].lines : OnDate(m.stamp, n.date)
  BY CountNext, StampNext, DateMeaning, StampFacts DEF DateInv, CountInv, StampInv, TypeInv
<1>1. ASSUME NEW w \in Writer, Begin(w) PROVE DateInv'
  <2>1. /\ UNCHANGED <<active, archive, fileWriter, dailyOpenTime, failures>>
        /\ pc' = [pc EXCEPT ![w] = IF appendOption THEN "check" ELSE "write"]
        /\ \A v \in Writer \ {w} : msg'[v] = msg[v]
    BY <1>0, <1>1 DEF Begin, fileVars, histVars, Goto, TypeOK
  <2>2. ASSUME appendOption PROVE OnTime'
    <3>1. \A v \in Writer : pc'[v] = "write" => pc[v] = "write" /\ msg'[v] = msg[v]
      BY <1>0, <2>1, <2>2
    <3> QED
      BY <1>0, <2>1, <3>1 DEF OnTime, DatesKnown, OnDate
  <2>3. OnTime'
    BY <2>2 DEF OnTime, DatesKnown
  <2>4. NoLineIsNewer'
    BY <2>1 DEF DateInv, NoLineIsNewer
  <2> QED
    BY <1>0, <2>3, <2>4 DEF DateInv
<1>2. ASSUME NEW w \in Writer, Check(w) \/ Rechecked(w) PROVE DateInv'
  <2>1. /\ UNCHANGED <<msg, active, archive, fileWriter, dailyOpenTime, failures>>
        /\ \/ ~needCreateFresh(msg[w]) /\ pc' = [pc EXCEPT ![w] = "write"]
           \/ pc' = [pc EXCEPT ![w] = "rotate"]
    BY <1>2 DEF Check, Rechecked, Goto, fileVars, histVars
  <2>2. \A v \in Writer : pc'[v] = "write" =>
          pc[v] = "write" \/ (v = w /\ ~needCreateFresh(msg[w]))
    BY <1>0, <2>1
  <2>3. Daily /\ ~needCreateFresh(msg[w]) => Day(msg[w].stamp) = Day(dailyOpenTime)
    BY DEF needCreateFresh
  <2>4. DatesKnown /\ fileWriter = "open" =>
          \A v \in Writer : pc'[v] = "write" => OnDate(msg[v].stamp, dailyOpenTime)
    BY <1>0, <2>2, <2>3 DEF OnTime, DatesKnown, OnDate
  <2>5. OnTime'
    BY <2>1, <2>4 DEF OnTime, DatesKnown, OnDate
  <2>6. NoLineIsNewer'
    BY <2>1 DEF DateInv, NoLineIsNewer
  <2> QED
    BY <1>0, <2>5, <2>6 DEF DateInv
<1>3. ASSUME NEW w \in Writer, Rotate(w) PROVE DateInv'
  BY <1>0, <1>3, DateRotate
<1>4. ASSUME NEW w \in Writer, Write(w) PROVE DateInv'
  <2>1. /\ pc[w] = "write" /\ pc' = [pc EXCEPT ![w] = "idle"]
        /\ UNCHANGED <<msg, archive, fileWriter, dailyOpenTime, failures>>
        /\ \/ active' = active
           \/ /\ fileWriter = "open"
              /\ active' = [lines |-> active.lines \union {msg[w]}, mtime |-> today]
    BY <1>4 DEF Write, Goto
  <2>2. \A v \in Writer : pc'[v] = "write" => pc[v] = "write"
    BY <1>0, <2>1
  <2>3. OnTime'
    BY <1>0, <2>1, <2>2 DEF OnTime, DatesKnown, OnDate
  <2>4. DatesKnown => \A m \in active'.lines : OnDate(m.stamp, dailyOpenTime)
    BY <1>0, <2>1 DEF OnTime
  <2>5. NoLineIsNewer'
    BY <1>0, <2>1, <2>4 DEF NoLineIsNewer, DatesKnown, OnDate
  <2> QED
    BY <1>0, <2>3, <2>5 DEF DateInv
<1>5. ASSUME NEW w \in Writer, WriteFails(w) PROVE DateInv'
  <2>1. UNCHANGED <<msg, fileVars, failures>>
    BY <1>5 DEF WriteFails, histVars
  <2>2. \A v \in Writer : pc'[v] = "write" => pc[v] = "write"
    BY <1>0, <1>5 DEF WriteFails, Goto
  <2> QED
    BY <1>0, <2>1, <2>2, DateStutter
<1>6. CASE deleteOldLog
  <2>1. /\ UNCHANGED <<pc, msg, histVars, dailyOpenTime>>
        /\ active' \in {active, NoFile} /\ fileWriter' \in {fileWriter, "unlinked"}
        /\ \A n \in Name : archive'[n] \in {archive[n], NoFile}
    BY <1>0, <1>6, Walk
  <2>2. UNCHANGED <<pc, msg, failures, dailyOpenTime>> /\ NoFile.lines = {}
    BY <2>1 DEF histVars, NoFile
  <2>3. OnTime'
    BY <1>0, <2>1, <2>2 DEF OnTime, DatesKnown, OnDate
  <2>4. NoLineIsNewer'
    BY <1>0, <2>1, <2>2 DEF NoLineIsNewer, DatesKnown, OnDate
  <2> QED
    BY <1>0, <2>3, <2>4 DEF DateInv
<1>7. CASE Tick
  <2>1. UNCHANGED <<pc, msg, fileVars, failures>>
    BY <1>7 DEF Tick, histVars
  <2> QED
    BY <1>0, <2>1, DateStutter
<1>8. CASE Restart
  <2>1. /\ UNCHANGED <<archive, today, failures>> /\ pc' = [w \in Writer |-> "idle"]
        /\ newFile(active, "closed", "none")
        /\ today \in Days /\ active \in File /\ IsFiniteSet(active.lines)
    BY <1>0, <1>8 DEF Restart, TypeInv, TypeOK, FilesFinite, histVars
  <2>2. active'.lines = active.lines /\ dailyOpenTime' = today
    BY <2>1, NewFile
  <2>3. OnTime'
    BY <2>1 DEF OnTime
  <2>4. \A m \in active'.lines : m.stamp <= dailyOpenTime'
    BY <1>0, <2>2, StampFacts DEF Stamps
  <2>5. NoLineIsNewer'
    BY <1>0, <2>1, <2>4 DEF NoLineIsNewer, DatesKnown, OnDate
  <2> QED
    BY <1>0, <2>3, <2>5 DEF DateInv
<1>9. CASE UNCHANGED vars
  <2>1. UNCHANGED <<pc, msg, fileVars, failures>>
    BY <1>9 DEF vars
  <2> QED
    BY <1>0, <2>1, DateStutter
<1> QED
  BY <1>1, <1>2, <1>3, <1>4, <1>5, <1>6, <1>7, <1>8, <1>9 DEF Next, LogWrite

\* No file has a line that is of a later day than its name, or than the day it
\* was opened, except one of the same day of a later month.
THEOREM FileNoLineIsNewer == Spec => []NoLineIsNewer
<1>1. DateInv => NoLineIsNewer
  BY DEF DateInv
<1> QED
  BY <1>1, DateInit, DateNext, PTL DEF Spec
-----------------------------------------------------------------------------
(* Without the option append.                                              *)

\* No goroutine comes to the checks, so that nothing is rotated or deleted.
PlainInv ==
  TypeInv /\
  (~appendOption =>
     /\ \A w \in Writer : pc[w] \in {"idle", "write"}
     /\ fileWriter = "open" /\ ~walking /\ Exists(active)
     /\ written \subseteq active.lines)

LEMMA PlainInit == Init => PlainInv
BY TypeInit DEF Init, PlainInv, Exists

LEMMA PlainNext == PlainInv /\ [Next]_vars => PlainInv'
<1> SUFFICES ASSUME PlainInv, [Next]_vars, ~appendOption, ~appendOption' PROVE PlainInv'
  BY TypeNext DEF PlainInv, Next, vars
<1>0. /\ TypeInv' /\ DOMAIN pc = Writer /\ today \in Days
      /\ \A w \in Writer : pc[w] \in {"idle", "write"}
      /\ fileWriter = "open" /\ ~walking /\ Exists(active)
      /\ written \subseteq active.lines
  BY TypeNext DEF PlainInv, TypeInv, TypeOK
<1>1. ASSUME NEW w \in Writer, Begin(w) PROVE PlainInv'
  <2>1. /\ pc' = [pc EXCEPT ![w] = "write"]
        /\ UNCHANGED <<active, fileWriter, walking, written>>
    BY <1>1 DEF Begin, Goto, fileVars, histVars
  <2> QED
    BY <1>0, <2>1 DEF PlainInv, Exists
<1>2. ASSUME NEW w \in Writer, Check(w) \/ Rechecked(w) \/ Rotate(w) PROVE FALSE
  BY <1>0, <1>2 DEF Check, Rechecked, Rotate
<1>3. ASSUME NEW w \in Writer, Write(w) PROVE PlainInv'
  <2>1. /\ pc' = [pc EXCEPT ![w] = "idle"]
        /\ active'.lines = active.lines \union {msg[w]} /\ active'.mtime = today
        /\ written' = written \union {msg[w]}
        /\ UNCHANGED <<fileWriter, walking>>
    BY <1>0, <1>3 DEF Write, Goto
  <2> QED
    BY <1>0, <2>1 DEF PlainInv, Exists, Days
<1>4. ASSUME NEW w \in Writer, WriteFails(w) PROVE PlainInv'
  <2>1. /\ pc' = [pc EXCEPT ![w] = "idle"]
        /\ UNCHANGED <<active, fileWriter, walking, written>>
    BY <1>4 DEF WriteFails, Goto, fileVars, histVars
  <2> QED
    BY <1>0, <2>1 DEF PlainInv, Exists
<1>5. ~deleteOldLog
  BY <1>0 DEF deleteOldLog
<1>6. CASE Tick
  BY <1>0, <1>6 DEF Tick, fileVars, histVars, PlainInv, Exists
<1>7. CASE Restart
  <2>1. /\ pc' = [w \in Writer |-> "idle"] /\ active' = active
        /\ fileWriter' = "open" /\ ~walking' /\ written' = written
    BY <1>0, <1>7 DEF Restart, newFile, histVars
  <2> QED
    BY <1>0, <2>1 DEF PlainInv, Exists
<1>8. CASE UNCHANGED vars
  BY <1>0, <1>8 DEF vars, fileVars, PlainInv, Exists
<1> QED
  BY <1>1, <1>2, <1>3, <1>4, <1>5, <1>6, <1>7, <1>8 DEF Next, LogWrite

\* Without the option append every line LogWrite accepted is in the active file:
\* no rotation, no walk and no restart takes it away.
THEOREM FileKeptWithoutAppend == Spec => []KeptWithoutAppend
<1>1. PlainInv => KeptWithoutAppend
  BY DEF PlainInv, KeptWithoutAppend
<1> QED
  BY <1>1, PlainInit, PlainNext, PTL DEF Spec
=============================================================================
