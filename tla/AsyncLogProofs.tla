---------------------------- MODULE AsyncLogProofs ----------------------------
(***************************************************************************)
(* Theorems about AsyncLog, for every set of threads and every bound.      *)
(***************************************************************************)
EXTENDS AsyncLog, SequenceLemmas

\* The lines there are, and that the names of no thread are threads.
LEMMA LinesThere ==
  /\ \A t \in Threads : t # Writer /\ t # Handler /\ t # Nobody
  /\ \A t \in Threads, n \in 1 .. MaxLines : <<t, n>> \in Lines
  /\ <<Handler, 1>> \in Lines
  /\ \A x \in Lines : <<x>> \in Seq(Lines) /\ Len(<<x>>) = 1
BY LogAssumption DEF Lines

-----------------------------------------------------------------------------
(* Types.                                                                  *)

\* TypeOK holds where the program starts.
LEMMA TypeInitially == Init => TypeOK
<1> SUFFICES ASSUME Init PROVE TypeOK
  OBVIOUS
<1>1. Null \notin Seconds /\ 0 \in Seconds
  BY LogAssumption DEF Null, Seconds
<1> QED
  BY <1>1, LogAssumption DEF Init, TypeOK, Nobody, Writer

\* The steps of the threads that log.
LEMMA TypeProducers ==
  ASSUME TypeOK, NEW t \in Threads, Lock(t) \/ Push(t)
  PROVE  TypeOK'
<1>1. CASE Lock(t)
  BY <1>1, LinesThere DEF Lock, TypeOK, writerVars, fileVars, exitVars, Nobody, Writer
<1>2. CASE Push(t)
  <2>1. logged[t] \in 0 .. MaxLines /\ logged[t] < MaxLines
    BY <1>2 DEF Push, TypeOK
  <2>2. <<t, logged[t] + 1>> \in Lines
    BY <2>1, LinesThere, LogAssumption
  <2>3. lines' \in Seq(Lines)
    BY <1>2, <2>2, AppendProperties DEF Push, TypeOK
  <2>4. logged' \in [Threads -> 0 .. MaxLines]
    BY <1>2, <2>1, LogAssumption DEF Push, TypeOK
  <2>5. /\ holder = t /\ holder' = Nobody
        /\ pc' = IF pc = "asleep" THEN "test" ELSE pc
        /\ UNCHANGED <<named, line, console, fileVars, clock, ctl, victim, exit, due>>
    BY <1>2 DEF Push, Notify, writerVars, exitVars
  <2> QED  BY <2>3, <2>4, <2>5, LinesThere DEF TypeOK, fileVars, Nobody, Writer
<1> QED  BY <1>1, <1>2

\* A file is replaced by another sequence of lines, of another length.
LEMMA FilesStay ==
  ASSUME NEW s \in Seconds, NEW new \in Seq(Lines), NEW n \in Nat,
         files \in [Seconds -> Seq(Lines)], bytes \in [Seconds -> Nat]
  PROVE  /\ [files EXCEPT ![s] = new] \in [Seconds -> Seq(Lines)]
         /\ [bytes EXCEPT ![s] = n] \in [Seconds -> Nat]
OBVIOUS

\* The lines of a file that is there.
LEMMA FileLines ==
  ASSUME TypeOK, NEW s \in Seconds
  PROVE  files[s] \in Seq(Lines) /\ Range(files[s]) \subseteq Lines
<1>1. files[s] \in Seq(Lines)
  BY DEF TypeOK
<1> QED  BY <1>1 DEF Range

\* Opening a file keeps TypeOK, whether the open succeeds or not.
LEMMA TypeRoll ==
  ASSUME TypeOK, NEW ok \in BOOLEAN, Roll(ok)
  PROVE  TypeOK'
<1>1. Null \notin Seconds /\ clock \in Seconds
  BY LogAssumption DEF Null, Seconds, TypeOK
<1>2. <<>> \in Seq(Lines) /\ 0 \in Nat
  OBVIOUS
<1>3. /\ pc = "top" /\ pc' \in {"test", "failed"}
      /\ UNCHANGED <<named, lines, holder, logged, line, console, clock, ctl, victim, exit, due>>
  BY DEF Roll, queueVars, exitVars, fileVars
<1>4. CASE named /\ (handle = Null \/ size >= RollSize)
  <2>1. size' = 0
    BY <1>4 DEF Roll, NewSize
  <2>2. CASE ok
    <3>1. /\ files' = [files EXCEPT ![clock] = <<>>] /\ bytes' = [bytes EXCEPT ![clock] = 0]
          /\ truncated' = truncated \cup Range(files[clock])
          /\ handle' = clock /\ pc' = "test"
      BY <1>4, <2>2 DEF Roll, CreateNewFile
    <3>2. files' \in [Seconds -> Seq(Lines)] /\ bytes' \in [Seconds -> Nat]
      BY <1>1, <1>2, <3>1, FilesStay DEF TypeOK
    <3>3. truncated' \subseteq Lines
      BY <1>1, <3>1, FileLines DEF TypeOK
    <3> QED  BY <1>1, <1>3, <1>4, <2>1, <3>1, <3>2, <3>3 DEF TypeOK
  <2>3. CASE ~ok
    BY <1>1, <1>3, <1>4, <2>1, <2>3 DEF Roll, TypeOK
  <2> QED  BY <2>2, <2>3
<1>5. CASE ~(named /\ (handle = Null \/ size >= RollSize))
  BY <1>3, <1>5 DEF Roll, TypeOK, fileVars
<1> QED  BY <1>4, <1>5

\* What Write does, when the file takes the line and when there is none.
LEMMA Written ==
  ASSUME TypeOK, NEW ok \in BOOLEAN, Write(ok)
  PROVE  /\ pc = "write" /\ pc' = (IF ok THEN "top" ELSE "failed")
         /\ line' = <<>> /\ console' = console \o line
         /\ UNCHANGED <<named, lines, holder, logged, handle, truncated, clock,
                        ctl, victim, exit, due>>
         /\ ~(named /\ ok) => UNCHANGED <<files, bytes, size>>
         /\ named /\ ok => \E length \in 1 .. MaxLength :
              /\ files' = [files EXCEPT ![handle] = files[handle] \o line]
              /\ bytes' = [bytes EXCEPT ![handle] = bytes[handle] + length]
              /\ size' = size + length
BY DEF Write, queueVars, exitVars

\* Writing a line keeps TypeOK, whether the write succeeds or not.
LEMMA TypeWrite ==
  ASSUME TypeOK, NEW ok \in BOOLEAN, Write(ok)
  PROVE  TypeOK'
<1>1. /\ pc = "write" /\ line' = <<>> /\ console' = console \o line
      /\ pc' = (IF ok THEN "top" ELSE "failed")
      /\ UNCHANGED <<named, lines, holder, logged, handle, truncated, clock, ctl, victim,
                     exit, due>>
  BY Written
<1>2. console' \in Seq(Lines)
  BY <1>1, ConcatProperties DEF TypeOK
<1>3. size' \in Nat /\ files' \in [Seconds -> Seq(Lines)] /\ bytes' \in [Seconds -> Nat]
  <2>1. CASE named /\ ok
    <3>1. handle \in Seconds
      BY <1>1, <2>1 DEF TypeOK
    <3>2. files[handle] \o line \in Seq(Lines)
      BY <3>1, ConcatProperties DEF TypeOK
    <3>3. PICK length \in 1 .. MaxLength :
            /\ files' = [files EXCEPT ![handle] = files[handle] \o line]
            /\ bytes' = [bytes EXCEPT ![handle] = bytes[handle] + length]
            /\ size' = size + length
      BY <2>1, Written
    <3>4. bytes[handle] + length \in Nat /\ size' \in Nat
      BY <3>1, <3>3, LogAssumption DEF TypeOK
    <3>5. files' \in [Seconds -> Seq(Lines)] /\ bytes' \in [Seconds -> Nat]
      BY <3>1, <3>2, <3>3, <3>4, FilesStay DEF TypeOK
    <3> QED  BY <3>4, <3>5
  <2>2. CASE ~(named /\ ok)
    BY <2>2, Written DEF TypeOK
  <2> QED  BY <2>1, <2>2
<1> QED  BY <1>1, <1>2, <1>3 DEF TypeOK

\* The write thread keeps TypeOK.
LEMMA TypeWriter ==
  ASSUME TypeOK, WriterStep \/ SpuriousWakeup
  PROVE  TypeOK'
<1>1. CASE TakeLine
  <2>1. /\ pc = "test" /\ pc' = "write" /\ holder = Nobody /\ lines # <<>>
        /\ line' = <<Head(lines)>> /\ lines' = Tail(lines)
        /\ UNCHANGED <<named, holder, logged, console, handle, size, files, bytes, truncated,
                       clock, ctl, victim, exit, due>>
    BY <1>1 DEF TakeLine, PopFront, fileVars, exitVars
  <2>2. Head(lines) \in Lines /\ Tail(lines) \in Seq(Lines)
    BY <2>1, HeadTailProperties DEF TypeOK
  <2> QED  BY <2>1, <2>2, LinesThere DEF TypeOK, Nobody, Writer
<1>2. CASE TestEmpty
  BY <1>2, LinesThere DEF TestEmpty, TypeOK, Nobody, Writer, writerVars, fileVars, exitVars
<1>3. CASE Wait
  BY <1>3, LinesThere DEF Wait, TypeOK, Nobody, Writer, writerVars, fileVars, exitVars
<1>4. CASE SpuriousWakeup
  BY <1>4 DEF SpuriousWakeup, TypeOK, queueVars, writerVars, fileVars, exitVars
<1> QED  BY <1>1, <1>2, <1>3, <1>4, TypeRoll, TypeWrite DEF WriterStep

\* The code behind a crash and the signals keep TypeOK.
LEMMA TypeHandler ==
  ASSUME TypeOK, HandlerStep \/ \E t \in Threads \cup {Writer} : Signal(t)
  PROVE  TypeOK'
<1>1. ASSUME NEW t \in Threads \cup {Writer}, Signal(t) PROVE TypeOK'
  BY <1>1 DEF Signal, TypeOK, queueVars, writerVars, fileVars
<1>2. CASE LogFinish
  <2>1. /\ lines' \in Seq(Lines) /\ holder = Nobody
        /\ pc' = (IF pc = "asleep" THEN "test" ELSE pc)
        /\ ctl = "logging" /\ ctl' = "uninit"
        /\ UNCHANGED <<named, holder, logged, line, console, handle, size, files, bytes,
                       truncated, clock, victim, exit, due>>
    BY <1>2, LinesThere, AppendProperties
       DEF LogFinish, Notify, TypeOK, writerVars, fileVars
  <2> QED  BY <2>1 DEF TypeOK, Nobody, Writer
<1>3. CASE SetExit
  <2>1. Len(console) + Len(line) + Len(lines) \in Nat
    BY LenProperties DEF TypeOK
  <2> QED  BY <1>3, <2>1 DEF SetExit, TypeOK, queueVars, writerVars, fileVars
<1>4. CASE NotifyExit
  BY <1>4 DEF NotifyExit, Notify, TypeOK, queueVars, writerVars, fileVars
<1>5. CASE Join
  BY <1>5 DEF Join, Ended, TypeOK, queueVars
<1> QED  BY <1>1, <1>2, <1>3, <1>4, <1>5 DEF HandlerStep

\* Every step keeps TypeOK.
LEMMA TypeStays == TypeOK /\ [Next]_vars => TypeOK'
<1> SUFFICES ASSUME TypeOK, [Next]_vars PROVE TypeOK'
  OBVIOUS
<1>1. CASE Tick
  BY <1>1, LogAssumption DEF Tick, Seconds, TypeOK, queueVars, writerVars, fileVars, exitVars
<1>2. CASE UNCHANGED vars
  BY <1>2 DEF vars, TypeOK, queueVars, writerVars, fileVars, exitVars
<1> QED
  BY <1>1, <1>2, TypeProducers, TypeWriter, TypeHandler DEF Next

\* TypeOK: where the write thread is agrees with the mutex, the line in hand
\* and the open file, and where the handler is with m_bExit.
THEOREM TypeCorrect == SafetySpec => []TypeOK
BY TypeInitially, TypeStays, PTL DEF SafetySpec

-----------------------------------------------------------------------------
(* Sleep, and the exit.                                                    *)

\* NoSleepOnLines from the moment the write thread has seen the empty list:
\* until it waits, the mutex is in its hands.
NoWaitOnLines == pc \in {"wait", "asleep"} => lines = <<>>

\* NoSleepOnLines, for every set of threads.
THEOREM NeverSleepsOnLines == SafetySpec => []NoSleepOnLines
<1>1. Init => NoWaitOnLines
  BY DEF Init, NoWaitOnLines
<1>2. TypeOK /\ NoWaitOnLines /\ [Next]_vars => NoWaitOnLines'
  <2> SUFFICES ASSUME TypeOK, NoWaitOnLines, [Next]_vars PROVE NoWaitOnLines'
    OBVIOUS
  <2>1. ASSUME NEW t \in Threads, Lock(t) \/ Push(t) PROVE NoWaitOnLines'
    <3>1. CASE Lock(t)
      BY <3>1 DEF Lock, NoWaitOnLines
    <3>2. CASE Push(t)
      <4>1. pc # "wait"
        BY <3>2, LinesThere DEF Push, TypeOK
      <4>2. pc' \notin {"wait", "asleep"}
        BY <3>2, <4>1 DEF Push, Notify
      <4> QED  BY <4>2 DEF NoWaitOnLines
    <3> QED  BY <2>1, <3>1, <3>2
  <2>2. CASE WriterStep \/ SpuriousWakeup
    BY <2>2 DEF WriterStep, SpuriousWakeup, Roll, Write, TakeLine, TestEmpty, Returns, Wait,
                NoWaitOnLines, queueVars
  <2>3. ASSUME NEW t \in Threads \cup {Writer}, Signal(t) PROVE NoWaitOnLines'
    BY <2>3 DEF Signal, NoWaitOnLines, queueVars
  <2>4. CASE LogFinish
    <3>1. pc # "wait"
      BY <2>4, LinesThere DEF LogFinish, TypeOK, Nobody, Writer
    <3>2. pc' \notin {"wait", "asleep"}
      BY <2>4, <3>1 DEF LogFinish, Notify
    <3> QED  BY <3>2 DEF NoWaitOnLines
  <2>5. CASE SetExit \/ NotifyExit \/ Join \/ Tick \/ UNCHANGED vars
    BY <2>5 DEF SetExit, NotifyExit, Notify, Join, Tick, vars, NoWaitOnLines, queueVars
  <2> QED  BY <2>1, <2>2, <2>3, <2>4, <2>5 DEF Next, HandlerStep
<1>3. NoWaitOnLines => NoSleepOnLines
  BY DEF NoWaitOnLines, NoSleepOnLines
<1> QED  BY <1>1, <1>2, <1>3, TypeCorrect, PTL DEF SafetySpec

\* How many lines were queued so far.
Queued == Len(console) + Len(line) + Len(lines)

\* The count ExitDrains ends in: lines only move on.
DrainCounts ==
  /\ exit => Queued >= due
  /\ pc = "ended" => exit /\ Len(console) >= due

\* No line that was queued when m_bExit was set is overtaken by the end.
LEMMA DrainCountsHold == SafetySpec => []DrainCounts
<1>1. Init => DrainCounts
  BY DEF Init, DrainCounts
<1>2. TypeOK /\ DrainCounts /\ [Next]_vars => DrainCounts'
  <2> SUFFICES ASSUME TypeOK, DrainCounts, [Next]_vars PROVE DrainCounts'
    OBVIOUS
  <2>1. Len(console) \in Nat /\ Len(line) \in Nat /\ Len(lines) \in Nat /\ due \in Nat
    BY LenProperties DEF TypeOK
  <2>2. ASSUME Queued' >= Queued, UNCHANGED <<exit, due, console>>, pc' = "ended" => pc = "ended",
               Queued' \in Nat
        PROVE  DrainCounts'
    BY <2>1, <2>2 DEF DrainCounts, Queued
  <2>3. ASSUME NEW x \in Lines, lines' = Append(lines, x), UNCHANGED <<line, console>>
        PROVE  Queued' = Queued + 1
    <3>1. Len(lines') = Len(lines) + 1
      BY <2>3, AppendProperties DEF TypeOK
    <3> QED  BY <2>1, <2>3, <3>1 DEF Queued
  <2>4. ASSUME NEW t \in Threads, Lock(t) \/ Push(t) PROVE DrainCounts'
    <3>1. CASE Lock(t)
      BY <2>1, <2>2, <3>1 DEF Lock, writerVars, exitVars, Queued
    <3>2. CASE Push(t)
      <4>1. <<t, logged[t] + 1>> \in Lines
        <5>1. logged[t] \in 0 .. MaxLines /\ logged[t] < MaxLines
          BY <3>2 DEF Push, TypeOK
        <5> QED  BY <5>1, LinesThere, LogAssumption
      <4>2. Queued' = Queued + 1
        BY <2>3, <3>2, <4>1 DEF Push, writerVars
      <4> QED
        BY <2>1, <2>2, <3>2, <4>2 DEF Push, Notify, writerVars, exitVars, Queued
    <3> QED  BY <2>4, <3>1, <3>2
  <2>5. CASE TakeLine
    <3>1. Len(line) = 0 /\ Len(line') = 1 /\ Len(lines') = Len(lines) - 1
      BY <2>5, HeadTailProperties DEF TakeLine, PopFront, TypeOK
    <3> QED
      BY <2>1, <2>2, <2>5, <3>1 DEF TakeLine, fileVars, exitVars, Queued
  <2>6. CASE TestEmpty
    <3>1. UNCHANGED <<lines, line, console, exit, due>> /\ lines = <<>> /\ Len(line) = 0
      BY <2>6 DEF TestEmpty, Returns, TypeOK, writerVars, exitVars
    <3>2. pc' = "ended" => exit
      BY <2>6 DEF TestEmpty, Returns
    <3> QED  BY <2>1, <3>1, <3>2 DEF DrainCounts, Queued
  <2>7. ASSUME NEW ok \in BOOLEAN, Write(ok) PROVE DrainCounts'
    <3>1. line' = <<>> /\ console' = console \o line /\ pc' # "ended"
          /\ UNCHANGED <<lines, exit, due>>
      BY <2>7, Written
    <3>2. Len(console') = Len(console) + Len(line)
      BY <3>1, ConcatProperties DEF TypeOK
    <3> QED  BY <2>1, <3>1, <3>2 DEF DrainCounts, Queued
  <2>8. CASE (\E ok \in BOOLEAN : Roll(ok)) \/ Wait \/ SpuriousWakeup
    BY <2>1, <2>2, <2>8
       DEF Roll, Wait, SpuriousWakeup, queueVars, writerVars, exitVars, Queued
  <2>9. CASE LogFinish
    <3>1. Queued' = Queued + 1
      BY <2>3, <2>9, LinesThere DEF LogFinish, writerVars
    <3> QED
      BY <2>1, <2>2, <2>9, <3>1 DEF LogFinish, Notify, writerVars, Queued
  <2>10. CASE SetExit
    <3>1. ~exit /\ pc # "ended"
      BY <2>10 DEF SetExit, TypeOK, DrainCounts
    <3> QED
      BY <2>1, <2>10, <3>1 DEF SetExit, DrainCounts, Queued, queueVars, writerVars
  <2>11. CASE \/ \E t \in Threads \cup {Writer} : Signal(t)
              \/ NotifyExit \/ Join \/ Tick \/ UNCHANGED vars
    BY <2>1, <2>2, <2>11
       DEF Signal, NotifyExit, Notify, Join, Tick, vars, queueVars, writerVars, exitVars, Queued
  <2> QED
    BY <2>4, <2>5, <2>6, <2>7, <2>8, <2>9, <2>10, <2>11 DEF Next, WriterStep, HandlerStep
<1> QED  BY <1>1, <1>2, TypeCorrect, PTL DEF SafetySpec

\* The lines that are in a file, or were until it was created again.
InFiles == truncated \cup UNION {Range(files[s]) : s \in Seconds}

\* A write that succeeds puts the line in a file, too.
Filed == named /\ pc # "failed" => Range(console) \subseteq InFiles

\* A new file takes no line out of InFiles.
LEMMA FiledRoll ==
  ASSUME TypeOK, Filed, NEW ok \in BOOLEAN, Roll(ok)
  PROVE  Filed'
<1>1. pc = "top" /\ UNCHANGED <<named, console>>
  BY DEF Roll
<1>2. CASE UNCHANGED <<files, truncated>>
  BY <1>1, <1>2 DEF Filed, InFiles
<1>3. CASE CreateNewFile
  <2>1. clock \in Seconds /\ files \in [Seconds -> Seq(Lines)]
    BY DEF TypeOK
  <2>2. /\ truncated' = truncated \cup Range(files[clock])
        /\ \A s \in Seconds \ {clock} : files'[s] = files[s]
    BY <1>3, <2>1 DEF CreateNewFile
  <2>3. ASSUME NEW x \in InFiles PROVE x \in InFiles'
    <3>1. CASE x \in truncated
      BY <2>2, <3>1 DEF InFiles
    <3>2. ASSUME NEW s \in Seconds, x \in Range(files[s]) PROVE x \in InFiles'
      BY <2>2, <3>2 DEF InFiles
    <3> QED  BY <3>1, <3>2 DEF InFiles
  <2> QED  BY <1>1, <2>3 DEF Filed
<1> QED  BY <1>2, <1>3 DEF Roll, fileVars

\* A line that goes to the console goes to the file.
LEMMA FiledWrite ==
  ASSUME TypeOK, Filed, NEW ok \in BOOLEAN, Write(ok)
  PROVE  Filed'
<1>1. /\ pc = "write" /\ pc' = (IF ok THEN "top" ELSE "failed")
      /\ console' = console \o line /\ UNCHANGED <<named, truncated>>
  BY Written
<1>2. CASE named /\ ok
  <2>1. /\ handle \in Seconds /\ files \in [Seconds -> Seq(Lines)]
        /\ line \in Seq(Lines) /\ console \in Seq(Lines)
    BY <1>1, <1>2 DEF TypeOK
  <2>2. files' = [files EXCEPT ![handle] = files[handle] \o line]
    BY <1>2, Written
  <2>3. /\ files'[handle] = files[handle] \o line
        /\ \A s \in Seconds \ {handle} : files'[s] = files[s]
    BY <2>1, <2>2
  <2>4. Range(console') = Range(console) \cup Range(line)
    BY <1>1, <2>1, RangeConcatenation
  <2>5. Range(files'[handle]) = Range(files[handle]) \cup Range(line)
    <3>1. files[handle] \in Seq(Lines)
      BY <2>1
    <3> QED  BY <2>1, <2>3, <3>1, RangeConcatenation
  <2>6. ASSUME NEW x \in InFiles \cup Range(line) PROVE x \in InFiles'
    <3>1. CASE x \in truncated
      BY <1>1, <3>1 DEF InFiles
    <3>2. ASSUME NEW s \in Seconds, x \in Range(files[s]) PROVE x \in InFiles'
      <4>1. x \in Range(files'[s])
        BY <2>3, <2>5, <3>2
      <4> QED  BY <4>1 DEF InFiles
    <3>3. CASE x \in Range(line)
      BY <2>1, <2>5, <3>3 DEF InFiles
    <3> QED  BY <3>1, <3>2, <3>3 DEF InFiles
  <2> QED  BY <1>1, <1>2, <2>4, <2>6 DEF Filed
<1>3. CASE ~(named /\ ok)
  BY <1>1, <1>3 DEF Filed
<1> QED  BY <1>2, <1>3

\* Filed holds all the time.
LEMMA FiledHolds == SafetySpec => []Filed
<1>1. Init => Filed
  BY DEF Init, Filed, Range
<1>2. TypeOK /\ Filed /\ [Next]_vars => Filed'
  <2> SUFFICES ASSUME TypeOK, Filed, [Next]_vars PROVE Filed'
    OBVIOUS
  <2>1. ASSUME UNCHANGED <<named, console, files, truncated>>, pc' # "failed" => pc # "failed"
        PROVE  Filed'
    BY <2>1 DEF Filed, InFiles
  <2>2. ASSUME NEW t \in Threads, Lock(t) \/ Push(t) PROVE Filed'
    BY <2>1, <2>2 DEF Lock, Push, Notify, writerVars, fileVars
  <2>3. CASE TakeLine \/ TestEmpty \/ Wait \/ SpuriousWakeup
    BY <2>1, <2>3 DEF TakeLine, TestEmpty, Wait, SpuriousWakeup, writerVars, fileVars
  <2>4. CASE \/ \E t \in Threads \cup {Writer} : Signal(t)
             \/ LogFinish \/ SetExit \/ NotifyExit \/ Join \/ Tick \/ UNCHANGED vars
    BY <2>1, <2>4 DEF Signal, LogFinish, SetExit, NotifyExit, Notify, Join, Tick, vars,
                      writerVars, fileVars
  <2> QED
    BY <2>2, <2>3, <2>4, FiledRoll, FiledWrite DEF Next, WriterStep, HandlerStep
<1> QED  BY <1>1, <1>2, TypeCorrect, PTL DEF SafetySpec

\* ExitDrains, for every set of threads: what was queued before m_bExit was
\* set is on the console when the write thread returns, and with a file name
\* what is on the console is in a file, unless that file was truncated.
THEOREM ExitWritesAll == SafetySpec => []ExitDrains
<1>1. DrainCounts /\ Filed => ExitDrains
  BY DEF DrainCounts, Filed, InFiles, ExitDrains
<1> QED  BY <1>1, DrainCountsHold, FiledHolds, PTL

-----------------------------------------------------------------------------
(* The log is a queue.                                                     *)

\* Whoever queued a line has counted it, so the next one is new.
Numbered ==
  \A x \in Range(lines) \cup Range(console) \cup Range(line) :
    IF x[1] = Handler THEN ctl \notin {"none", "logging"} ELSE x[2] <= logged[x[1]]

Accounted == Range(lines) \cup Range(console) \cup Range(line)

\* Every step leaves the lines of a thread numbered in the order it logs
\* them.
LEMMA NumberedStays == TypeOK /\ Numbered /\ [Next]_vars => Numbered'
<1> SUFFICES ASSUME TypeOK, Numbered, [Next]_vars PROVE Numbered'
  OBVIOUS
<1>1. ASSUME Accounted' \subseteq Accounted, UNCHANGED logged,
             ctl' \in {"none", "logging"} => ctl \in {"none", "logging"}
      PROVE  Numbered'
  BY <1>1 DEF Numbered, Accounted
<1>2. ASSUME NEW t \in Threads, Push(t) PROVE Numbered'
  <2> DEFINE x == <<t, logged[t] + 1>>
  <2>1. logged[t] \in 0 .. MaxLines /\ logged[t] < MaxLines
    BY <1>2 DEF Push, TypeOK
  <2>2. x \in Lines
    BY <2>1, LinesThere, LogAssumption
  <2>3. Range(lines') = Range(lines) \cup {x}
    <3>1. lines' = Append(lines, x) /\ lines \in Seq(Lines)
      BY <1>2 DEF Push, TypeOK
    <3> HIDE DEF x
    <3> QED  BY <2>2, <3>1, RangeAppend
  <2>4. UNCHANGED <<console, line, ctl>> /\ logged' = [logged EXCEPT ![t] = logged[t] + 1]
    BY <1>2 DEF Push, writerVars, exitVars
  <2>5. \A y \in Accounted : y \in Lines
    BY DEF Accounted, TypeOK, Range
  <2>6. ASSUME NEW y \in Accounted'
        PROVE  IF y[1] = Handler THEN ctl' \notin {"none", "logging"} ELSE y[2] <= logged'[y[1]]
    <3>1. CASE y = x
      <4>1. y[1] = t /\ y[2] = logged[t] + 1 /\ t # Handler
        BY <3>1, LinesThere
      <4>2. logged'[t] = logged[t] + 1
        BY <2>4 DEF TypeOK
      <4> QED  BY <2>1, <4>1, <4>2
    <3>2. CASE y # x
      <4>1. y \in Accounted /\ y \in Lines
        BY <2>3, <2>4, <2>5, <3>2 DEF Accounted
      <4>2. CASE y[1] = Handler
        BY <2>4, <4>1, <4>2 DEF Numbered, Accounted
      <4>3. CASE y[1] # Handler
        <5>1. y[1] \in Threads /\ y[2] \in Nat
          BY <4>1, <4>3 DEF Lines
        <5>2. y[2] <= logged[y[1]] /\ logged[y[1]] \in Nat
          BY <4>1, <4>3, <5>1, LogAssumption DEF Numbered, Accounted, TypeOK
        <5>3. logged'[y[1]] \in Nat /\ logged'[y[1]] >= logged[y[1]]
          BY <2>1, <2>4, <5>1, <5>2 DEF TypeOK
        <5> QED  BY <4>3, <5>1, <5>2, <5>3
      <4> QED  BY <4>2, <4>3
    <3> QED  BY <3>1, <3>2
  <2> QED  BY <2>6 DEF Numbered, Accounted
<1>3. CASE LogFinish
  <2>1. Range(lines') = Range(lines) \cup {<<Handler, 1>>}
    BY <1>3, LinesThere, RangeAppend DEF LogFinish, TypeOK
  <2>2. UNCHANGED <<console, line, logged>> /\ ctl' = "uninit"
    BY <1>3 DEF LogFinish, writerVars
  <2> QED  BY <2>1, <2>2 DEF Numbered
<1>4. CASE TakeLine
  <2>1. Head(lines) \in Range(lines) /\ Range(Tail(lines)) \subseteq Range(lines)
    <3>1. /\ lines \in Seq(Lines) /\ lines # <<>> /\ Len(lines) \in Nat \ {0}
          /\ DOMAIN lines = 1 .. Len(lines) /\ Head(lines) = lines[1]
      BY <1>4, LenProperties, EmptySeq DEF TakeLine, TypeOK
    <3>2. /\ Len(Tail(lines)) = Len(lines) - 1 /\ DOMAIN Tail(lines) = 1 .. Len(lines) - 1
          /\ \A i \in 1 .. Len(lines) - 1 : Tail(lines)[i] = lines[i + 1]
      BY <3>1, HeadTailProperties, LenProperties
    <3> QED  BY <3>1, <3>2 DEF Range
  <2>2. Range(line') = {Head(lines)}
    BY <1>4 DEF TakeLine, PopFront, Range
  <2>3. Accounted' \subseteq Accounted
    BY <1>4, <2>1, <2>2 DEF TakeLine, PopFront, Accounted
  <2> QED  BY <1>1, <1>4, <2>3 DEF TakeLine, exitVars
<1>5. ASSUME NEW ok \in BOOLEAN, Write(ok) PROVE Numbered'
  <2>1. Range(console') = Range(console) \cup Range(line)
    BY <1>5, RangeConcatenation DEF Write, TypeOK
  <2>2. Range(line') = {}
    BY <1>5 DEF Write, Range
  <2> QED  BY <1>1, <1>5, <2>1, <2>2 DEF Write, Accounted, queueVars, exitVars
<1>6. ASSUME UNCHANGED <<lines, console, line, logged>>,
             ctl' \in {"none", "logging"} => ctl \in {"none", "logging"}
      PROVE  Numbered'
  BY <1>1, <1>6 DEF Accounted
<1>7. CASE \/ \E t \in Threads : Lock(t)
           \/ (\E ok \in BOOLEAN : Roll(ok)) \/ TestEmpty \/ Wait \/ SpuriousWakeup
           \/ Tick \/ UNCHANGED vars
  BY <1>6, <1>7 DEF Lock, Roll, TestEmpty, Wait, SpuriousWakeup, Tick, vars, queueVars,
                    writerVars, exitVars
<1>8. CASE \/ \E t \in Threads \cup {Writer} : Signal(t)
           \/ SetExit \/ NotifyExit \/ Join
  BY <1>6, <1>8 DEF Signal, SetExit, NotifyExit, Join, queueVars, writerVars
<1> QED
  BY <1>2, <1>3, <1>4, <1>5, <1>7, <1>8 DEF Next, WriterStep, HandlerStep

\* ImplementsQueue without its fairness, for every set of threads: pushes
\* append, the write thread takes the oldest, and its end or a signal that
\* strikes it or the holder of the mutex closes.
THEOREM LogImplementsQueue == SafetySpec => Queue!SafetySpec
<1>1. Init => Queue!Init
  <2>1. <<>> \in Seq(Lines) /\ <<>> \o <<>> = <<>>
    BY EmptySeq, ConcatEmptySeq
  <2> QED  BY <2>1 DEF Init, Queue!Init, Ended, Interlocked
<1>2. Init => Numbered
  BY DEF Init, Numbered, Range
<1>3. TypeOK /\ Numbered /\ [Next]_vars => [Queue!Next]_(Queue!vars)
  <2> SUFFICES ASSUME TypeOK, Numbered, [Next]_vars PROVE [Queue!Next]_(Queue!vars)
    OBVIOUS
  <2> DEFINE Open == ~Ended /\ ~Interlocked
  <2>1. lines \in Seq(Lines) /\ console \in Seq(Lines) /\ line \in Seq(Lines)
    BY DEF TypeOK
  <2>2. ASSUME UNCHANGED <<lines, console, line>>, Open' <=> Open
        PROVE  UNCHANGED Queue!vars
    BY <2>2 DEF Queue!vars
  <2>3. ASSUME UNCHANGED <<lines, console, line>>, Open' => Open
        PROVE  [Queue!Next]_(Queue!vars)
    <3>1. CASE Open /\ ~Open'
      BY <2>3, <3>1 DEF Queue!Close, Queue!Next
    <3>2. CASE Open' <=> Open
      BY <2>2, <2>3, <3>2
    <3> QED  BY <2>3, <3>1, <3>2
  <2>4. ASSUME NEW x \in Lines, x \notin Accounted, lines' = Append(lines, x),
               UNCHANGED <<console, line>>, Open' <=> Open
        PROVE  Queue!Next
    <3>1. Range(console \o line) = Range(console) \cup Range(line)
      BY <2>1, RangeConcatenation
    <3>2. x \notin Range(lines) \cup Range(console \o line)
      BY <2>4, <3>1 DEF Accounted
    <3>3. Queue!Post(x)
      BY <2>4, <3>2 DEF Queue!Post, Queue!Range, Range
    <3> QED  BY <3>3 DEF Queue!Next
  <2>5. ASSUME NEW t \in Threads, Lock(t) PROVE [Queue!Next]_(Queue!vars)
    <3>1. /\ UNCHANGED <<lines, console, line, pc, victim>>
          /\ victim # t /\ holder = Nobody /\ holder' = t
      BY <2>5 DEF Lock, writerVars, exitVars
    <3>2. Open' <=> Open
      BY <3>1, LinesThere DEF Ended, Interlocked
    <3> QED  BY <2>3, <3>1, <3>2
  <2>6. ASSUME NEW t \in Threads, Push(t) PROVE Queue!Next
    <3>1. logged[t] \in 0 .. MaxLines /\ logged[t] < MaxLines
      BY <2>6 DEF Push, TypeOK
    <3>2. <<t, logged[t] + 1>> \in Lines
      BY <3>1, LinesThere, LogAssumption
    <3>3. <<t, logged[t] + 1>> \notin Accounted
      BY <3>1, LinesThere DEF Numbered, Accounted
    <3>4. /\ lines' = Append(lines, <<t, logged[t] + 1>>)
          /\ UNCHANGED <<console, line, victim>>
          /\ victim # t /\ holder = t /\ holder' = Nobody
          /\ pc' = IF pc = "asleep" THEN "test" ELSE pc
      BY <2>6 DEF Push, Notify, writerVars, exitVars
    <3>5. Open' <=> Open
      BY <3>4, LinesThere DEF Ended, Interlocked
    <3> QED  BY <2>4, <3>2, <3>3, <3>4, <3>5
  <2>7. CASE WriterStep
    <3>1. victim # Writer
      BY <2>7 DEF WriterStep
    <3>2. CASE TakeLine
      <4>1. /\ lines # <<>> /\ line = <<>> /\ line' = <<Head(lines)>> /\ lines' = Tail(lines)
            /\ console' = console /\ pc = "test" /\ pc' = "write"
            /\ UNCHANGED <<victim, holder>> /\ holder = Nobody
        BY <3>2, EmptySeq DEF TakeLine, PopFront, TypeOK, exitVars
      <4>2. Head(lines) \in Lines
        BY <2>1, <4>1, HeadTailProperties
      <4>3. console \o line = console /\ console' \o line' = Append(console, Head(lines))
        BY <2>1, <4>1, <4>2, ConcatEmptySeq, AppendIsConcat
      <4>4. Open /\ Open'
        BY <3>1, <4>1 DEF Ended, Interlocked
      <4>5. Queue!Run
        BY <4>1, <4>3, <4>4 DEF Queue!Run
      <4> QED  BY <4>5 DEF Queue!Next
    <3>3. ASSUME NEW ok \in BOOLEAN, Write(ok) PROVE [Queue!Next]_(Queue!vars)
      <4>1. /\ console' = console \o line /\ line' = <<>> /\ pc = "write"
            /\ UNCHANGED <<lines, holder, victim>>
        BY <3>3 DEF Write, queueVars, exitVars
      <4>2. console' \o line' = console \o line
        <5>1. console \o line \in Seq(Lines)
          BY <2>1, ConcatProperties
        <5> QED  BY <4>1, <5>1, ConcatEmptySeq
      <4>3. Open' => Open
        BY <4>1 DEF Ended, Interlocked
      <4>4. CASE Open /\ ~Open'
        BY <4>1, <4>2, <4>4 DEF Queue!Close, Queue!Next
      <4>5. CASE Open' <=> Open
        BY <4>1, <4>2, <4>5 DEF Queue!vars
      <4> QED  BY <4>3, <4>4, <4>5
    <3>4. CASE (\E ok \in BOOLEAN : Roll(ok)) \/ TestEmpty \/ Wait
      <4>1. UNCHANGED <<lines, console, line, victim>>
        BY <3>4 DEF Roll, TestEmpty, Wait, queueVars, writerVars, exitVars
      <4>2. pc \in {"top", "test", "wait"}
        BY <3>4 DEF Roll, TestEmpty, Wait
      <4>3. holder' = holder \/ {holder, holder'} \subseteq {Writer, Nobody}
        BY <3>4 DEF Roll, TestEmpty, Wait, queueVars, TypeOK
      <4>4. Open' => Open
        BY <3>1, <4>1, <4>2, <4>3 DEF Ended, Interlocked
      <4> QED  BY <2>3, <4>1, <4>4
    <3> QED  BY <2>7, <3>2, <3>3, <3>4 DEF WriterStep
  <2>8. CASE SpuriousWakeup \/ Tick \/ SetExit \/ NotifyExit \/ UNCHANGED vars
    <3>1. UNCHANGED <<lines, console, line, victim, holder>>
      BY <2>8 DEF SpuriousWakeup, Tick, SetExit, NotifyExit, vars, queueVars, writerVars, exitVars
    <3>2. Ended' <=> Ended
      BY <2>8 DEF SpuriousWakeup, Tick, SetExit, NotifyExit, Notify, vars, Ended
    <3> QED  BY <2>2, <3>1, <3>2 DEF Interlocked
  <2>9. ASSUME NEW t \in Threads \cup {Writer}, Signal(t) PROVE [Queue!Next]_(Queue!vars)
    <3>1. UNCHANGED <<lines, console, line, pc, holder>> /\ victim = Nobody
      BY <2>9 DEF Signal, queueVars, writerVars, TypeOK
    <3>2. Open' => Open
      BY <3>1 DEF Ended, Interlocked
    <3> QED  BY <2>3, <3>1, <3>2
  <2>10. CASE LogFinish
    <3>1. /\ lines' = Append(lines, <<Handler, 1>>) /\ ctl = "logging"
          /\ UNCHANGED <<console, line, holder, victim>>
          /\ pc' = IF pc = "asleep" THEN "test" ELSE pc
      BY <2>10 DEF LogFinish, Notify, writerVars
    <3>2. <<Handler, 1>> \notin Accounted
      BY <3>1 DEF Numbered, Accounted
    <3>3. Open' <=> Open
      BY <3>1 DEF Ended, Interlocked
    <3> QED  BY <2>4, <3>1, <3>2, <3>3, LinesThere
  <2>11. CASE Join
    <3>1. UNCHANGED <<lines, console, line, pc, holder>>
      BY <2>11 DEF Join, queueVars
    <3>2. Open' <=> Open
      <4>1. CASE victim = Writer
        BY <2>11, <3>1, <4>1 DEF Join, Ended, Interlocked
      <4>2. CASE victim # Writer
        BY <2>11, <3>1, <4>2 DEF Join, Ended
      <4> QED  BY <4>1, <4>2
    <3> QED  BY <2>3, <3>1, <3>2
  <2> QED
    BY <2>5, <2>6, <2>7, <2>8, <2>9, <2>10, <2>11 DEF Next, HandlerStep
<1> QED
  BY <1>1, <1>2, <1>3, NumberedStays, TypeCorrect, PTL DEF SafetySpec, Queue!SafetySpec

-----------------------------------------------------------------------------
(* Files.                                                                  *)

\* The lines of the file f are the newest n.
Latest(f, c, n) ==
  /\ n = Len(f) /\ n <= Len(c)
  /\ \A i \in 1 .. n : f[i] = c[Len(c) - n + i]

\* The file that holds the latest n lines is the end of what was taken.
LEMMA LatestIsSubSeq ==
  ASSUME NEW f \in Seq(Lines), NEW c \in Seq(Lines), NEW n \in Nat, Latest(f, c, n)
  PROVE  f = SubSeq(c, Len(c) - n + 1, Len(c))
<1> DEFINE m == Len(c) - n + 1
           sub == SubSeq(c, m, Len(c))
<1>1. n = Len(f) /\ n <= Len(c) /\ Len(c) \in Nat /\ m \in 1 .. Len(c) + 1
  BY LenProperties DEF Latest
<1>2. sub \in Seq(Lines) /\ Len(sub) = n /\ \A i \in 1 .. n : sub[i] = c[m + i - 1]
  BY <1>1, SubSeqProperties
<1>3. \A i \in 1 .. n : m + i - 1 = Len(c) - n + i
  BY <1>1
<1>4. \A i \in 1 .. n : f[i] = sub[i]
  BY <1>2, <1>3 DEF Latest
<1> HIDE DEF sub
<1> QED  BY <1>1, <1>2, <1>4, SeqEqual DEF sub

\* A line that is taken and written is the latest of the file.
LEMMA LatestGrows ==
  ASSUME NEW f \in Seq(Lines), NEW c \in Seq(Lines), NEW x \in Seq(Lines), Len(x) = 1,
         NEW n \in Nat, Latest(f, c, n)
  PROVE  Latest(f \o x, c \o x, n + 1)
<1>1. n = Len(f) /\ n <= Len(c) /\ Len(c) \in Nat
  BY LenProperties DEF Latest
<1>2. Len(f \o x) = n + 1 /\ Len(c \o x) = Len(c) + 1
  <2>1. Len(f \o x) = Len(f) + Len(x) /\ Len(c \o x) = Len(c) + Len(x)
    BY ConcatProperties
  <2> QED  BY <1>1, <2>1
<1>3. ASSUME NEW i \in 1 .. n + 1 PROVE (f \o x)[i] = (c \o x)[Len(c \o x) - (n + 1) + i]
  <2> DEFINE j == Len(c) - n + i
  <2>1. /\ i \in 1 .. Len(f) + Len(x) /\ j \in 1 .. Len(c) + Len(x)
        /\ j = Len(c \o x) - (n + 1) + i
        /\ j <= Len(c) <=> i <= Len(f)
        /\ j - Len(c) = i - Len(f)
    BY <1>1, <1>2
  <2>2. i <= Len(f) => f[i] = c[j]
    BY <1>1 DEF Latest
  <2> HIDE DEF j
  <2>3. (f \o x)[i] = IF i <= Len(f) THEN f[i] ELSE x[i - Len(f)]
    BY <2>1, ConcatProperties
  <2>4. (c \o x)[j] = IF j <= Len(c) THEN c[j] ELSE x[j - Len(c)]
    BY <2>1, ConcatProperties
  <2> QED  BY <2>1, <2>2, <2>3, <2>4
<1>4. n + 1 <= Len(c \o x)
  BY <1>1, <1>2
<1> DEFINE fx == f \o x
           cx == c \o x
<1> HIDE DEF fx, cx
<1>5. n + 1 = Len(fx) /\ n + 1 <= Len(cx)
      /\ \A i \in 1 .. n + 1 : fx[i] = cx[Len(cx) - (n + 1) + i]
  BY <1>2, <1>3, <1>4 DEF fx, cx
<1>6. Latest(fx, cx, n + 1)
  BY <1>5 DEF Latest
<1> QED  BY <1>6 DEF fx, cx

\* FileHoldsLatest with what it rests on: no file is left but a full one, and
\* no line is written to a full one.
Rolled ==
  /\ handle # Null /\ pc # "failed" =>
       /\ Latest(files[handle], console, Len(files[handle]))
       /\ size = bytes[handle]
       /\ \A s \in Seconds : bytes[s] < RollSize + MaxLength
       /\ \A s \in Seconds \ {handle} : files[s] # <<>> => bytes[s] >= RollSize
  /\ handle = Null /\ pc \notin {"failed", "ended"} =>
       \A s \in Seconds : files[s] = <<>> /\ bytes[s] = 0
  /\ named /\ pc \in {"test", "wait", "asleep", "write"} => size < RollSize

\* What Rolled says of the files survives the opening of a file.
LEMMA RolledRoll ==
  ASSUME TypeOK, Rolled, NEW ok \in BOOLEAN, Roll(ok)
  PROVE  Rolled'
<1>1. /\ pc = "top" /\ pc' \in {"test", "failed"} /\ UNCHANGED <<named, console>>
      /\ clock \in Seconds /\ Null \notin Seconds
  BY LogAssumption DEF Roll, TypeOK, Null, Seconds
<1>2. CASE named /\ (handle = Null \/ size >= RollSize) /\ ok
  <2>1. /\ size' = 0 /\ handle' = clock /\ pc' = "test"
        /\ files' = [files EXCEPT ![clock] = <<>>]
        /\ bytes' = [bytes EXCEPT ![clock] = 0]
    BY <1>2 DEF Roll, NewSize, CreateNewFile
  <2>2. /\ files'[clock] = <<>> /\ bytes'[clock] = 0 /\ Len(files'[clock]) = 0
        /\ \A s \in Seconds \ {clock} : files'[s] = files[s] /\ bytes'[s] = bytes[s]
    BY <1>1, <2>1 DEF TypeOK
  <2>3. Latest(files'[clock], console, 0)
    BY <2>2, LenProperties DEF Latest, TypeOK
  <2>4. ASSUME NEW s \in Seconds
        PROVE  bytes[s] < RollSize + MaxLength /\ (files[s] # <<>> => bytes[s] >= RollSize)
    <3>1. CASE handle = Null
      BY <1>1, <3>1, LogAssumption DEF Rolled
    <3>2. CASE handle # Null
      BY <1>1, <1>2, <3>2 DEF Rolled
    <3> QED  BY <3>1, <3>2
  <2>5. \A s \in Seconds : bytes'[s] < RollSize + MaxLength
    BY <2>2, <2>4, LogAssumption
  <2>6. \A s \in Seconds \ {clock} : files'[s] # <<>> => bytes'[s] >= RollSize
    BY <2>2, <2>4
  <2> QED  BY <1>1, <2>1, <2>2, <2>3, <2>5, <2>6, LogAssumption DEF Rolled, Null, Seconds
<1>3. CASE named /\ (handle = Null \/ size >= RollSize) /\ ~ok
  <2>1. handle' = Null' /\ pc' = "failed"
    BY <1>3 DEF Roll, Null
  <2> QED  BY <2>1 DEF Rolled
<1>4. CASE ~(named /\ (handle = Null \/ size >= RollSize))
  <2>1. UNCHANGED <<handle, size, files, bytes>> /\ pc' = "test"
    BY <1>4 DEF Roll, fileVars
  <2>2. named => size < RollSize
    BY <1>4, LogAssumption DEF TypeOK
  <2> QED  BY <1>1, <2>1, <2>2 DEF Rolled, Null, Seconds
<1> QED  BY <1>2, <1>3, <1>4

\* What Rolled says of the files survives the writing of a line.
LEMMA RolledWrite ==
  ASSUME TypeOK, Rolled, NEW ok \in BOOLEAN, Write(ok)
  PROVE  Rolled'
<1>1. /\ pc = "write" /\ UNCHANGED <<named, handle>> /\ console' = console \o line
      /\ Len(line) = 1 /\ pc' = (IF ok THEN "top" ELSE "failed")
  BY Written DEF TypeOK
<1>2. CASE ~ok
  BY <1>1, <1>2 DEF Rolled
<1>3. CASE ok /\ named
  <2>1. handle \in Seconds /\ handle # Null /\ size < RollSize
    BY <1>1, <1>3, LogAssumption DEF TypeOK, Rolled, Null, Seconds
  <2>2. PICK length \in 1 .. MaxLength :
          /\ files' = [files EXCEPT ![handle] = files[handle] \o line]
          /\ bytes' = [bytes EXCEPT ![handle] = bytes[handle] + length]
          /\ size' = size + length
    BY <1>3, Written
  <2>3. /\ files'[handle] = files[handle] \o line
        /\ bytes'[handle] = bytes[handle] + length
        /\ \A s \in Seconds \ {handle} : files'[s] = files[s] /\ bytes'[s] = bytes[s]
    BY <2>1, <2>2 DEF TypeOK
  <2>4. /\ Latest(files[handle], console, Len(files[handle]))
        /\ size = bytes[handle]
        /\ \A s \in Seconds : bytes[s] < RollSize + MaxLength
        /\ \A s \in Seconds \ {handle} : files[s] # <<>> => bytes[s] >= RollSize
    BY <1>1, <2>1 DEF Rolled
  <2>5. /\ files[handle] \in Seq(Lines) /\ console \in Seq(Lines) /\ line \in Seq(Lines)
        /\ size \in Nat /\ Len(files[handle]) \in Nat
    BY <2>1, LenProperties DEF TypeOK
  <2>6. Latest(files'[handle], console', Len(files[handle]) + 1)
    BY <1>1, <2>3, <2>4, <2>5, LatestGrows
  <2>7. Len(files'[handle]) = Len(files[handle]) + 1
    BY <2>6 DEF Latest
  <2>8. size' = bytes'[handle] /\ size' < RollSize + MaxLength
    BY <2>1, <2>2, <2>3, <2>4, <2>5, LogAssumption
  <2>9. \A s \in Seconds : bytes'[s] < RollSize + MaxLength
    BY <2>3, <2>4, <2>8
  <2>10. Latest(files'[handle], console', Len(files'[handle]))
    BY <2>6, <2>7
  <2>11. handle' # Null' /\ pc' = "top"
    BY <1>1, <1>3, <2>1 DEF Null
  <2> QED  BY <1>1, <2>3, <2>4, <2>8, <2>9, <2>10, <2>11 DEF Rolled
<1>4. CASE ok /\ ~named
  <2>1. handle = Null /\ pc' = "top" /\ UNCHANGED <<files, bytes>>
    BY <1>1, <1>4, Written DEF TypeOK
  <2> QED  BY <1>1, <1>4, <2>1 DEF Rolled, Null, Seconds
<1> QED  BY <1>2, <1>3, <1>4

\* FileHoldsLatest, for every size of the files and every length of the lines.
THEOREM FilesHoldLatest == SafetySpec => []FileHoldsLatest
<1>1. Init => Rolled
  BY DEF Init, Rolled
<1>2. TypeOK /\ Rolled /\ [Next]_vars => Rolled'
  <2> SUFFICES ASSUME TypeOK, Rolled, [Next]_vars PROVE Rolled'
    OBVIOUS
  <2>1. ASSUME UNCHANGED <<named, console, handle, size, files, bytes>>,
               \/ pc' = pc
               \/ {pc, pc'} \subseteq {"test", "wait", "asleep", "write"}
               \/ pc' = "ended" /\ pc = "test"
        PROVE  Rolled'
    BY <2>1 DEF Rolled, Null, Seconds
  <2>2. ASSUME NEW t \in Threads, Lock(t) \/ Push(t) PROVE Rolled'
    BY <2>1, <2>2 DEF Lock, Push, Notify, writerVars, fileVars
  <2>3. CASE TakeLine \/ TestEmpty \/ Wait \/ SpuriousWakeup
    BY <2>1, <2>3 DEF TakeLine, TestEmpty, Wait, SpuriousWakeup, writerVars, fileVars
  <2>4. CASE \/ \E t \in Threads \cup {Writer} : Signal(t)
             \/ LogFinish \/ SetExit \/ NotifyExit \/ Tick \/ UNCHANGED vars
    BY <2>1, <2>4 DEF Signal, LogFinish, SetExit, NotifyExit, Notify, Tick, vars,
                      writerVars, fileVars
  <2>5. CASE Join
    <3>1. UNCHANGED <<named, console, pc, size, files, bytes>>
      BY <2>5 DEF Join
    <3>2. handle' = handle \/ (handle' = Null /\ pc \in {"ended", "failed"})
      BY <2>5 DEF Join, Ended
    <3> QED  BY <3>1, <3>2 DEF Rolled, Null, Seconds
  <2> QED
    BY <2>2, <2>3, <2>4, <2>5, RolledRoll, RolledWrite DEF Next, WriterStep, HandlerStep
<1>3. TypeOK /\ Rolled => FileHoldsLatest
  <2> SUFFICES ASSUME TypeOK, Rolled, handle # Null, pc # "failed"
               PROVE  files[handle] =
                        SubSeq(console, Len(console) - Len(files[handle]) + 1, Len(console))
    BY DEF FileHoldsLatest, Rolled
  <2>1. Latest(files[handle], console, Len(files[handle]))
    BY DEF Rolled
  <2>2. files[handle] \in Seq(Lines) /\ console \in Seq(Lines) /\ Len(files[handle]) \in Nat
    BY LenProperties DEF TypeOK
  <2> QED  BY <2>1, <2>2, LatestIsSubSeq
<1> QED  BY <1>1, <1>2, <1>3, TypeCorrect, PTL DEF SafetySpec

=============================================================================
