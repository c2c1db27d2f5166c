------------------------------ MODULE AsyncLog ------------------------------
(***************************************************************************)
(* base/AsyncLog.cpp with the signal handler of appsrc/main.cpp: threads   *)
(* queue lines under m_mutexWrite, a write thread takes them off and       *)
(* writes them to the console and to files it rolls, and prog_exit, on top *)
(* of whatever thread the signal hits, logs a last line and calls Uninit.  *)
(*                                                                         *)
(* Nothing looks at the length of a line before it is written to a file,   *)
(* where it is chosen.  A file is named after the second in which it is    *)
(* created, and creating it truncates a file of that name.  What FATAL and *)
(* SYSERROR lines write past the queue is left out, and so are lines below *)
(* the level.                                                              *)
(***************************************************************************)
EXTENDS Naturals, Sequences, FiniteSets, Functions

CONSTANTS
  Threads,        \* threads that log
  MaxLines,       \* bound: lines of one thread
  MaxLength,      \* bound: bytes of one line
  RollSize,       \* m_nFileRollSize, in bytes
  MaxSecond       \* bound: the clock stops there

Writer == "writer"
Handler == "handler"
Nobody == "nobody"

ASSUME LogAssumption ==
  /\ {Writer, Handler, Nobody} \cap Threads = {}
  /\ MaxLines \in Nat
  /\ MaxLength \in Nat \ {0}
  /\ RollSize \in Nat \ {0}
  /\ MaxSecond \in Nat

Seconds == 0 .. MaxSecond
Null == MaxSecond + 1                   \* m_hLogFile is nullptr
Lines == (Threads \X (1 .. MaxLines)) \cup {<<Handler, 1>>}

VARIABLES
  named,          \* Init was given a file name
  lines,          \* m_listLinesToWrite
  holder,         \* who holds m_mutexWrite
  exit,           \* m_bExit
  logged,         \* how many lines each thread has queued
  pc,             \* where WriteThreadProc is
  line,           \* strLine: <<>> or the line being written
  console,        \* what was written to std::cout
  handle,         \* the file m_hLogFile is open on
  size,           \* m_nCurrentWrittenSize
  files,          \* the lines in each file
  bytes,          \* the length of each file
  truncated,      \* history: lines of files that were created again
  clock,          \* the second of time()
  ctl,            \* where prog_exit is
  victim,         \* the thread the signal interrupted
  due             \* history: lines queued when Uninit set m_bExit

queueVars == <<lines, holder, logged>>
fileVars == <<handle, size, files, bytes, truncated>>
writerVars == <<line, console, fileVars>>
exitVars == <<ctl, victim, exit, due>>
vars == <<named, queueVars, pc, writerVars, clock, exitVars>>

Init ==
  /\ named \in BOOLEAN
  /\ lines = <<>>
  /\ holder = Nobody
  /\ exit = FALSE
  /\ logged = [t \in Threads |-> 0]
  /\ pc = "top"
  /\ line = <<>>
  /\ console = <<>>
  /\ handle = Null
  /\ size = 0
  /\ files = [s \in Seconds |-> <<>>]
  /\ bytes = [s \in Seconds |-> 0]
  /\ truncated = {}
  /\ clock = 0
  /\ ctl = "none"
  /\ victim = Nobody
  /\ due = 0

-----------------------------------------------------------------------------
(* The condition variable: only the write thread ever waits on it.         *)

\* Mutant: nobody is notified.
NotifyNot == UNCHANGED pc

Notify == pc' = IF pc = "asleep" THEN "test" ELSE pc

-----------------------------------------------------------------------------
(* Output and OutputBinary.  A thread may be interrupted with the mutex.   *)

Lock(t) ==
  /\ victim # t
  /\ holder = Nobody
  /\ logged[t] < MaxLines
  /\ holder' = t
  /\ UNCHANGED <<named, lines, logged, pc, writerVars, clock, exitVars>>

Push(t) ==
  /\ victim # t
  /\ holder = t
  /\ lines' = Append(lines, <<t, logged[t] + 1>>)
  /\ logged' = [logged EXCEPT ![t] = @ + 1]
  /\ holder' = Nobody
  /\ Notify
  /\ UNCHANGED <<named, writerVars, clock, exitVars>>

-----------------------------------------------------------------------------
(* WriteThreadProc.                                                        *)

\* Mutant: m_nCurrentWrittenSize is not reset.
NewSizeKept == size

\* m_nCurrentWrittenSize of a file that was just created.
NewSize == 0

\* An empty file with the name of this second.
CreateNewFile ==
  /\ files' = [files EXCEPT ![clock] = <<>>]
  /\ bytes' = [bytes EXCEPT ![clock] = 0]
  /\ truncated' = truncated \cup Range(files[clock])

\* The head of the outer loop: create the first file, or the next one when
\* this one is full.  When that fails the thread ends.
Roll(ok) ==
  /\ pc = "top"
  /\ IF named /\ (handle = Null \/ size >= RollSize)
       THEN /\ size' = NewSize
            /\ \/ ok /\ handle' = clock /\ pc' = "test" /\ CreateNewFile
               \/ /\ ~ok
                  /\ handle' = Null /\ pc' = "failed"
                  /\ UNCHANGED <<files, bytes, truncated>>
       ELSE ok /\ pc' = "test" /\ UNCHANGED fileVars
  /\ UNCHANGED <<named, queueVars, line, console, clock, exitVars>>

\* Mutant: the newest line is taken.
PopBack ==
  /\ line' = <<lines[Len(lines)]>>
  /\ lines' = SubSeq(lines, 1, Len(lines) - 1)

PopFront == line' = <<Head(lines)>> /\ lines' = Tail(lines)

\* Under the mutex: a line is there ...
TakeLine ==
  /\ pc = "test"
  /\ holder = Nobody
  /\ lines # <<>>
  /\ PopFront
  /\ pc' = "write"
  /\ UNCHANGED <<named, holder, logged, console, fileVars, clock, exitVars>>

\* Mutants: m_bExit is tested before the list; it is not tested at all.
ReturnsAtOnce == exit
ReturnsNever == FALSE

Returns == lines = <<>> /\ exit

\* ... or there is none: return if m_bExit is set, else go on to wait with
\* the mutex in hand.  Uninit, which does not take it, may come in between.
TestEmpty ==
  /\ pc = "test"
  /\ holder = Nobody
  /\ \/ Returns /\ pc' = "ended" /\ UNCHANGED holder
     \/ lines = <<>> /\ ~Returns /\ pc' = "wait" /\ holder' = Writer
  /\ UNCHANGED <<named, lines, logged, writerVars, clock, exitVars>>

\* Mutant: the mutex is not released.
WaitWithMutex ==
  /\ pc = "wait"
  /\ pc' = "asleep"
  /\ UNCHANGED <<named, queueVars, writerVars, clock, exitVars>>

Wait ==
  /\ pc = "wait"
  /\ pc' = "asleep"
  /\ holder' = Nobody
  /\ UNCHANGED <<named, lines, logged, writerVars, clock, exitVars>>

SpuriousWakeup ==
  /\ pc = "asleep"
  /\ pc' = "test"
  /\ UNCHANGED <<named, queueVars, writerVars, clock, exitVars>>

\* Out of the mutex: std::cout, then the file; a failed write ends the thread.
Write(ok) ==
  /\ pc = "write"
  /\ ok \/ named
  /\ console' = console \o line
  /\ line' = <<>>
  /\ IF named /\ ok
       THEN \E length \in 1 .. MaxLength :
              /\ files' = [files EXCEPT ![handle] = @ \o line]
              /\ bytes' = [bytes EXCEPT ![handle] = @ + length]
              /\ size' = size + length
       ELSE UNCHANGED <<files, bytes, size>>
  /\ pc' = IF ok THEN "top" ELSE "failed"
  /\ UNCHANGED <<named, queueVars, handle, truncated, clock, exitVars>>

\* A step of the write thread that needs nobody's doing.
WriterStep ==
  /\ victim # Writer
  /\ \/ \E ok \in BOOLEAN : Roll(ok) \/ Write(ok)
     \/ TakeLine
     \/ TestEmpty
     \/ Wait

-----------------------------------------------------------------------------
(* prog_exit runs on the stack of the thread that the signal hits, which   *)
(* does nothing else until it returns.                                     *)

Ended == pc \in {"ended", "failed"}

Signal(t) ==
  /\ ctl = "none"
  /\ t = Writer => ~Ended
  /\ ctl' = "logging"
  /\ victim' = t
  /\ UNCHANGED <<named, queueVars, pc, writerVars, clock, exit, due>>

\* LOGC("app finish......"): with the mutex in the interrupted thread's hands
\* this never comes.
LogFinish ==
  /\ ctl = "logging"
  /\ holder = Nobody
  /\ lines' = Append(lines, <<Handler, 1>>)
  /\ Notify
  /\ ctl' = "uninit"
  /\ UNCHANGED <<named, holder, logged, writerVars, clock, victim, exit, due>>

\* Uninit: the flag, without the mutex ...
SetExit ==
  /\ ctl = "uninit"
  /\ exit' = TRUE
  /\ due' = Len(console) + Len(line) + Len(lines)
  /\ ctl' = "notify"
  /\ UNCHANGED <<named, queueVars, pc, writerVars, clock, victim>>

\* ... the notification ...
NotifyExit ==
  /\ ctl = "notify"
  /\ Notify
  /\ ctl' = "join"
  /\ UNCHANGED <<named, queueVars, writerVars, clock, victim, exit, due>>

\* ... and the join, which throws if it runs on the write thread itself.
Join ==
  /\ ctl = "join"
  /\ IF victim = Writer
       THEN ctl' = "aborted" /\ UNCHANGED <<victim, handle>>
       ELSE Ended /\ ctl' = "done" /\ victim' = Nobody /\ handle' = Null
  /\ UNCHANGED <<named, queueVars, pc, line, console, size, files, bytes, truncated,
                 clock, exit, due>>

HandlerStep == LogFinish \/ SetExit \/ NotifyExit \/ Join

Tick ==
  /\ clock < MaxSecond
  /\ clock' = clock + 1
  /\ UNCHANGED <<named, queueVars, pc, writerVars, exitVars>>

Next ==
  /\ ctl # "aborted"
  /\ \/ \E t \in Threads : Lock(t) \/ Push(t)
     \/ WriterStep
     \/ victim # Writer /\ SpuriousWakeup
     \/ \E t \in Threads \cup {Writer} : Signal(t)
     \/ HandlerStep
     \/ Tick

SafetySpec == Init /\ [][Next]_vars

\* Every thread that can run is run, the handler in the place of its victim,
\* and the handler gets a mutex that is free again and again.  Nobody has to
\* log or to send the signal, and no spurious wakeup has to come.
Fairness ==
  /\ WF_vars(ctl # "aborted" /\ WriterStep)
  /\ WF_vars(HandlerStep) /\ SF_vars(LogFinish)
  /\ \A t \in Threads : WF_vars(ctl # "aborted" /\ Push(t))

Spec == SafetySpec /\ Fairness

-----------------------------------------------------------------------------
(* Properties.                                                             *)

TypeOK ==
  /\ named \in BOOLEAN
  /\ lines \in Seq(Lines)
  /\ holder \in Threads \cup {Writer, Nobody}
  /\ holder = Writer <=> pc = "wait"
  /\ exit \in BOOLEAN
  /\ logged \in [Threads -> 0 .. MaxLines]
  /\ holder \in Threads => logged[holder] < MaxLines
  /\ pc \in {"top", "test", "wait", "asleep", "write", "ended", "failed"}
  /\ line \in Seq(Lines)
  /\ Len(line) = IF pc = "write" THEN 1 ELSE 0
  /\ console \in Seq(Lines)
  /\ handle \in Seconds \cup {Null}
  /\ named \/ handle = Null
  /\ named /\ pc \in {"test", "wait", "asleep", "write"} => handle # Null
  /\ size \in Nat
  /\ files \in [Seconds -> Seq(Lines)]
  /\ bytes \in [Seconds -> Nat]
  /\ truncated \subseteq Lines
  /\ clock \in Seconds
  /\ ctl \in {"none", "logging", "uninit", "notify", "join", "done", "aborted"}
  /\ victim \in Threads \cup {Writer, Nobody}
  /\ ctl = "none" => victim = Nobody
  /\ exit <=> ctl \in {"notify", "join", "done", "aborted"}
  /\ due \in Nat

\* The write thread never sleeps while a line waits: push and notification
\* are under the mutex, and so are its test and the start of its wait.
NoSleepOnLines == pc = "asleep" => lines = <<>>

\* The open file holds the newest lines and m_nCurrentWrittenSize is its
\* length; no file is longer than RollSize by a whole line, and none is left
\* before it has that size: rolling loses no line but those of a file that is
\* created a second time within its second.
FileHoldsLatest ==
  handle # Null /\ pc # "failed" =>
    /\ files[handle] =
         SubSeq(console, Len(console) - Len(files[handle]) + 1, Len(console))
    /\ size = bytes[handle]
    /\ \A s \in Seconds : bytes[s] < RollSize + MaxLength
    /\ \A s \in Seconds \ {handle} : files[s] # <<>> => bytes[s] >= RollSize

\* Uninit loses nothing: when the write thread returns, every line that was
\* queued before m_bExit was set has been written to the console, the last
\* line of prog_exit included, and every line on the console is in a file too
\* if there are files, but for the files created again within their second.
ExitDrains ==
  pc = "ended" =>
    /\ exit /\ Len(console) >= due
    /\ named => Range(console) \subseteq
                  truncated \cup UNION {Range(files[s]) : s \in Seconds}

\* The log is a first-in first-out queue served until it closes: each line is
\* written once, in the order of the queueing, and none waits for ever.  It
\* closes when the write thread ends and when the signal strikes a thread
\* that holds the mutex or is the write thread.
Interlocked == victim # Nobody /\ victim \in {Writer, holder}
Queue == INSTANCE FunctorQueue WITH
  Functors <- Lines,
  queue <- lines,
  ran <- console \o line,
  open <- ~Ended /\ ~Interlocked
ImplementsQueue == Queue!Spec
\* The handler comes back: it gets past its own log line unless it interrupted
\* the thread that holds the mutex, and Uninit returns unless it runs on the
\* write thread or its notification fell between that thread's test of m_bExit
\* and its wait.
UninitReturns ==
  /\ ctl = "logging" /\ holder # victim ~> ctl = "uninit"
  /\ ctl = "join" /\ victim # Writer /\ pc \notin {"wait", "asleep"} ~> ctl = "done"

=============================================================================
