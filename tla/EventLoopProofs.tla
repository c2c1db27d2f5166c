--------------------------- MODULE EventLoopProofs ---------------------------
(***************************************************************************)
(* Proofs about EventLoop, for every set of threads and of callables: type *)
(* correctness, the two safety invariants, and that every step of the loop *)
(* is a step of FunctorQueue or leaves its queue alone.                    *)
(***************************************************************************)
EXTENDS EventLoop, SequenceLemmas

-----------------------------------------------------------------------------

\* The types, and the agreement of the flags with the program counter, hold in
\* every reachable state: every one of them is preserved by each step alone.
THEOREM TypeCorrect == SafetySpec => []TypeOK
<1>1. Init => TypeOK
  <2> SUFFICES ASSUME Init
               PROVE  TypeOK
    OBVIOUS
  <2>1. /\ pending \in Seq(Functors) /\ running \in Seq(Functors)
        /\ posted \in Seq(Functors) /\ ran \in Seq(Functors)
    BY EmptySeq DEF Init
  <2>2. /\ calling <=> pc \in {"functors", "inFunctor"}
        /\ loopPtr <=> pc \notin {"none", "publish", "dead"}
    BY Zenon DEF Init
  <2> QED
    BY <2>1, <2>2 DEF Init, TypeOK
<1>2. TypeOK /\ [Next]_vars => TypeOK'
  <2> SUFFICES ASSUME TypeOK, [Next]_vars
               PROVE  TypeOK'
    OBVIOUS
  <2> USE DEF TypeOK, ownerVars, queueVars, wakeVars, Threads
  <2>1. CASE LoopStep
    <3>1. CASE Publish
      BY <3>1 DEF Publish
    <3>2. CASE EnterLoop
      BY <3>2 DEF EnterLoop
    <3>3. CASE TestQuit
      BY <3>3 DEF TestQuit
    <3>4. CASE TimersDone
      BY <3>4 DEF TimersDone
    <3>5. CASE PollReturns
      BY <3>5 DEF PollReturns
    <3>6. CASE HandleWakeup
      BY <3>6 DEF HandleWakeup
    <3>7. CASE EventsDone
      BY <3>7 DEF EventsDone
    <3>8. CASE SwapPending
      BY <3>8 DEF SwapPending
    <3>9. CASE StartFunctor
      <4>1. Head(running) \in Functors /\ Tail(running) \in Seq(Functors)
        BY <3>9, HeadTailProperties DEF StartFunctor
      <4>2. Append(ran, Head(running)) \in Seq(Functors)
        BY <4>1, AppendProperties
      <4> QED
        BY <3>9, <4>1, <4>2 DEF StartFunctor
    <3>10. CASE FunctorReturns
      BY <3>10 DEF FunctorReturns
    <3>11. CASE BatchDone
      BY <3>11 DEF BatchDone
    <3>12. CASE FrameDone
      BY <3>12 DEF FrameDone
    <3>13. CASE LeaveLoop
      BY <3>13 DEF LeaveLoop
    <3> QED
      BY <2>1, <3>1, <3>2, <3>3, <3>4, <3>5, <3>6, <3>7, <3>8, <3>9, <3>10,
         <3>11, <3>12, <3>13 DEF LoopStep
  <2>2. ASSUME NEW f \in Functors, PostFromLoop(f)
        PROVE  TypeOK'
    <3>1. Append(pending, f) \in Seq(Functors) /\ Append(posted, f) \in Seq(Functors)
      BY AppendProperties
    <3> QED
      BY <2>2, <3>1 DEF PostFromLoop
  <2>3. ASSUME NEW t \in Threads, NEW f \in Functors, Push(t, f)
        PROVE  TypeOK'
    <3>1. Append(pending, f) \in Seq(Functors) /\ Append(posted, f) \in Seq(Functors)
      BY AppendProperties
    <3> QED
      BY <2>3, <3>1 DEF Push
  <2>4. ASSUME NEW t \in Threads, Wakeup(t)
        PROVE  TypeOK'
    BY <2>4 DEF Wakeup
  <2>5. CASE QuitFromLoop
    BY <2>5 DEF QuitFromLoop
  <2>6. CASE StartLoop
    BY <2>6 DEF StartLoop
  <2>7. CASE StartReturns
    BY <2>7 DEF StartReturns
  <2>8. CASE StopLoop
    BY <2>8 DEF StopLoop
  <2>9. CASE StopStep
    <3>1. CASE SetQuit
      BY <3>1 DEF SetQuit
    <3>2. CASE QuitWakeup
      BY <3>2 DEF QuitWakeup
    <3>3. CASE Join
      BY <3>3 DEF Join
    <3> QED
      BY <2>9, <3>1, <3>2, <3>3 DEF StopStep
  <2>10. CASE Stopped \/ UNCHANGED vars
    BY <2>10 DEF Stopped, vars
  <2> QED
    BY <2>1, <2>2, <2>3, <2>4, <2>5, <2>6, <2>7, <2>8, <2>9, <2>10 DEF Next
<1> QED
  BY <1>1, <1>2, PTL DEF SafetySpec

-----------------------------------------------------------------------------

\* What has run, the current batch and the queue together are always what was
\* pushed, in the order of the pushes.  Given the types this is inductive: a
\* push appends to both sides, the swap and the start of a callable only move
\* the borders between the three parts.
THEOREM FunctorsAccounted == SafetySpec => []FunctorAccounting
<1>1. Init => FunctorAccounting
  <2>1. <<>> \in Seq(Functors)
    BY EmptySeq
  <2> QED
    BY <2>1, ConcatEmptySeq DEF Init, FunctorAccounting
<1>2. TypeOK /\ FunctorAccounting /\ [Next]_vars => FunctorAccounting'
  <2> SUFFICES ASSUME TypeOK, FunctorAccounting, [Next]_vars
               PROVE  FunctorAccounting'
    OBVIOUS
  <2>1. /\ pending \in Seq(Functors)
        /\ running \in Seq(Functors)
        /\ posted \in Seq(Functors)
        /\ ran \in Seq(Functors)
    BY DEF TypeOK
  <2>2. ran \o running \in Seq(Functors)
    BY <2>1, ConcatProperties
  <2>3. ASSUME UNCHANGED <<pending, running, posted, ran>>
        PROVE  FunctorAccounting'
    BY <2>3 DEF FunctorAccounting
  <2>4. ASSUME NEW f \in Functors, pending' = Append(pending, f),
               posted' = Append(posted, f), UNCHANGED <<running, ran>>
        PROVE  FunctorAccounting'
    <3>1. (ran \o running) \o Append(pending, f) = Append((ran \o running) \o pending, f)
      BY <2>1, <2>2, ConcatAppend
    <3> QED
      BY <2>4, <3>1 DEF FunctorAccounting
  <2>5. CASE SwapPending
    <3>1. running = <<>>
      BY <2>5 DEF SwapPending, TypeOK
    <3>2. ran \o running = ran /\ (ran \o pending) \o <<>> = ran \o pending
      BY <2>1, <3>1, ConcatProperties, ConcatEmptySeq
    <3> QED
      BY <2>5, <3>2 DEF SwapPending, FunctorAccounting
  <2>6. CASE StartFunctor
    <3>1. /\ running # <<>>
          /\ ran' = Append(ran, Head(running))
          /\ running' = Tail(running)
          /\ UNCHANGED <<pending, posted>>
      BY <2>6 DEF StartFunctor
    <3>2. Append(ran, Head(running)) \o Tail(running) = ran \o running
      BY <2>1, <3>1, MoveHead
    <3> QED
      BY <3>1, <3>2 DEF FunctorAccounting
  <2>7. CASE LoopStep
    BY <2>7, <2>3, <2>5, <2>6
       DEF LoopStep, Publish, EnterLoop, TestQuit, TimersDone, PollReturns,
           HandleWakeup, EventsDone, FunctorReturns, BatchDone, FrameDone,
           LeaveLoop, queueVars
  <2>8. ASSUME NEW f \in Functors, PostFromLoop(f)
        PROVE  FunctorAccounting'
    BY <2>8, <2>4 DEF PostFromLoop
  <2>9. ASSUME NEW t \in Threads, NEW f \in Functors, Push(t, f)
        PROVE  FunctorAccounting'
    BY <2>9, <2>4 DEF Push
  <2>10. CASE \/ \E t \in Threads : Wakeup(t)
              \/ QuitFromLoop \/ StartLoop \/ StartReturns \/ StopLoop \/ StopStep
              \/ Stopped \/ UNCHANGED vars
    BY <2>10, <2>3
       DEF Wakeup, QuitFromLoop, StartLoop, StartReturns, StopLoop, StopStep,
           SetQuit, QuitWakeup, Join, Stopped, vars, queueVars
  <2> QED
    BY <2>7, <2>8, <2>9, <2>10 DEF Next
<1> QED
  BY <1>1, <1>2, TypeCorrect, PTL DEF SafetySpec

-----------------------------------------------------------------------------

\* The strengthening of NoSleepOnWork: outside event handling and the swap,
\* queued work that is not quiet has its wakeup written or being written.
\* Between poll and the swap the descriptor may already have been drained.
WorkSignalled ==
  pc \notin {"events", "swap"} =>
    Range(pending) \subseteq quiet \/ readable \/ pushing # {}

\* The loop never goes to sleep in poll over queued work that nobody is about
\* to announce, but for the work of timers and of the frame functor.
THEOREM NeverSleepsOnWork == SafetySpec => []NoSleepOnWork
<1>1. Init => WorkSignalled
  BY DEF Init, WorkSignalled, Range
<1>2. TypeOK /\ WorkSignalled /\ [Next]_vars => WorkSignalled'
  <2> SUFFICES ASSUME TypeOK, WorkSignalled, [Next]_vars
               PROVE  WorkSignalled'
    OBVIOUS
  <2>1. CASE SwapPending
    <3>1. Range(pending') = {}
      BY <2>1 DEF SwapPending, Range
    <3> QED
      BY <3>1 DEF WorkSignalled
  <2>2. CASE LoopStep
    BY <2>2, <2>1
       DEF WorkSignalled, LoopStep, Publish, EnterLoop, TestQuit, TimersDone,
           PollReturns, HandleWakeup, EventsDone, StartFunctor, FunctorReturns,
           BatchDone, FrameDone, LeaveLoop, queueVars, wakeVars
  <2>3. ASSUME NEW f \in Functors, PostFromLoop(f)
        PROVE  WorkSignalled'
    <3>1. CASE pc = "inFunctor"
      BY <2>3, <3>1 DEF PostFromLoop, WorkSignalled, TypeOK
    <3>2. CASE pc \in {"timers", "frame"}
      <4>1. Range(Append(pending, f)) = Range(pending) \cup {f}
        BY RangeAppend DEF TypeOK
      <4>2. /\ pending' = Append(pending, f)
            /\ quiet' = quiet \cup {f}
            /\ readable' = (readable \/ calling)
            /\ UNCHANGED <<pc, pushing>>
        BY <2>3, <3>2 DEF PostFromLoop
      <4> QED
        BY <3>2, <4>1, <4>2 DEF WorkSignalled
    <3>3. CASE pc = "events"
      BY <2>3, <3>3 DEF PostFromLoop, WorkSignalled
    <3> QED
      BY <2>3, <3>1, <3>2, <3>3 DEF PostFromLoop, InCallback
  <2>4. ASSUME NEW t \in Threads, NEW f \in Functors, Push(t, f)
        PROVE  WorkSignalled'
    BY <2>4 DEF Push, WorkSignalled
  <2>5. ASSUME NEW t \in Threads, Wakeup(t)
        PROVE  WorkSignalled'
    BY <2>5 DEF Wakeup, WorkSignalled
  <2>6. CASE QuitFromLoop \/ StartLoop \/ StartReturns \/ StopLoop \/ StopStep
    <3>1. /\ UNCHANGED <<pending, quiet, pushing>>
          /\ readable => readable'
          /\ pc' \notin {"events", "swap"} => pc \notin {"events", "swap"}
      BY <2>6 DEF QuitFromLoop, StartLoop, StartReturns, StopLoop, StopStep,
                  SetQuit, QuitWakeup, Join, queueVars, wakeVars, TypeOK
    <3> QED
      BY <3>1 DEF WorkSignalled
  <2>7. CASE Stopped \/ UNCHANGED vars
    BY <2>7 DEF Stopped, vars, WorkSignalled
  <2> QED
    BY <2>2, <2>3, <2>4, <2>5, <2>6, <2>7 DEF Next
<1>3. WorkSignalled => NoSleepOnWork
  BY DEF WorkSignalled, NoSleepOnWork
<1> QED
  BY <1>1, <1>2, <1>3, TypeCorrect, PTL DEF SafetySpec

-----------------------------------------------------------------------------

\* Every behaviour of the loop, its batches and wakeups hidden, is one of the
\* abstract queue: pushes append, the start of a callable takes the oldest,
\* the exit from the while loop closes, and nothing else is visible.
THEOREM LoopImplementsQueue == SafetySpec => FQ!SafetySpec
<1>1. Init => FQ!Init
  <2>1. <<>> \in Seq(Functors)
    BY EmptySeq
  <2> QED
    BY <2>1, ConcatEmptySeq DEF Init, FQ!Init
<1>2. TypeOK /\ FunctorAccounting /\ [Next]_vars => [FQ!Next]_(FQ!vars)
  <2> SUFFICES ASSUME TypeOK, FunctorAccounting, [Next]_vars
               PROVE  [FQ!Next]_(FQ!vars)
    OBVIOUS
  <2>1. /\ pending \in Seq(Functors)
        /\ running \in Seq(Functors)
        /\ ran \in Seq(Functors)
    BY DEF TypeOK
  <2>2. ASSUME UNCHANGED <<pending, running, ran>>,
               pc' \in {"leave", "dead"} <=> pc \in {"leave", "dead"}
        PROVE  UNCHANGED FQ!vars
    BY <2>2 DEF FQ!vars
  <2>3. ASSUME NEW f \in Functors, f \notin Range(posted),
               pending' = Append(pending, f), UNCHANGED <<pc, running, ran>>
        PROVE  FQ!Post(f)
    <3>1. Range(posted) = Range(ran) \cup Range(running) \cup Range(pending)
      <4>1. Range(ran \o running \o pending) = Range(ran \o running) \cup Range(pending)
        <5>1. ran \o running \in Seq(Functors)
          BY <2>1, ConcatProperties
        <5> QED
          BY <2>1, <5>1, RangeConcatenation
      <4> QED
        BY <2>1, <4>1, RangeConcatenation DEF FunctorAccounting
    <3>2. Range(running \o pending) = Range(running) \cup Range(pending)
      BY <2>1, RangeConcatenation
    <3>3. running \o Append(pending, f) = Append(running \o pending, f)
      BY <2>1, ConcatAppend
    <3> QED
      BY <2>3, <3>1, <3>2, <3>3 DEF FQ!Post, FQ!Range, Range
  <2>4. CASE SwapPending
    <3>1. running = <<>>
      BY <2>4 DEF SwapPending, TypeOK
    <3>2. running' \o pending' = running \o pending
      BY <2>1, <2>4, <3>1, ConcatEmptySeq DEF SwapPending
    <3> QED
      BY <2>4, <3>2 DEF SwapPending, FQ!vars
  <2>5. CASE StartFunctor
    <3>1. /\ running # <<>>
          /\ pc = "functors" /\ pc' = "inFunctor"
          /\ ran' = Append(ran, Head(running))
          /\ running' = Tail(running)
          /\ pending' = pending
      BY <2>5 DEF StartFunctor
    <3>2. /\ running \o pending # <<>>
          /\ Head(running \o pending) = Head(running)
          /\ Tail(running \o pending) = Tail(running) \o pending
      BY <2>1, <3>1, ConcatHeadTail
    <3> QED
      BY <3>1, <3>2 DEF FQ!Run, FQ!Next
  <2>6. CASE TestQuit
    <3>1. CASE quit
      BY <2>6, <3>1 DEF TestQuit, queueVars, FQ!Close, FQ!Next
    <3>2. CASE ~quit
      BY <2>6, <3>2, <2>2 DEF TestQuit, queueVars
    <3> QED
      BY <3>1, <3>2
  <2>7. CASE LoopStep
    BY <2>7, <2>2, <2>4, <2>5, <2>6
       DEF LoopStep, Publish, EnterLoop, TimersDone, PollReturns, HandleWakeup,
           EventsDone, FunctorReturns, BatchDone, FrameDone, LeaveLoop, queueVars
  <2>8. ASSUME NEW f \in Functors, PostFromLoop(f)
        PROVE  FQ!Next
    BY <2>8, <2>3 DEF PostFromLoop, FQ!Next
  <2>9. ASSUME NEW t \in Threads, NEW f \in Functors, Push(t, f)
        PROVE  FQ!Next
    BY <2>9, <2>3 DEF Push, FQ!Next
  <2>10. CASE \/ \E t \in Threads : Wakeup(t)
              \/ QuitFromLoop \/ StartReturns \/ StopLoop \/ StopStep
              \/ Stopped \/ UNCHANGED vars
    BY <2>10, <2>2
       DEF Wakeup, QuitFromLoop, StartReturns, StopLoop, StopStep,
           SetQuit, QuitWakeup, Join, Stopped, vars, queueVars
  <2>11. CASE StartLoop
    BY <2>11, <2>2 DEF StartLoop, queueVars, TypeOK
  <2> QED
    BY <2>7, <2>8, <2>9, <2>10, <2>11 DEF Next
<1> QED
  BY <1>1, <1>2, TypeCorrect, FunctorsAccounted, PTL DEF SafetySpec, FQ!SafetySpec

=============================================================================
