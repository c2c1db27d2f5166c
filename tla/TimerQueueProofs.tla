-------------------------- MODULE TimerQueueProofs --------------------------
(***************************************************************************)
(* Proofs about TimerQueue, for every set of timers and every bound: the   *)
(* iterator of doTimer stays in the set while callbacks change it, no      *)
(* timer is early, a pass over one-shot timers leaves none behind, and a   *)
(* canceled timer is quiet.                                                *)
(***************************************************************************)
EXTENDS TimerQueue, SequenceLemmas

-----------------------------------------------------------------------------
(* begin() and ++iter: the order of the set is total and well-founded.     *)

\* begin() of a set of timers is in it and in front of all others.
LEMMA FirstIsFirst ==
  ASSUME when \in [Timers -> Nat], NEW S, S \subseteq Timers, S # {}
  PROVE  /\ First(S) \in S
         /\ \A s \in S \ {First(S)} : Before(First(S), s)
<1>1. Timers \subseteq Nat
  BY TimerAssumption
<1>2. PICK m \in {when[s] : s \in S} : \A k \in {when[s] : s \in S} : m <= k
  <2>1. {when[s] : s \in S} \subseteq Nat /\ {when[s] : s \in S} # {}
    OBVIOUS
  <2> QED
    BY <2>1, LeastNat
<1>3. PICK t \in {s \in S : when[s] = m} : \A u \in {s \in S : when[s] = m} : t <= u
  <2>1. {s \in S : when[s] = m} \subseteq Nat /\ {s \in S : when[s] = m} # {}
    BY <1>1, <1>2
  <2> QED
    BY <2>1, LeastNat
<1>4. \A s \in S \ {t} : Before(t, s)
  BY <1>1, <1>2, <1>3 DEF Before
<1>5. First(S) = CHOOSE x \in S : \A s \in S \ {x} : Before(x, s)
  BY DEF First
<1> QED
  BY <1>3, <1>4, <1>5

\* ++iter is end() or an element behind; what is behind iter is it or behind it.
LEMMA AfterIsNext ==
  ASSUME when \in [Timers -> Nat], NEW t \in Timers, NEW S, S \subseteq Timers
  PROVE  /\ After(t, S) \in {s \in S : Before(t, s)} \cup {End}
         /\ \A s \in S : Before(t, s) =>
              /\ After(t, S) # End
              /\ s = After(t, S) \/ Before(After(t, S), s)
<1> DEFINE B == {s \in S : Before(t, s)}
<1>1. CASE B = {}
  BY <1>1 DEF After, First
<1>2. CASE B # {}
  <2>1. /\ First(B) \in B
        /\ \A s \in B \ {First(B)} : Before(First(B), s)
    BY <1>2, FirstIsFirst
  <2>2. First(B) # End
    BY <2>1, TimerAssumption DEF End
  <2> QED
    BY <2>1, <2>2 DEF After
<1> QED
  BY <1>1, <1>2

-----------------------------------------------------------------------------
(* Types, and the iterator.                                                *)

Tasks ==
  [op : {"add", "remove"}, timer : Timers]
    \cup [op : {"cancel"}, timer : Timers, flag : BOOLEAN]

\* Tasks concern timers that exist.
QueueOK ==
  /\ queue \in Seq(Tasks)
  /\ \A i \in DOMAIN queue : kind[queue[i].timer] # "none"

\* Only timers that exist run or are canceled; a timer that was due and is
\* canceled, or is being run, is no longer due.
Marks ==
  /\ \A t \in Timers : kind[t] = "none" => runs[t] = 0 /\ t \notin off
  /\ \A t \in due : ~canceled[t]
  /\ pc = "callback" => current \notin due
  /\ pc = "tasks" => due = {}

Walk == TypeOK /\ QueueOK /\ Marks

\* A new timer leaves the others as they are.
LEMMA RequestTypes ==
  ASSUME TypeOK, NEW t \in Timers, Request(t)
  PROVE  /\ kind \in [Timers -> {"none", "once", "every"}]
         /\ kind' \in [Timers -> {"none", "once", "every"}]
         /\ kind[t] = "none" /\ kind'[t] # "none"
         /\ when' \in [Timers -> Nat]
         /\ interval' \in [Timers -> Nat]
         /\ repeat' \in [Timers -> BOOLEAN]
         /\ expiration' \in [Timers -> Nat]
         /\ repeat'[t] => interval'[t] = 0
         /\ expiration'[t] = when'[t]
         /\ \A u \in Timers \ {t} :
              /\ kind'[u] = kind[u]
              /\ when'[u] = when[u]
              /\ interval'[u] = interval[u]
              /\ repeat'[u] = repeat[u]
              /\ expiration'[u] = expiration[u]
<1> USE DEF TypeOK
<1>1. PICK r \in {ByReference, FALSE} :
        \/ "once" \in Kinds /\ \E at \in 0 .. MaxTime : Create(t, "once", at, 0, r)
        \/ "every" \in Kinds /\ \E i \in Intervals : Create(t, "every", now + i, i, r)
  BY DEF Request
<1>2. r \in BOOLEAN
  BY TimerAssumption
<1>3. CASE \E at \in 0 .. MaxTime : Create(t, "once", at, 0, r)
  BY <1>3, <1>2, TimerAssumption DEF Create
<1>4. CASE \E i \in Intervals : Create(t, "every", now + i, i, r)
  <2>1. PICK i \in Intervals : Create(t, "every", now + i, i, r)
    BY <1>4
  <2>2. i \in Nat /\ now + i \in Nat
    BY TimerAssumption
  <2>3. repeat' = [repeat EXCEPT ![t] = FALSE]
    BY <2>1 DEF Create
  <2> QED
    BY <2>1, <2>2, <2>3 DEF Create
<1> QED
  BY <1>1, <1>3, <1>4

\* A task appended to the queue is a task like those in it.
LEMMA QueueTaskTypes ==
  ASSUME QueueOK, NEW task \in Tasks, QueueTask(task)
  PROVE  /\ queue' \in Seq(Tasks)
         /\ Len(queue') = Len(queue) + 1
         /\ \A i \in DOMAIN queue : queue'[i] = queue[i]
         /\ queue'[Len(queue')] = task
         /\ DOMAIN queue' = DOMAIN queue \cup {Len(queue')}
BY DEF QueueOK, QueueTask

\* What a step does to the queue, and that its tasks keep concerning timers
\* that exist.
LEMMA QueueStep ==
  ASSUME TypeOK, QueueOK, [Next]_vars
  PROVE  QueueOK'
<1> USE DEF QueueOK
<1>1. CASE UNCHANGED <<queue, kind>>
  BY <1>1
<1>2. CASE RunTask
  <2>1. /\ queue' = Tail(queue)
        /\ queue # <<>>
        /\ kind' = kind
    BY <1>2 DEF RunTask, timerVars
  <2>2. /\ Tail(queue) \in Seq(Tasks)
        /\ \A i \in DOMAIN Tail(queue) : i + 1 \in DOMAIN queue /\ Tail(queue)[i] = queue[i + 1]
    BY <2>1
  <2> QED
    BY <2>1, <2>2
<1>3. ASSUME NEW t \in Timers, AddHere(t)
      PROVE  QueueOK'
  <2>1. queue' = queue /\ \A u \in Timers : kind[u] # "none" => kind'[u] # "none"
    BY <1>3, RequestTypes DEF AddHere
  <2>2. \A i \in DOMAIN queue : queue[i].timer \in Timers
    BY DEF Tasks
  <2> QED
    BY <2>1, <2>2
<1>4. ASSUME NEW t \in Timers, AddElsewhere(t)
      PROVE  QueueOK'
  <2>1. \A u \in Timers : kind[u] # "none" => kind'[u] # "none"
    BY <1>4, RequestTypes DEF AddElsewhere
  <2>2. \A i \in DOMAIN queue : queue[i].timer \in Timers
    BY DEF Tasks
  <2>3. kind'[t] # "none"
    BY <1>4, RequestTypes DEF AddElsewhere
  <2>4. [op |-> "add", timer |-> t] \in Tasks
    BY DEF Tasks
  <2> QED
    BY <1>4, <2>1, <2>2, <2>3, <2>4, QueueTaskTypes DEF AddElsewhere
<1>5. ASSUME NEW t \in Timers, RemoveElsewhere(t)
      PROVE  QueueOK'
  <2>1. [op |-> "remove", timer |-> t] \in Tasks
    BY DEF Tasks
  <2> QED
    BY <1>5, <2>1, QueueTaskTypes DEF RemoveElsewhere, timerVars
<1>6. ASSUME NEW t \in Timers, NEW flag \in BOOLEAN, CancelElsewhere(t, flag)
      PROVE  QueueOK'
  <2>1. [op |-> "cancel", timer |-> t, flag |-> flag] \in Tasks
    BY DEF Tasks
  <2> QED
    BY <1>6, <2>1, QueueTaskTypes DEF CancelElsewhere, timerVars
<1> QED
  BY <1>1, <1>2, <1>3, <1>4, <1>5, <1>6
  DEF Next, LoopStep, vars, timerVars, StartPass, RunTimer, CallbackReturns, SkipTimer,
      EndPass, ReachTasks, RemoveHere, CancelHere, Tick

\* A step keeps the types and the marks.
LEMMA WalkStep ==
  ASSUME Walk, [Next]_vars
  PROVE  TypeOK' /\ Marks'
<1> USE TimerAssumption DEF Walk, TypeOK, Marks, timerVars, runVars, setVars, passVars
<1>1. CASE StartPass
  <2>1. First(inSet) \in inSet \cup {End}
    BY FirstIsFirst DEF First
  <2> QED
    BY <1>1, <2>1 DEF StartPass
<1>2. CASE RunTimer
  <2>1. current \in Timers /\ current \in inSet /\ kind[current] # "none"
    BY <1>2 DEF RunTimer
  <2>2. /\ runs' \in [Timers -> Nat]
        /\ \A t \in Timers : t # current => runs'[t] = runs[t]
    BY <1>2, <2>1 DEF RunTimer
  <2> QED
    BY <1>2, <2>1, <2>2 DEF RunTimer
<1>3. CASE CallbackReturns
  <2>1. current \in Timers /\ current \in inSet
    BY <1>3 DEF CallbackReturns
  <2>2. /\ After(current, inSet) \in {s \in inSet : Before(current, s)} \cup {End}
    BY <2>1, AfterIsNext
  <2>3. ~ Before(current, current)
    BY <2>1 DEF Before
  <2>4. /\ expiration' \in [Timers -> Nat]
        /\ inSet' \in {inSet, inSet \ {current}}
    BY <1>3, <2>1 DEF CallbackReturns
  <2>5. After(current, inSet) \in inSet' \cup {End}
    BY <1>3, <2>1, <2>2, <2>3, <2>4 DEF End
  <2> QED
    BY <1>3, <2>1, <2>4, <2>5 DEF CallbackReturns
<1>4. CASE SkipTimer
  <2>1. After(current, inSet) \in inSet \cup {End}
    BY <1>4, AfterIsNext DEF SkipTimer
  <2> QED
    BY <1>4, <2>1 DEF SkipTimer
<1>5. CASE EndPass
  BY <1>5 DEF EndPass
<1>6. CASE ReachTasks
  BY <1>6 DEF ReachTasks
<1>7. CASE RunTask
  <2> DEFINE task == Head(queue)
  <2>1. task \in Tasks /\ kind[task.timer] # "none"
    BY <1>7 DEF RunTask, QueueOK
  <2>2. task.timer \in Timers
    BY <2>1 DEF Tasks
  <2>3. CASE task.op = "add"
    BY <1>7, <2>1, <2>2, <2>3 DEF RunTask
  <2>4. CASE task.op = "remove"
    BY <1>7, <2>1, <2>2, <2>4 DEF RunTask, RemoveInLoop
  <2>5. CASE task.op = "cancel"
    <3>1. task.flag \in BOOLEAN
      BY <2>1, <2>5 DEF Tasks
    <3>2. CancelInLoop(task.timer, task.flag)
      BY <1>7, <2>5 DEF RunTask
    <3> QED
      BY <1>7, <2>1, <2>2, <3>1, <3>2 DEF RunTask, CancelInLoop
  <2> QED
    BY <2>1, <2>3, <2>4, <2>5 DEF Tasks
<1>8. ASSUME NEW t \in Timers, AddHere(t)
      PROVE  TypeOK' /\ Marks'
  BY <1>8, RequestTypes DEF AddHere
<1>9. ASSUME NEW t \in Timers, RemoveHere(t)
      PROVE  TypeOK' /\ Marks'
  BY <1>9 DEF RemoveHere, RemoveInLoop
<1>10. ASSUME NEW t \in Timers, NEW flag \in BOOLEAN, CancelHere(t, flag)
       PROVE  TypeOK' /\ Marks'
  BY <1>10 DEF CancelHere, CancelInLoop, Known
<1>11. ASSUME NEW t \in Timers, AddElsewhere(t)
       PROVE  TypeOK' /\ Marks'
  BY <1>11, RequestTypes DEF AddElsewhere
<1>12. ASSUME NEW t \in Timers, RemoveElsewhere(t)
       PROVE  TypeOK' /\ Marks'
  BY <1>12 DEF RemoveElsewhere
<1>13. ASSUME NEW t \in Timers, NEW flag \in BOOLEAN, CancelElsewhere(t, flag)
       PROVE  TypeOK' /\ Marks'
  BY <1>13 DEF CancelElsewhere
<1>14. CASE Tick
  BY <1>14 DEF Tick
<1>15. CASE UNCHANGED vars
  BY <1>15 DEF vars
<1> QED
  BY <1>1, <1>2, <1>3, <1>4, <1>5, <1>6, <1>7, <1>8, <1>9, <1>10, <1>11, <1>12,
     <1>13, <1>14, <1>15 DEF Next, LoopStep

\* The iterator points into the set, whatever callbacks and other threads do.
LEMMA WalkInvariant == SafetySpec => []Walk
<1>1. Init => Walk
  <2> SUFFICES ASSUME Init
               PROVE  Walk
    OBVIOUS
  <2>1. queue \in Seq(Tasks) /\ DOMAIN queue = {}
    BY DEF Init
  <2>2. TypeOK
    BY TimerAssumption DEF Init, TypeOK, End
  <2> QED
    BY <2>1, <2>2 DEF Init, Walk, QueueOK, Marks
<1>2. Walk /\ [Next]_vars => Walk'
  BY QueueStep, WalkStep DEF Walk
<1> QED
  BY <1>1, <1>2, PTL DEF SafetySpec

\* The types of all variables, with the place of the iterator: in TimerQueue.cpp
\* iter is a valid iterator of timers_ whenever doTimer uses it.
THEOREM TypeCorrect == SafetySpec => []TypeOK
<1>1. Walk => TypeOK
  BY DEF Walk
<1> QED
  BY <1>1, WalkInvariant, PTL

-----------------------------------------------------------------------------
(* Time.                                                                   *)

\* How many runs of t moved its expiration on, or will not.
Completed(t) == IF pc = "callback" /\ t = current THEN runs[t] - 1 ELSE runs[t]

\* expiration_ is the time asked for and one interval for each completed run.
OnSchedule ==
  /\ \A t \in Timers : repeat[t] => interval[t] = 0
  /\ \A t \in Timers : expiration[t] = when[t] + Completed(t) * interval[t]
  /\ pc = "callback" => runs[current] > 0
  /\ NeverEarly

\* One more interval.
LEMMA OneMore ==
  ASSUME NEW n \in Nat, NEW k \in Nat
  PROVE  (n + 1) * k = n * k + k
OBVIOUS

\* Every step leaves a timer on its schedule.
LEMMA OnScheduleStep ==
  ASSUME Walk, OnSchedule, [Next]_vars
  PROVE  OnSchedule'
<1> USE DEF OnSchedule, Completed, NeverEarly, timerVars, runVars, setVars, passVars
<1>0. /\ now \in Nat /\ passTime \in Nat /\ passTime <= now
      /\ when \in [Timers -> Nat] /\ interval \in [Timers -> Nat]
      /\ expiration \in [Timers -> Nat] /\ runs \in [Timers -> Nat]
      /\ repeat \in [Timers -> BOOLEAN]
      /\ current \in Timers \cup {End}
      /\ pc = "callback" => current \in Timers
      /\ \A t \in Timers : kind[t] = "none" => runs[t] = 0
      /\ \A t \in Timers : kind[t] = "none" => ~ (pc = "callback" /\ current = t)
  BY TimerAssumption DEF Walk, TypeOK, Marks
<1>1. CASE RunTimer
  <2>1. /\ current \in Timers
        /\ expiration[current] <= now
        /\ now' = now
    BY <1>0, <1>1 DEF RunTimer
  <2>2. /\ runs'[current] = runs[current] + 1
        /\ \A t \in Timers : t # current => runs'[t] = runs[t]
    BY <1>0, <1>1, <2>1 DEF RunTimer
  <2>3. when[current] + runs[current] * interval[current] <= now
    BY <1>0, <1>1, <2>1 DEF RunTimer
  <2>4. ASSUME NEW t \in Timers
        PROVE  /\ expiration'[t] = when'[t] + Completed(t)' * interval'[t]
               /\ runs'[t] > 0 => when'[t] + (runs'[t] - 1) * interval'[t] <= now'
    <3>1. CASE t = current
      <4>1. /\ runs'[t] - 1 = runs[t]
            /\ Completed(t)' = runs[t]
            /\ Completed(t) = runs[t]
        BY <1>0, <1>1, <2>1, <2>2, <3>1 DEF RunTimer
      <4> QED
        BY <1>1, <2>1, <2>3, <3>1, <4>1 DEF RunTimer
    <3>2. CASE t # current
      <4>1. runs'[t] = runs[t] /\ Completed(t)' = runs[t] /\ Completed(t) = runs[t]
        BY <1>1, <2>2, <3>2 DEF RunTimer
      <4> QED
        BY <1>1, <2>1, <4>1 DEF RunTimer
    <3> QED
      BY <3>1, <3>2
  <2>5. runs'[current'] > 0
    BY <1>0, <1>1, <2>1, <2>2 DEF RunTimer
  <2> QED
    BY <1>1, <2>4, <2>5 DEF RunTimer
<1>2. CASE CallbackReturns
  <2>1. current \in Timers /\ runs[current] > 0
    BY <1>0, <1>2 DEF CallbackReturns
  <2>2. CASE repeat[current]
    <3>1. expiration' = expiration
      BY <1>2, <2>2 DEF CallbackReturns
    <3>2. interval[current] = 0
      BY <2>1, <2>2
    <3> QED
      BY <1>0, <1>2, <2>1, <3>1, <3>2 DEF CallbackReturns
  <2>3. CASE ~repeat[current]
    <3>1. /\ expiration'[current] = expiration[current] + interval[current]
          /\ \A t \in Timers : t # current => expiration'[t] = expiration[t]
      BY <1>0, <1>2, <2>1, <2>3 DEF CallbackReturns
    <3>2. expiration[current] = when[current] + (runs[current] - 1) * interval[current]
      BY <1>2, <2>1 DEF CallbackReturns
    <3>3. runs[current] - 1 \in Nat /\ interval[current] \in Nat
      BY <1>0, <2>1
    <3>4. ((runs[current] - 1) + 1) * interval[current]
            = (runs[current] - 1) * interval[current] + interval[current]
      BY <3>3, OneMore
    <3>5. expiration'[current] = when[current] + runs[current] * interval[current]
      BY <1>0, <2>1, <3>1, <3>2, <3>4
    <3> QED
      BY <1>0, <1>2, <2>1, <3>1, <3>5 DEF CallbackReturns
  <2> QED
    BY <2>2, <2>3
<1>3. ASSUME NEW t \in Timers, Request(t), UNCHANGED <<now, runs, passVars>>
      PROVE  OnSchedule'
  <2>1. kind[t] = "none" /\ runs[t] = 0
    BY <1>0, <1>3, RequestTypes DEF Walk
  <2>2. /\ when'[t] \in Nat /\ interval'[t] \in Nat
        /\ repeat'[t] => interval'[t] = 0
        /\ expiration'[t] = when'[t]
    BY <1>3, RequestTypes DEF Walk
  <2>3. \A u \in Timers \ {t} :
          /\ when'[u] = when[u]
          /\ interval'[u] = interval[u]
          /\ repeat'[u] = repeat[u]
          /\ expiration'[u] = expiration[u]
    BY <1>3, RequestTypes DEF Walk
  <2>4. \A u \in Timers : Completed(u)' = Completed(u)
    BY <1>3
  <2>5. Completed(t) = 0
    BY <1>0, <2>1
  <2>6. \A u \in Timers : expiration'[u] = when'[u] + Completed(u)' * interval'[u]
    <3>1. expiration'[t] = when'[t] + Completed(t)' * interval'[t]
      <4>1. Completed(t)' = 0
        BY <2>4, <2>5
      <4>2. 0 * interval'[t] = 0
        BY <2>2
      <4> QED
        BY <2>2, <4>1, <4>2
    <3> QED
      BY <2>3, <2>4, <3>1
  <2>7. NeverEarly'
    BY <1>3, <2>1, <2>3
  <2> QED
    BY <1>3, <2>2, <2>3, <2>6, <2>7
<1>4. CASE Tick
  BY <1>0, <1>4 DEF Tick
<1>5. CASE UNCHANGED <<now, timerVars, runVars, pc, current>>
  BY <1>5
<1>6. CASE /\ UNCHANGED <<now, timerVars, runVars>>
           /\ pc # "callback"
           /\ pc' # "callback"
  BY <1>6
<1> QED
  BY <1>1, <1>2, <1>3, <1>4, <1>5, <1>6
  DEF Next, LoopStep, vars, StartPass, SkipTimer, EndPass, ReachTasks, RunTask, AddHere,
      RemoveHere, CancelHere, AddElsewhere, RemoveElsewhere, CancelElsewhere

\* No timer is early, however long the loop, its callbacks and other threads
\* run: the n-th run waits for n - 1 intervals behind the time asked for.
THEOREM NoTimerIsEarly == SafetySpec => []NeverEarly
<1>1. Init => OnSchedule
  BY DEF Init, OnSchedule, Completed, NeverEarly
<1>2. Walk /\ OnSchedule /\ [Next]_vars => OnSchedule'
  BY OnScheduleStep
<1>3. OnSchedule => NeverEarly
  BY DEF OnSchedule
<1> QED
  BY <1>1, <1>2, <1>3, WalkInvariant, PTL DEF SafetySpec

-----------------------------------------------------------------------------
(* Timers whose addTimer is still queued.                                  *)

\* Such a timer is not in the set, has not run and nothing in front of it in
\* the queue is about it; unless TimerIds are handed over it is not canceled.
Fresh ==
  \A i \in DOMAIN queue :
    LET t == queue[i].timer
    IN  queue[i].op = "add" =>
          /\ t \notin inSet
          /\ runs[t] = 0
          /\ HandOver \/ t \notin off
          /\ \A j \in DOMAIN queue : j < i => queue[j].timer # t

\* What Fresh says of the timer of the task the loop takes, and of those behind.
LEMMA FreshHead ==
  ASSUME Walk, Fresh, RunTask
  PROVE  LET task == Head(queue)
         IN  /\ task \in Tasks
             /\ task.timer \in Timers
             /\ task.op = "add" => /\ runs[task.timer] = 0
                                   /\ HandOver \/ task.timer \notin off
             /\ \A i \in DOMAIN queue' :
                  /\ queue'[i] = queue[i + 1]
                  /\ i + 1 \in DOMAIN queue
                  /\ queue'[i].op = "add" => queue'[i].timer # task.timer
<1>1. /\ queue \in Seq(Tasks)
      /\ queue # <<>>
      /\ queue' = Tail(queue)
  BY DEF Walk, QueueOK, RunTask
<1>2. /\ Head(queue) = queue[1]
      /\ 1 \in DOMAIN queue
      /\ Head(queue) \in Tasks
      /\ \A i \in DOMAIN Tail(queue) :
           /\ i \in Nat /\ 1 < i + 1
           /\ Tail(queue)[i] = queue[i + 1]
           /\ i + 1 \in DOMAIN queue
  BY <1>1
<1>3. Head(queue).timer \in Timers
  BY <1>2 DEF Tasks
<1> QED
  BY <1>1, <1>2, <1>3 DEF Fresh

\* Every step leaves a timer whose addTimer is still queued outside the set,
\* and unrun.
LEMMA FreshStep ==
  ASSUME Walk, Fresh, [Next]_vars
  PROVE  Fresh'
<1> USE DEF timerVars, runVars, setVars, passVars
<1>0. /\ queue \in Seq(Tasks)
      /\ \A i \in DOMAIN queue : queue[i] \in Tasks /\ queue[i].timer \in Timers
      /\ \A i \in DOMAIN queue : kind[queue[i].timer] # "none"
      /\ inSet \subseteq Timers
      /\ runs \in [Timers -> Nat]
      /\ current \in inSet \cup {End}
      /\ \A t \in inSet : kind[t] # "none"
      /\ \A t \in Timers : kind[t] = "none" => runs[t] = 0 /\ t \notin off
  <2>1. \A task \in Tasks : task.timer \in Timers
    BY DEF Tasks
  <2> QED
    BY <2>1 DEF Walk, TypeOK, QueueOK, Marks
<1>1. CASE RunTimer
  <2>1. \A t \in Timers : t # current => runs'[t] = runs[t]
    BY <1>0, <1>1 DEF RunTimer
  <2>2. current \in inSet
    BY <1>0, <1>1 DEF RunTimer
  <2> QED
    BY <1>0, <1>1, <2>1, <2>2 DEF RunTimer, Fresh
<1>2. CASE CallbackReturns
  <2>1. inSet' \subseteq inSet
    BY <1>2 DEF CallbackReturns
  <2> QED
    BY <1>0, <1>2, <2>1 DEF CallbackReturns, Fresh
<1>3. CASE RunTask
  <2> DEFINE task == Head(queue)
  <2>1. /\ task \in Tasks
        /\ \A i \in DOMAIN queue' :
             /\ queue'[i] = queue[i + 1]
             /\ i \in Nat
             /\ i + 1 \in DOMAIN queue
             /\ queue'[i].op = "add" => queue'[i].timer # task.timer
    <3>1. \A i \in DOMAIN queue' : i \in Nat
      BY <1>0, <1>3 DEF RunTask
    <3> QED
      BY <1>3, <3>1, FreshHead
  <2>2. /\ inSet' \subseteq inSet \cup {task.timer}
        /\ off' \subseteq off \cup {task.timer}
        /\ runs' = runs
    <3>1. CASE task.op = "add"
      BY <1>3, <3>1 DEF RunTask
    <3>2. CASE task.op = "remove"
      BY <1>3, <3>2 DEF RunTask, RemoveInLoop
    <3>3. CASE task.op = "cancel"
      <4>1. CancelInLoop(task.timer, task.flag) /\ runs' = runs
        BY <1>3, <3>3 DEF RunTask
      <4> QED
        BY <4>1 DEF CancelInLoop
    <3> QED
      BY <2>1, <3>1, <3>2, <3>3 DEF Tasks
  <2>3. SUFFICES ASSUME NEW i \in DOMAIN queue', queue'[i].op = "add"
                 PROVE  LET t == queue'[i].timer
                        IN  /\ t \notin inSet'
                            /\ runs'[t] = 0
                            /\ HandOver \/ t \notin off'
                            /\ \A j \in DOMAIN queue' : j < i => queue'[j].timer # t
    BY DEF Fresh
  <2>4. \A j \in DOMAIN queue' : j < i => j + 1 < i + 1
    BY <2>1
  <2> QED
    BY <2>1, <2>2, <2>3, <2>4 DEF Fresh
<1>4. ASSUME NEW t \in Timers, AddHere(t)
      PROVE  Fresh'
  <2>1. kind[t] = "none"
    BY <1>4, RequestTypes DEF AddHere, Walk
  <2> QED
    BY <1>0, <1>4, <2>1 DEF AddHere, Fresh
<1>5. ASSUME NEW t \in Timers, RemoveHere(t)
      PROVE  Fresh'
  BY <1>5 DEF RemoveHere, RemoveInLoop, Fresh
<1>6. ASSUME NEW t \in Timers, NEW flag \in BOOLEAN, CancelHere(t, flag)
      PROVE  Fresh'
  BY <1>6 DEF CancelHere, CancelInLoop, Known, Fresh
<1>7. ASSUME NEW t \in Timers, NEW task \in Tasks, QueueTask(task), task.timer = t,
             UNCHANGED <<inSet, runs, off>>,
             task.op = "add" => kind[t] = "none"
      PROVE  Fresh'
  <2>1. /\ Len(queue') = Len(queue) + 1
        /\ \A i \in DOMAIN queue : queue'[i] = queue[i] /\ i < Len(queue')
        /\ queue'[Len(queue')] = task
        /\ DOMAIN queue' = DOMAIN queue \cup {Len(queue')}
        /\ Len(queue') \in Nat
        /\ \A i \in DOMAIN queue : i \in Nat
    <3>1. /\ Len(queue') = Len(queue) + 1
          /\ \A i \in DOMAIN queue : queue'[i] = queue[i]
          /\ queue'[Len(queue')] = task
          /\ DOMAIN queue' = DOMAIN queue \cup {Len(queue')}
      BY <1>7, QueueTaskTypes DEF Walk
    <3>2. Len(queue) \in Nat /\ DOMAIN queue = 1 .. Len(queue)
      BY <1>0
    <3> QED
      BY <3>1, <3>2
  <2>2. task.op = "add" => \A i \in DOMAIN queue : queue[i].timer # t
    BY <1>0, <1>7
  <2>3. task.op = "add" => t \notin inSet /\ runs[t] = 0 /\ t \notin off
    BY <1>0, <1>7
  <2>4. SUFFICES ASSUME NEW i \in DOMAIN queue', queue'[i].op = "add"
                 PROVE  LET u == queue'[i].timer
                        IN  /\ u \notin inSet'
                            /\ runs'[u] = 0
                            /\ HandOver \/ u \notin off'
                            /\ \A j \in DOMAIN queue' : j < i => queue'[j].timer # u
    BY DEF Fresh
  <2>5. CASE i = Len(queue')
    BY <1>7, <2>1, <2>2, <2>3, <2>4, <2>5
  <2>6. CASE i \in DOMAIN queue
    BY <1>7, <2>1, <2>4, <2>6 DEF Fresh
  <2> QED
    BY <2>1, <2>5, <2>6
<1>8. ASSUME NEW t \in Timers, AddElsewhere(t)
      PROVE  Fresh'
  <2>1. [op |-> "add", timer |-> t] \in Tasks /\ kind[t] = "none"
    BY <1>8, RequestTypes DEF AddElsewhere, Walk, Tasks
  <2> QED
    BY <1>7, <1>8, <2>1 DEF AddElsewhere
<1>9. ASSUME NEW t \in Timers, RemoveElsewhere(t)
      PROVE  Fresh'
  <2>1. [op |-> "remove", timer |-> t] \in Tasks
    BY DEF Tasks
  <2> QED
    BY <1>7, <1>9, <2>1 DEF RemoveElsewhere
<1>10. ASSUME NEW t \in Timers, NEW flag \in BOOLEAN, CancelElsewhere(t, flag)
       PROVE  Fresh'
  <2>1. [op |-> "cancel", timer |-> t, flag |-> flag] \in Tasks
    BY DEF Tasks
  <2> QED
    BY <1>7, <1>10, <2>1 DEF CancelElsewhere
<1>11. CASE UNCHANGED <<queue, inSet, runs, off>>
  BY <1>11 DEF Fresh
<1> QED
  BY <1>1, <1>2, <1>3, <1>4, <1>5, <1>6, <1>8, <1>9, <1>10, <1>11
  DEF Next, LoopStep, vars, StartPass, SkipTimer, EndPass, ReachTasks, Tick

\* Walk and Fresh hold all the time.
LEMMA FreshInvariant == SafetySpec => [](Walk /\ Fresh)
<1>1. Init => Fresh
  BY DEF Init, Fresh
<1>2. Walk /\ Fresh /\ [Next]_vars => Fresh'
  BY FreshStep
<1> QED
  BY <1>1, <1>2, WalkInvariant, PTL DEF SafetySpec

-----------------------------------------------------------------------------
(* One-shot timers run once.                                               *)

\* A one-shot timer counts down; it ran once if it is not in the set, and the
\* one that has run and still is in the set is in its callback.
CountsDown ==
  \A t \in Timers : kind[t] = "once" =>
    /\ repeat[t]
    /\ runs[t] <= 1
    /\ t \in inSet => runs[t] = 0 \/ (pc = "callback" /\ t = current)

\* Every step counts the runs of a one-shot timer.
LEMMA CountsDownStep ==
  ASSUME ~ByReference, Walk, Fresh, CountsDown, [Next]_vars
  PROVE  CountsDown'
<1> USE DEF CountsDown, timerVars, runVars, setVars, passVars
<1>0. /\ runs \in [Timers -> Nat]
      /\ inSet \subseteq Timers
      /\ current \in inSet \cup {End}
      /\ \A t \in inSet : kind[t] # "none"
      /\ \A t \in Timers : kind[t] = "none" => runs[t] = 0
  BY DEF Walk, TypeOK, Marks
<1>1. CASE RunTimer
  <2>1. /\ current \in inSet
        /\ runs'[current] = runs[current] + 1
        /\ \A t \in Timers : t # current => runs'[t] = runs[t]
    BY <1>0, <1>1 DEF RunTimer
  <2>2. kind[current] = "once" => runs[current] = 0
    BY <1>0, <1>1, <2>1 DEF RunTimer
  <2> QED
    BY <1>0, <1>1, <2>1, <2>2 DEF RunTimer
<1>2. CASE CallbackReturns
  <2>1. kind[current] = "once" => inSet' = inSet \ {current}
    BY <1>0, <1>2 DEF CallbackReturns, Walk, TypeOK
  <2>2. inSet' \subseteq inSet
    BY <1>2 DEF CallbackReturns
  <2> QED
    BY <1>2, <2>1, <2>2 DEF CallbackReturns
<1>3. CASE RunTask
  <2> DEFINE task == Head(queue)
  <2>1. task \in Tasks /\ (task.op = "add" => runs[task.timer] = 0)
    BY <1>3, FreshHead
  <2>2. \A t \in inSet' : t \in inSet \/ runs[t] = 0
    <3>1. CASE task.op = "add"
      BY <1>3, <2>1, <3>1 DEF RunTask
    <3>2. CASE task.op = "remove"
      BY <1>3, <3>2 DEF RunTask, RemoveInLoop
    <3>3. CASE task.op = "cancel"
      <4>1. CancelInLoop(task.timer, task.flag)
        BY <1>3, <3>3 DEF RunTask
      <4> QED
        BY <4>1 DEF CancelInLoop
    <3> QED
      BY <2>1, <3>1, <3>2, <3>3 DEF Tasks
  <2> QED
    BY <1>3, <2>2 DEF RunTask
<1>4. ASSUME NEW t \in Timers, Request(t), UNCHANGED <<runs, passVars>>,
             inSet' \in {inSet, inSet \cup {t}}
      PROVE  CountsDown'
  <2>1. kind[t] = "none" /\ runs[t] = 0
    BY <1>0, <1>4, RequestTypes DEF Walk
  <2>2. \A u \in Timers \ {t} : kind'[u] = kind[u] /\ repeat'[u] = repeat[u]
    BY <1>4, RequestTypes DEF Walk
  <2>3. kind'[t] = "once" => repeat'[t]
    <3>1. PICK r \in {ByReference, FALSE} :
            \/ \E at \in 0 .. MaxTime : Create(t, "once", at, 0, r)
            \/ \E i \in Intervals : Create(t, "every", now + i, i, r)
      BY <1>4 DEF Request
    <3>2. ~r
      BY TimerAssumption
    <3> QED
      BY <3>1, <3>2 DEF Create, Walk, TypeOK
  <2> QED
    BY <1>4, <2>1, <2>2, <2>3
<1>5. CASE /\ UNCHANGED <<kind, repeat, runs, pc, current>>
           /\ inSet' \subseteq inSet
  BY <1>5
<1>6. CASE /\ UNCHANGED <<kind, repeat, runs, inSet>>
           /\ pc # "callback"
  BY <1>6
<1> QED
  BY <1>1, <1>2, <1>3, <1>4, <1>5, <1>6
  DEF Next, LoopStep, vars, StartPass, SkipTimer, EndPass, ReachTasks, Tick, AddHere,
      RemoveHere, RemoveInLoop, CancelHere, CancelInLoop, AddElsewhere, RemoveElsewhere,
      CancelElsewhere

\* Callbacks moved into runAt and runAfter run at most once (TimerQueue.cpp:109
\* passes the count on, which line 102 does not).
THEOREM OneShotRunsOnce ==
  ASSUME ~ByReference
  PROVE  SafetySpec => []OnceRunsOnce
<1>1. Init => CountsDown
  BY DEF Init, CountsDown
<1>2. Walk /\ Fresh /\ CountsDown /\ [Next]_vars => CountsDown'
  BY CountsDownStep
<1>3. CountsDown => OnceRunsOnce
  BY DEF CountsDown, OnceRunsOnce
<1> QED
  BY <1>1, <1>2, <1>3, FreshInvariant, PTL DEF SafetySpec

-----------------------------------------------------------------------------
(* Canceled timers.                                                        *)

\* Whatever was canceled last and is in the set carries the mark.
OffIsMarked == \A t \in off : t \in inSet => canceled[t]

\* Every step leaves a canceled timer marked.
LEMMA OffIsMarkedStep ==
  ASSUME ~HandOver, Walk, Fresh, OffIsMarked, [Next]_vars
  PROVE  OffIsMarked'
<1> USE DEF OffIsMarked, timerVars, runVars, setVars, passVars
<1>0. /\ canceled \in [Timers -> BOOLEAN]
      /\ \A t \in Timers : kind[t] = "none" => t \notin off
  BY DEF Walk, TypeOK, Marks
<1>1. ASSUME NEW t \in Timers, NEW flag \in BOOLEAN, CancelInLoop(t, flag)
      PROVE  OffIsMarked'
  BY <1>0, <1>1 DEF CancelInLoop
<1>2. CASE RunTask
  <2> DEFINE task == Head(queue)
  <2>1. /\ task \in Tasks
        /\ task.timer \in Timers
        /\ task.op = "add" => task.timer \notin off
    BY <1>2, FreshHead
  <2>2. CASE task.op = "add"
    <3>1. inSet' = inSet \cup {task.timer} /\ UNCHANGED <<canceled, off>>
      BY <1>2, <2>2 DEF RunTask
    <3>2. task.timer \notin off
      BY <2>1, <2>2
    <3> QED
      BY <3>1, <3>2
  <2>3. CASE task.op = "remove"
    BY <1>2, <2>3 DEF RunTask, RemoveInLoop
  <2>4. CASE task.op = "cancel"
    <3>1. task.flag \in BOOLEAN
      BY <2>1, <2>4 DEF Tasks
    <3>2. CancelInLoop(task.timer, task.flag)
      BY <1>2, <2>4 DEF RunTask
    <3> QED
      BY <1>1, <2>1, <3>1, <3>2
  <2> QED
    BY <2>1, <2>2, <2>3, <2>4 DEF Tasks
<1>3. ASSUME NEW t \in Timers, AddHere(t)
      PROVE  OffIsMarked'
  <2>1. kind[t] = "none"
    BY <1>3, RequestTypes DEF AddHere, Walk
  <2> QED
    BY <1>0, <1>3, <2>1 DEF AddHere
<1>4. ASSUME NEW t \in Timers, NEW flag \in BOOLEAN, CancelHere(t, flag)
      PROVE  OffIsMarked'
  BY <1>1, <1>4 DEF CancelHere
<1>5. CASE UNCHANGED <<canceled, off>> /\ inSet' \subseteq inSet
  BY <1>5
<1> QED
  BY <1>2, <1>3, <1>4, <1>5
  DEF Next, LoopStep, vars, StartPass, RunTimer, CallbackReturns, SkipTimer, EndPass,
      ReachTasks, Tick, RemoveHere, RemoveInLoop, AddElsewhere, RemoveElsewhere,
      CancelElsewhere

\* As long as nobody cancels a timer whose addTimer is still queued, a timer is
\* quiet from a served cancel(true) to the next cancel(false), whichever of the
\* loop's callbacks and the other threads they come from.
THEOREM CanceledTimersAreQuiet ==
  ASSUME ~HandOver
  PROVE  SafetySpec => CanceledIsQuiet
<1>1. Init => OffIsMarked
  BY DEF Init, OffIsMarked
<1>2. Walk /\ Fresh /\ OffIsMarked /\ [Next]_vars => OffIsMarked'
  BY OffIsMarkedStep
<1>3. Walk /\ OffIsMarked /\ [Next]_vars
        => [\A t \in Timers : runs'[t] # runs[t] => t \notin off]_vars
  <2> SUFFICES ASSUME Walk, OffIsMarked, [Next]_vars, NEW t \in Timers, runs'[t] # runs[t]
               PROVE  t \notin off
    OBVIOUS
  <2>1. RunTimer
    BY DEF Next, LoopStep, vars, StartPass, CallbackReturns, SkipTimer, EndPass, ReachTasks,
           RunTask, AddHere, RemoveHere, CancelHere, AddElsewhere, RemoveElsewhere,
           CancelElsewhere, Tick, runVars
  <2>2. t = current /\ ~canceled[t] /\ t \in inSet
    BY <2>1 DEF RunTimer, Walk, TypeOK
  <2> QED
    BY <2>2 DEF OffIsMarked
<1> QED
  BY <1>1, <1>2, <1>3, FreshInvariant, PTL DEF SafetySpec, CanceledIsQuiet

-----------------------------------------------------------------------------
(* What a pass of doTimer leaves behind.                                   *)

\* Nobody takes a repeating timer back: before a step there are no more of them.
LEMMA OneShotsBefore ==
  ASSUME Walk, [Next]_vars, OneShots'
  PROVE  OneShots
<1> USE DEF OneShots, timerVars
<1>1. ASSUME NEW t \in Timers, Request(t)
      PROVE  OneShots
  BY <1>1, RequestTypes DEF Walk
<1>2. CASE UNCHANGED kind
  BY <1>2
<1> QED
  BY <1>1, <1>2
  DEF Next, LoopStep, vars, StartPass, RunTimer, CallbackReturns, SkipTimer, EndPass,
      ReachTasks, RunTask, Tick, AddHere, RemoveHere, CancelHere, AddElsewhere,
      RemoveElsewhere, CancelElsewhere

\* Without repeating timers no expiration moves, so the keys are the
\* expirations and what is due and has not run is at the iterator or behind it.
Ahead ==
  /\ \A t \in Timers : interval[t] = 0 /\ expiration[t] = when[t]
  /\ \A t \in due : expiration[t] <= passTime
  /\ pc \in {"pass", "callback"} =>
       \A t \in due : current # End /\ (t = current \/ Before(current, t))
  /\ DueRuns

\* Every step leaves the expired one-shot timers ahead of the iterator.
LEMMA AheadStep ==
  ASSUME OneShots', Walk, Ahead, [Next]_vars
  PROVE  Ahead'
<1> USE DEF Ahead, DueRuns, timerVars, runVars, setVars, passVars
<1>0. /\ when \in [Timers -> Nat] /\ expiration \in [Timers -> Nat]
      /\ passTime \in Nat
      /\ inSet \subseteq Timers
      /\ due \subseteq inSet
      /\ current \in inSet \cup {End}
      /\ pc \in {"pass", "callback", "end", "tasks"}
      /\ \A t \in inSet : kind[t] # "none"
      /\ pc = "callback" => current \in Timers /\ current \notin due
      /\ \A t \in due : ~canceled[t]
      /\ pc = "tasks" => due = {}
  BY TimerAssumption DEF Walk, TypeOK, Marks
<1>1. CASE StartPass
  <2>1. \A t \in due' : t \in inSet /\ expiration[t] <= now
    BY <1>1 DEF StartPass
  <2>2. inSet # {} => /\ First(inSet) \in inSet
                      /\ \A t \in inSet : t = First(inSet) \/ Before(First(inSet), t)
    BY <1>0, FirstIsFirst
  <2>3. 0 \notin Timers
    BY TimerAssumption
  <2>4. \A t \in due' : current' # End /\ (t = current' \/ Before(current', t))
    BY <1>0, <1>1, <2>1, <2>2, <2>3 DEF StartPass, End
  <2> QED
    BY <1>1, <2>1, <2>4 DEF StartPass, Before
<1>2. CASE RunTimer
  BY <1>0, <1>2 DEF RunTimer, Before
<1>3. CASE CallbackReturns \/ SkipTimer
  <2>1. /\ current \in Timers /\ current \notin due
        /\ current' = After(current, inSet)
        /\ due' = due /\ passTime' = passTime
        /\ UNCHANGED timerVars
        /\ pc' = "pass"
    BY <1>0, <1>3 DEF CallbackReturns, SkipTimer
  <2>2. pc \in {"pass", "callback"}
    BY <1>3 DEF CallbackReturns, SkipTimer
  <2>3. \A t \in due : /\ After(current, inSet) # End
                       /\ t = After(current, inSet) \/ Before(After(current, inSet), t)
    BY <1>0, <2>1, <2>2, AfterIsNext
  <2>4. expiration' = expiration
    <3>1. CASE SkipTimer
      BY <3>1 DEF SkipTimer
    <3>2. CASE CallbackReturns
      <4>1. expiration[current] + interval[current] = expiration[current]
        BY <1>0, <2>1
      <4> QED
        BY <1>0, <3>2, <4>1 DEF CallbackReturns
    <3> QED
      BY <1>3, <3>1, <3>2
  <2> QED
    BY <2>1, <2>3, <2>4 DEF Before
<1>4. CASE EndPass
  <2>1. \A t \in due : FALSE
    <3> SUFFICES ASSUME NEW t \in due
                 PROVE  FALSE
      OBVIOUS
    <3>1. /\ current # End
          /\ t = current \/ Before(current, t)
          /\ expiration[t] <= passTime
      BY <1>4 DEF EndPass
    <3>2. when[current] <= when[t]
      BY <1>0, <3>1 DEF Before
    <3>3. expiration[current] <= passTime
      BY <1>0, <3>1, <3>2
    <3> QED
      BY <1>0, <1>4, <3>1, <3>3 DEF EndPass
  <2> QED
    BY <1>4, <2>1 DEF EndPass, Before
<1>5. CASE ReachTasks
  BY <1>5 DEF ReachTasks, Before
<1>6. CASE RunTask
  <2>1. due' = {}
    <3>1. due = {}
      BY <1>0, <1>6 DEF RunTask
    <3>2. CASE Head(queue).op = "add"
      BY <1>6, <3>1, <3>2 DEF RunTask
    <3>3. CASE Head(queue).op = "remove"
      BY <1>6, <3>1, <3>3 DEF RunTask, RemoveInLoop
    <3>4. CASE Head(queue).op = "cancel"
      <4>1. CancelInLoop(Head(queue).timer, Head(queue).flag)
        BY <1>6, <3>4 DEF RunTask
      <4> QED
        BY <3>1, <4>1 DEF CancelInLoop
    <3>5. Head(queue) \in Tasks
      BY <1>6 DEF RunTask, Walk, QueueOK
    <3> QED
      BY <3>2, <3>3, <3>4, <3>5 DEF Tasks
  <2> QED
    BY <1>6, <2>1 DEF RunTask, Before
<1>7. ASSUME NEW t \in Timers, Request(t), UNCHANGED <<passVars, due>>
      PROVE  Ahead'
  <2>1. /\ kind[t] = "none" /\ expiration'[t] = when'[t]
        /\ \A u \in Timers \ {t} :
              /\ when'[u] = when[u]
              /\ interval'[u] = interval[u]
              /\ expiration'[u] = expiration[u]
    BY <1>7, RequestTypes DEF Walk
  <2>2. interval'[t] = 0
    <3>1. PICK r \in {ByReference, FALSE} :
            \/ \E at \in 0 .. MaxTime : Create(t, "once", at, 0, r)
            \/ \E i \in Intervals : Create(t, "every", now + i, i, r)
      BY <1>7 DEF Request
    <3>2. kind'[t] # "every"
      BY DEF OneShots
    <3> QED
      BY <3>1, <3>2 DEF Create, Walk, TypeOK
  <2>3. t \notin inSet
    BY <1>0, <2>1
  <2>4. \A u \in due : u \in Timers \ {t}
    BY <1>0, <2>3
  <2>5. \A u \in due : current # End => (Before(current, u) => Before(current, u)')
    <3>1. current # End => current \in Timers \ {t}
      BY <1>0, <2>3
    <3> QED
      BY <1>7, <2>1, <2>4, <3>1 DEF Before
  <2> QED
    BY <1>7, <2>1, <2>2, <2>4, <2>5
<1>8. CASE UNCHANGED <<timerVars, expiration, passVars>> /\ due' \subseteq due
  BY <1>8 DEF Before
<1> QED
  BY <1>1, <1>2, <1>3, <1>4, <1>5, <1>6, <1>7, <1>8
  DEF Next, LoopStep, vars, Tick, AddHere, RemoveHere, RemoveInLoop, CancelHere,
      CancelInLoop, AddElsewhere, RemoveElsewhere, CancelElsewhere

\* As long as no repeating timer was created, a pass of doTimer runs every timer
\* that had expired as it started and that no callback canceled or removed:
\* breaking at the first that has not expired (TimerQueue.cpp:148) is sound.
THEOREM OneShotPassLeavesNone == SafetySpec => []OneShotsDueRun
<1>1. Init => (OneShots => Ahead)
  BY DEF Init, Ahead, DueRuns
<1>2. Walk /\ (OneShots => Ahead) /\ [Next]_vars => (OneShots => Ahead)'
  BY OneShotsBefore, AheadStep
<1>3. (OneShots => Ahead) => OneShotsDueRun
  BY DEF Ahead, OneShotsDueRun
<1> QED
  BY <1>1, <1>2, <1>3, WalkInvariant, PTL DEF SafetySpec

=============================================================================
