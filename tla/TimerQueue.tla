----------------------------- MODULE TimerQueue -----------------------------
(***************************************************************************)
(* net/TimerQueue.cpp and net/Timer.h: the timers of one event loop.       *)
(*                                                                         *)
(* doTimer runs at the top of every iteration of the loop, tasks queued by *)
(* other threads at its bottom (FunctorQueue).  timers_ is a std::set of   *)
(* pairs (expiration at insertion, address of the Timer).  A timer is its  *)
(* address, a natural number, so that the numbers break ties.              *)
(***************************************************************************)
EXTENDS Naturals, Sequences, Functions

CONSTANTS
  Timers,         \* the timers that can be created
  Intervals,      \* intervals runEvery is called with
  MaxTime,        \* bound: the clock stops there
  MaxQueued,      \* bound: tasks other threads have queued at one time
  Kinds,          \* what is asked for: "once" (runAt) or "every" (runEvery)
  ByReference,    \* callbacks are passed as const& too, not only as &&
  HandOver        \* callbacks may hold a TimerId whose addTimer is still queued

ASSUME TimerAssumption ==
  /\ Timers \subseteq Nat \ {0}
  /\ Intervals \subseteq Nat \ {0}
  /\ MaxTime \in Nat
  /\ MaxQueued \in Nat
  /\ Kinds \subseteq {"once", "every"}
  /\ ByReference \in BOOLEAN
  /\ HandOver \in BOOLEAN

VARIABLES
  now,            \* the clock
  kind,           \* what was asked for, or "none"
  when,           \* the time that was asked for
  interval,       \* interval_
  repeat,         \* repeatCount_ = 1; FALSE stands for -1, for ever
  expiration,     \* expiration_
  canceled,       \* canceled_
  inSet,          \* timers in timers_
  queue,          \* tasks of other threads the loop has not run
  pc,             \* "pass" in doTimer, "callback" in a timer's callback,
                  \* "end" behind doTimer, "tasks" in doPendingFunctors
  passTime,       \* doTimer's now
  current,        \* the timer iter points to; End behind the last
  runs,           \* history: calls of the timer's callback
  due,            \* history: timers this pass found expired and has not run
  off             \* history: timers whose last cancel() was served with true

End == 0            \* end()

timerVars == <<kind, when, interval>>
runVars == <<repeat, expiration, runs>>
setVars == <<canceled, inSet, off>>
passVars == <<pc, passTime, current>>
vars == <<now, timerVars, runVars, setVars, queue, passVars, due>>

Init ==
  /\ now = 0
  /\ kind = [t \in Timers |-> "none"]
  /\ when = [t \in Timers |-> 0]
  /\ interval = [t \in Timers |-> 0]
  /\ repeat = [t \in Timers |-> FALSE]
  /\ expiration = [t \in Timers |-> 0]
  /\ canceled = [t \in Timers |-> FALSE]
  /\ inSet = {}
  /\ queue = <<>>
  /\ pc = "tasks"
  /\ passTime = 0
  /\ current = End
  /\ runs = [t \in Timers |-> 0]
  /\ due = {}
  /\ off = {}

-----------------------------------------------------------------------------
(* The set.  Its keys are the times asked for: no step changes a key.      *)

Before(s, t) == when[s] < when[t] \/ (when[s] = when[t] /\ s < t)

\* begin() of a set S of timers, end() if there is none.
First(S) ==
  IF S = {} THEN End ELSE CHOOSE t \in S : \A s \in S \ {t} : Before(t, s)

\* ++iter, in a set that is now S.
After(t, S) == First({s \in S : Before(t, s)})

\* Mutant: the count is lost in every overload.
CreateForEver(t, k, at, i, byReference) ==
  /\ kind[t] = "none"
  /\ kind' = [kind EXCEPT ![t] = k]
  /\ when' = [when EXCEPT ![t] = at]
  /\ interval' = [interval EXCEPT ![t] = i]
  /\ repeat' = [repeat EXCEPT ![t] = FALSE]
  /\ expiration' = [expiration EXCEPT ![t] = at]

\* The Timer object: addTimer(const TimerCallback&) leaves its repeatCount out.
Create(t, k, at, i, byReference) ==
  /\ kind[t] = "none"
  /\ kind' = [kind EXCEPT ![t] = k]
  /\ when' = [when EXCEPT ![t] = at]
  /\ interval' = [interval EXCEPT ![t] = i]
  /\ repeat' = [repeat EXCEPT ![t] = k = "once" /\ ~byReference]
  /\ expiration' = [expiration EXCEPT ![t] = at]

\* runAt (and runAfter, which is runAt) or runEvery.
Request(t) ==
  \E byReference \in {ByReference, FALSE} :
    \/ /\ "once" \in Kinds
       /\ \E at \in 0 .. MaxTime : Create(t, "once", at, 0, byReference)
    \/ /\ "every" \in Kinds
       /\ \E i \in Intervals : Create(t, "every", now + i, i, byReference)

\* removeTimerInLoop; the Timer itself is never deleted.
RemoveInLoop(t) ==
  /\ inSet' = inSet \ {t}
  /\ due' = due \ {t}
  /\ UNCHANGED <<canceled, off>>

\* Mutant: canceled_ is set whatever off is.
CancelInLoopForGood(t, flag) ==
  /\ canceled' = IF t \in inSet THEN [canceled EXCEPT ![t] = TRUE] ELSE canceled
  /\ off' = IF flag THEN off \cup {t} ELSE off \ {t}
  /\ due' = due \ {t}
  /\ UNCHANGED inSet

\* cancelTimerInLoop: a timer that is not in the set is left alone.
CancelInLoop(t, flag) ==
  /\ canceled' = IF t \in inSet THEN [canceled EXCEPT ![t] = flag] ELSE canceled
  /\ off' = IF flag THEN off \cup {t} ELSE off \ {t}
  /\ due' = due \ {t}
  /\ UNCHANGED inSet

-----------------------------------------------------------------------------
(* doTimer.                                                                *)

StartPass ==
  /\ pc = "tasks"
  /\ pc' = "pass"
  /\ passTime' = now
  /\ current' = First(inSet)
  /\ due' = {t \in inSet : expiration[t] <= now /\ ~canceled[t]}
  /\ UNCHANGED <<now, timerVars, runVars, setVars, queue>>

\* Mutant: canceled_ is not tested.
RunTimerCanceled ==
  /\ pc = "pass"
  /\ current # End
  /\ expiration[current] <= passTime
  /\ pc' = "callback"
  /\ runs' = [runs EXCEPT ![current] = @ + 1]
  /\ due' = due \ {current}
  /\ UNCHANGED <<now, timerVars, repeat, expiration, setVars, queue, passTime, current>>

\* Timer::run calls callback_ ...
RunTimer ==
  /\ pc = "pass"
  /\ current # End
  /\ expiration[current] <= passTime
  /\ ~canceled[current]
  /\ pc' = "callback"
  /\ runs' = [runs EXCEPT ![current] = @ + 1]
  /\ due' = due \ {current}
  /\ UNCHANGED <<now, timerVars, repeat, expiration, setVars, queue, passTime, current>>

\* Mutant: iter is not set to what erase returns.
CallbackReturnsKeepsIter ==
  /\ pc = "callback"
  /\ pc' = "pass"
  /\ IF repeat[current]
       THEN /\ inSet' = inSet \ {current}
            /\ UNCHANGED <<expiration, current>>
       ELSE /\ expiration' = [expiration EXCEPT ![current] = @ + interval[current]]
            /\ current' = After(current, inSet)
            /\ UNCHANGED inSet
  /\ UNCHANGED <<now, timerVars, repeat, runs, canceled, off, queue, passTime, due>>

\* Mutant: iter moves on behind an erased timer too, past the next one.
CallbackReturnsSkips ==
  /\ pc = "callback"
  /\ pc' = "pass"
  /\ LET next == After(current, inSet)
     IN  IF repeat[current]
           THEN /\ inSet' = inSet \ {current}
                /\ current' = IF next = End THEN End ELSE After(next, inSet)
                /\ UNCHANGED expiration
           ELSE /\ expiration' = [expiration EXCEPT ![current] = @ + interval[current]]
                /\ current' = next
                /\ UNCHANGED inSet
  /\ UNCHANGED <<now, timerVars, repeat, runs, canceled, off, queue, passTime, due>>

\* Mutant: expiration_ is not moved on.
CallbackReturnsKeepsTime ==
  /\ pc = "callback"
  /\ pc' = "pass"
  /\ current' = After(current, inSet)
  /\ inSet' = IF repeat[current] THEN inSet \ {current} ELSE inSet
  /\ UNCHANGED <<now, timerVars, runVars, canceled, off, queue, passTime, due>>

\* ... and when it returns counts down or moves expiration_ on, and doTimer
\* erases a timer whose count is down.  repeatCount_ is 1 or -1.
CallbackReturns ==
  /\ pc = "callback"
  /\ pc' = "pass"
  /\ current' = After(current, inSet)
  /\ IF repeat[current]
       THEN /\ inSet' = inSet \ {current}
            /\ UNCHANGED expiration
       ELSE /\ expiration' = [expiration EXCEPT ![current] = @ + interval[current]]
            /\ UNCHANGED inSet
  /\ UNCHANGED <<now, timerVars, repeat, runs, canceled, off, queue, passTime, due>>

\* Timer::run of a canceled timer does nothing, and iter moves on.
SkipTimer ==
  /\ pc = "pass"
  /\ current # End
  /\ expiration[current] <= passTime
  /\ canceled[current]
  /\ current' = After(current, inSet)
  /\ UNCHANGED <<now, timerVars, runVars, setVars, queue, pc, passTime, due>>

\* doTimer breaks at the first timer that has not expired.
EndPass ==
  /\ pc = "pass"
  /\ current # End => expiration[current] > passTime
  /\ pc' = "end"
  /\ current' = End
  /\ UNCHANGED <<now, timerVars, runVars, setVars, queue, passTime, due>>

\* poll and the events; then doPendingFunctors.
ReachTasks ==
  /\ pc = "end"
  /\ pc' = "tasks"
  /\ due' = {}
  /\ UNCHANGED <<now, timerVars, runVars, setVars, queue, passTime, current>>

RunTask ==
  /\ pc = "tasks"
  /\ queue # <<>>
  /\ queue' = Tail(queue)
  /\ LET task == Head(queue)
     IN  CASE task.op = "add" ->
                /\ inSet' = inSet \cup {task.timer}
                /\ UNCHANGED <<canceled, off, due>>
           [] task.op = "remove" -> RemoveInLoop(task.timer)
           [] task.op = "cancel" -> CancelInLoop(task.timer, task.flag)
  /\ UNCHANGED <<now, timerVars, runVars, passVars>>

LoopStep ==
  \/ StartPass
  \/ RunTimer
  \/ CallbackReturns
  \/ SkipTimer
  \/ EndPass
  \/ ReachTasks
  \/ RunTask

-----------------------------------------------------------------------------
(* The same operations called by timer callbacks, where runInLoop runs     *)
(* them at once.  A callback that removes its own timer erases what iter   *)
(* points to, which is undefined: none does.                               *)

Known(t) == kind[t] # "none" /\ (HandOver \/ \A i \in DOMAIN queue : queue[i].timer # t)

AddHere(t) ==
  /\ pc = "callback"
  /\ Request(t)
  /\ inSet' = inSet \cup {t}
  /\ UNCHANGED <<now, runs, canceled, off, queue, passVars, due>>

RemoveHere(t) ==
  /\ pc = "callback"
  /\ t # current
  /\ Known(t)
  /\ RemoveInLoop(t)
  /\ UNCHANGED <<now, timerVars, runVars, queue, passVars>>

CancelHere(t, flag) ==
  /\ pc = "callback"
  /\ Known(t)
  /\ CancelInLoop(t, flag)
  /\ UNCHANGED <<now, timerVars, runVars, queue, passVars>>

-----------------------------------------------------------------------------
(* ... and by other threads, which queue a task.                           *)

QueueTask(task) ==
  /\ Len(queue) < MaxQueued
  /\ queue' = Append(queue, task)

AddElsewhere(t) ==
  /\ Request(t)
  /\ QueueTask([op |-> "add", timer |-> t])
  /\ UNCHANGED <<now, runs, setVars, passVars, due>>

RemoveElsewhere(t) ==
  /\ kind[t] # "none"
  /\ QueueTask([op |-> "remove", timer |-> t])
  /\ UNCHANGED <<now, timerVars, runVars, setVars, passVars, due>>

CancelElsewhere(t, flag) ==
  /\ kind[t] # "none"
  /\ QueueTask([op |-> "cancel", timer |-> t, flag |-> flag])
  /\ UNCHANGED <<now, timerVars, runVars, setVars, passVars, due>>

Tick ==
  /\ now < MaxTime
  /\ now' = now + 1
  /\ UNCHANGED <<timerVars, runVars, setVars, queue, passVars, due>>

Next ==
  \/ LoopStep
  \/ \E t \in Timers :
       \/ AddHere(t)
       \/ RemoveHere(t)
       \/ AddElsewhere(t)
       \/ RemoveElsewhere(t)
       \/ \E flag \in BOOLEAN : CancelHere(t, flag) \/ CancelElsewhere(t, flag)
  \/ Tick

SafetySpec == Init /\ [][Next]_vars

\* The loop runs, callbacks return, and time passes.  Every iteration comes
\* to its tasks and takes all that are queued when it does.
Fairness == WF_vars(LoopStep) /\ SF_vars(RunTask) /\ SF_vars(StartPass) /\ WF_vars(Tick)

Spec == SafetySpec /\ Fairness

-----------------------------------------------------------------------------
(* Properties.                                                             *)

TypeOK ==
  /\ now \in 0 .. MaxTime
  /\ kind \in [Timers -> {"none", "once", "every"}]
  /\ when \in [Timers -> Nat]
  /\ interval \in [Timers -> Nat]
  /\ repeat \in [Timers -> BOOLEAN]
  /\ expiration \in [Timers -> Nat]
  /\ canceled \in [Timers -> BOOLEAN]
  /\ inSet \subseteq {t \in Timers : kind[t] # "none"}
  /\ pc \in {"pass", "callback", "end", "tasks"}
  /\ passTime \in 0 .. now
  /\ current \in inSet \cup {End}
  /\ pc = "callback" => current # End
  /\ pc \in {"end", "tasks"} => current = End
  /\ runs \in [Timers -> Nat]
  /\ due \subseteq inSet
  /\ off \subseteq Timers

\* The n-th run of a timer is never earlier than n - 1 intervals behind the
\* time asked for, whatever was canceled and resumed, added by callbacks or
\* delayed meanwhile: Timer.h:52 moves expiration_ by exact intervals.
NeverEarly ==
  \A t \in Timers : runs[t] > 0 => when[t] + (runs[t] - 1) * interval[t] <= now

\* "Runs callback at 'time'" (EventLoop.h:69): runAt's callback runs once.
OnceRunsOnce == \A t \in Timers : kind[t] = "once" => runs[t] <= 1

\* "Runs callback at 'time'": when doTimer is through, every timer that had
\* expired as it started and was not canceled or removed has been run.
DueRuns == pc = "end" => due = {}

\* What has been asked for so far runs once.
OneShots == \A t \in Timers : kind[t] # "every"

\* As long as no repeating timer was created, every timer that had expired as
\* doTimer started has been run when it is through: breaking at the first timer
\* that has not expired (TimerQueue.cpp:148) misses none.
OneShotsDueRun == OneShots => DueRuns

\* "Cancels the timer" (EventLoop.h:84): between a served cancel(true) and the
\* next cancel(false) the callback is not called.
CanceledIsQuiet ==
  [][\A t \in Timers : runs'[t] # runs[t] => t \notin off]_vars

\* A one-shot timer in the set runs, unless it is canceled or removed or a
\* repeating timer, which doTimer may stop at, was created.
OnceRuns ==
  \A t \in Timers :
    t \in inSet /\ kind[t] = "once"
      ~> runs[t] > 0 \/ t \in off \/ t \notin inSet \/ ~OneShots

=============================================================================
