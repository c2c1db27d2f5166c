------------------------------ MODULE EventLoop ------------------------------
(***************************************************************************)
(* net/EventLoop.cpp together with the thread that owns it,                *)
(* net/EventLoopThread.cpp: one loop thread, the owner that starts and     *)
(* stops it, and other threads that queue work on it.                      *)
(*                                                                         *)
(* The loop thread's program counter pc walks through threadFunc and       *)
(* loop(); ctl walks the owner through startLoop and stopLoop.  A          *)
(* queueInLoop call is two steps, because the code releases mutex_ between *)
(* the push and the write of the wakeup descriptor.                        *)
(***************************************************************************)
EXTENDS Naturals, Sequences, Functions

CONSTANTS
  Owner,          \* the thread that calls startLoop, stopLoop and queueInLoop
  Others,         \* further threads that only call queueInLoop
  Functors        \* the callables that can be queued, each at most once

ASSUME OwnerAssumption == Owner \notin Others

Threads == Others \cup {Owner}

VARIABLES
  pc,             \* where the loop thread is
  ctl,            \* where the owner is in startLoop / stopLoop
  loopPtr,        \* EventLoopThread::loop_ is not NULL
  quit,           \* EventLoop::quit_
  pending,        \* pendingFunctors_, guarded by mutex_
  running,        \* the batch doPendingFunctors has swapped out
  calling,        \* callingPendingFunctors_
  readable,       \* the eventfd counter is not zero
  reported,       \* activeChannels_ holds the wakeup channel
  pushing,        \* threads between the push and the wakeup of queueInLoop
  posted,         \* history: everything pushed, in order
  ran,            \* history: everything started by doPendingFunctors
  quiet           \* history: pushed by the loop thread with no wakeup, and
                  \* not followed by doPendingFunctors before the next poll

vars == <<pc, ctl, loopPtr, quit, pending, running, calling, readable,
          reported, pushing, posted, ran, quiet>>

queueVars == <<pending, running, calling, posted, ran, quiet>>
wakeVars == <<readable, reported, pushing>>
ownerVars == <<ctl, loopPtr>>

Init ==
  /\ pc = "none"
  /\ ctl = "idle"
  /\ loopPtr = FALSE
  /\ quit = FALSE
  /\ pending = <<>>
  /\ running = <<>>
  /\ calling = FALSE
  /\ readable = FALSE
  /\ reported = FALSE
  /\ pushing = {}
  /\ posted = <<>>
  /\ ran = <<>>
  /\ quiet = {}

-----------------------------------------------------------------------------
(* The loop thread: threadFunc, loop and doPendingFunctors.                *)

\* threadFunc: under mutex_, publish the loop built on this stack and notify.
Publish ==
  /\ pc = "publish"
  /\ pc' = "enter"
  /\ loopPtr' = TRUE
  /\ UNCHANGED <<ctl, quit, queueVars, wakeVars>>

\* The first statements of loop(): whatever quit_ held is overwritten.
EnterLoop ==
  /\ pc = "enter"
  /\ pc' = "test"
  /\ quit' = FALSE
  /\ UNCHANGED <<ownerVars, queueVars, wakeVars>>

\* while (!quit_)
TestQuit ==
  /\ pc = "test"
  /\ pc' = IF quit THEN "leave" ELSE "timers"
  /\ UNCHANGED <<ownerVars, quit, queueVars, wakeVars>>

\* timerQueue_->doTimer() has returned; its callbacks are PostFromLoop steps.
TimersDone ==
  /\ pc = "timers"
  /\ pc' = "poll"
  /\ UNCHANGED <<ownerVars, quit, queueVars, wakeVars>>

\* poll returns: the wakeup descriptor is readable, or a socket is, or
\* kPollTimeMs has passed, so this needs no condition.
PollReturns ==
  /\ pc = "poll"
  /\ pc' = "events"
  /\ reported' = readable
  /\ UNCHANGED <<ownerVars, quit, queueVars, readable, pushing>>

\* handleRead: one read empties the eventfd counter, however many wrote it.
HandleWakeup ==
  /\ pc = "events"
  /\ reported
  /\ readable' = FALSE
  /\ reported' = FALSE
  /\ UNCHANGED <<pc, ownerVars, quit, queueVars, pushing>>

EventsDone ==
  /\ pc = "events"
  /\ ~reported
  /\ pc' = "swap"
  /\ UNCHANGED <<ownerVars, quit, queueVars, wakeVars>>

\* Mutant: the batch is copied where the code swaps it.
SwapPendingCopies ==
  /\ pc = "swap"
  /\ pc' = "functors"
  /\ calling' = TRUE
  /\ running' = pending
  /\ quiet' = {}
  /\ UNCHANGED <<ownerVars, quit, wakeVars, pending, posted, ran>>

\* doPendingFunctors: take the whole batch under mutex_.
SwapPending ==
  /\ pc = "swap"
  /\ pc' = "functors"
  /\ calling' = TRUE
  /\ running' = pending
  /\ pending' = <<>>
  /\ quiet' = {}
  /\ UNCHANGED <<ownerVars, quit, wakeVars, posted, ran>>

\* Mutant: the batch is run from its back.
StartFunctorLifo ==
  /\ pc = "functors"
  /\ running # <<>>
  /\ pc' = "inFunctor"
  /\ ran' = Append(ran, running[Len(running)])
  /\ running' = SubSeq(running, 1, Len(running) - 1)
  /\ UNCHANGED <<ownerVars, quit, wakeVars, pending, calling, posted, quiet>>

StartFunctor ==
  /\ pc = "functors"
  /\ running # <<>>
  /\ pc' = "inFunctor"
  /\ ran' = Append(ran, Head(running))
  /\ running' = Tail(running)
  /\ UNCHANGED <<ownerVars, quit, wakeVars, pending, calling, posted, quiet>>

FunctorReturns ==
  /\ pc = "inFunctor"
  /\ pc' = "functors"
  /\ UNCHANGED <<ownerVars, quit, queueVars, wakeVars>>

\* Mutant: callingPendingFunctors_ is not reset.
BatchDoneKeepsCalling ==
  /\ pc = "functors"
  /\ running = <<>>
  /\ pc' = "frame"
  /\ UNCHANGED <<ownerVars, quit, queueVars, wakeVars>>

BatchDone ==
  /\ pc = "functors"
  /\ running = <<>>
  /\ pc' = "frame"
  /\ calling' = FALSE
  /\ UNCHANGED <<ownerVars, quit, wakeVars, pending, running, posted, ran, quiet>>

\* Mutant: quit_ = false is inside the while loop.
FrameDoneResetsQuit ==
  /\ pc = "frame"
  /\ pc' = "test"
  /\ quit' = FALSE
  /\ UNCHANGED <<ownerVars, queueVars, wakeVars>>

\* frameFunctor_ has returned.
FrameDone ==
  /\ pc = "frame"
  /\ pc' = "test"
  /\ UNCHANGED <<ownerVars, quit, queueVars, wakeVars>>

\* loop() has returned: threadFunc clears loop_ and its EventLoop dies.
LeaveLoop ==
  /\ pc = "leave"
  /\ pc' = "dead"
  /\ loopPtr' = FALSE
  /\ UNCHANGED <<ctl, quit, queueVars, wakeVars>>

LoopStep ==
  \/ Publish
  \/ EnterLoop
  \/ TestQuit
  \/ TimersDone
  \/ PollReturns
  \/ HandleWakeup
  \/ EventsDone
  \/ SwapPending
  \/ StartFunctor
  \/ FunctorReturns
  \/ BatchDone
  \/ FrameDone
  \/ LeaveLoop

-----------------------------------------------------------------------------
(* queueInLoop.                                                            *)

InCallback == pc \in {"timers", "events", "inFunctor", "frame"}

\* Mutant: queueInLoop ignores callingPendingFunctors_.
PostFromLoopSilent(f) ==
  /\ InCallback
  /\ posted # <<>>
  /\ f \notin Range(posted)
  /\ pending' = Append(pending, f)
  /\ posted' = Append(posted, f)
  /\ quiet' = IF pc \in {"timers", "frame"} THEN quiet \cup {f} ELSE quiet
  /\ UNCHANGED <<pc, ownerVars, quit, running, calling, wakeVars, ran>>

\* queueInLoop called by a timer, an event handler, a functor or the frame
\* functor.  Only a functor, under callingPendingFunctors_, wakes the loop up.
\* There are callbacks to call it once somebody has queued a first one:
\* TcpServer::start gives the threads no ThreadInitCallback.
PostFromLoop(f) ==
  /\ InCallback
  /\ posted # <<>>
  /\ f \notin Range(posted)
  /\ pending' = Append(pending, f)
  /\ posted' = Append(posted, f)
  /\ readable' = (readable \/ calling)
  /\ quiet' = IF pc \in {"timers", "frame"} THEN quiet \cup {f} ELSE quiet
  /\ UNCHANGED <<pc, ownerVars, quit, running, calling, reported, pushing, ran>>

\* queueInLoop called by another thread, the part under mutex_.  Thread t has
\* the pointer startLoop returned; calling a destroyed loop is undefined.
Push(t, f) ==
  /\ t \notin pushing
  /\ IF t = Owner THEN ctl = "up" ELSE ctl \notin {"idle", "waiting"}
  /\ pc # "dead"
  /\ f \notin Range(posted)
  /\ pending' = Append(pending, f)
  /\ posted' = Append(posted, f)
  /\ pushing' = pushing \cup {t}
  /\ UNCHANGED <<pc, ownerVars, quit, running, calling, readable, reported, ran, quiet>>

\* ... and the wakeup() that follows it.
Wakeup(t) ==
  /\ t \in pushing
  /\ pushing' = pushing \ {t}
  /\ readable' = TRUE
  /\ UNCHANGED <<pc, ownerVars, quit, queueVars, reported>>

-----------------------------------------------------------------------------
(* quit, startLoop and stopLoop.                                           *)

\* quit() called by a functor: no wakeup, the loop tests quit_ by itself.
QuitFromLoop ==
  /\ pc = "inFunctor"
  /\ quit' = TRUE
  /\ UNCHANGED <<pc, ownerVars, queueVars, wakeVars>>

\* startLoop creates the thread and waits on cond_ ...
StartLoop ==
  /\ ctl = "idle"
  /\ ctl' = "waiting"
  /\ pc' = "publish"
  /\ UNCHANGED <<loopPtr, quit, queueVars, wakeVars>>

\* ... until loop_ is set.
StartReturns ==
  /\ ctl = "waiting"
  /\ loopPtr
  /\ ctl' = "up"
  /\ UNCHANGED <<pc, loopPtr, quit, queueVars, wakeVars>>

\* stopLoop reads loop_; with NULL it goes straight to join.
StopLoop ==
  /\ ctl = "up"
  /\ Owner \notin pushing
  /\ ctl' = IF loopPtr THEN "quitting" ELSE "joining"
  /\ UNCHANGED <<pc, loopPtr, quit, queueVars, wakeVars>>

SetQuit ==
  /\ ctl = "quitting"
  /\ ctl' = "waking"
  /\ quit' = TRUE
  /\ UNCHANGED <<pc, loopPtr, queueVars, wakeVars>>

QuitWakeup ==
  /\ ctl = "waking"
  /\ ctl' = "joining"
  /\ readable' = TRUE
  /\ UNCHANGED <<pc, loopPtr, quit, queueVars, reported, pushing>>

Join ==
  /\ ctl = "joining"
  /\ pc = "dead"
  /\ ctl' = "joined"
  /\ UNCHANGED <<pc, loopPtr, quit, queueVars, wakeVars>>

StopStep == SetQuit \/ QuitWakeup \/ Join

\* The owner has joined the thread and no call is half done.
Stopped ==
  /\ ctl = "joined"
  /\ pushing = {}
  /\ UNCHANGED vars

Next ==
  \/ LoopStep
  \/ \E f \in Functors : PostFromLoop(f)
  \/ \E t \in Threads, f \in Functors : Push(t, f)
  \/ \E t \in Threads : Wakeup(t)
  \/ QuitFromLoop
  \/ StartLoop
  \/ StartReturns
  \/ StopLoop
  \/ StopStep
  \/ Stopped

SafetySpec == Init /\ [][Next]_vars

\* The scheduler runs the loop thread, a thread inside queueInLoop, and the
\* owner inside startLoop or stopLoop.  Nobody has to queue or stop anything.
Fairness ==
  /\ WF_vars(LoopStep)
  /\ \A t \in Threads : WF_vars(Wakeup(t))
  /\ WF_vars(StartReturns)
  /\ WF_vars(StopStep)

Spec == SafetySpec /\ Fairness

-----------------------------------------------------------------------------
(* Properties.                                                             *)

TypeOK ==
  /\ pc \in {"none", "publish", "enter", "test", "timers", "poll", "events",
             "swap", "functors", "inFunctor", "frame", "leave", "dead"}
  /\ ctl \in {"idle", "waiting", "up", "quitting", "waking", "joining", "joined"}
  /\ loopPtr \in BOOLEAN
  /\ quit \in BOOLEAN
  /\ pending \in Seq(Functors)
  /\ running \in Seq(Functors)
  /\ calling \in BOOLEAN
  /\ readable \in BOOLEAN
  /\ reported \in BOOLEAN
  /\ pushing \subseteq Threads
  /\ posted \in Seq(Functors)
  /\ ran \in Seq(Functors)
  /\ quiet \subseteq Functors
  /\ pc = "none" <=> ctl = "idle"
  /\ calling <=> pc \in {"functors", "inFunctor"}
  /\ loopPtr <=> pc \notin {"none", "publish", "dead"}
  /\ running # <<>> => calling

\* No callable is lost, repeated or overtaken between the push under mutex_,
\* the swap in doPendingFunctors and the call: what has run, then the current
\* batch, then the queue, is exactly what was pushed, in that order.
FunctorAccounting == ran \o running \o pending = posted

\* While the loop sleeps in poll with work queued, the wakeup descriptor is
\* readable or some thread is about to make it so (EventLoop.cpp:175): poll's
\* timeout never has to rescue work, but for what a timer callback or the
\* frame functor queued, for which queueInLoop writes no wakeup.
NoSleepOnWork ==
  pc = "poll" => Range(pending) \subseteq quiet \/ readable \/ pushing # {}

\* A quit() that the loop's first statements do not overwrite ends the loop,
\* whatever is queued and wherever the loop is (EventLoop.cpp:106).
QuitStops ==
  quit /\ pc \notin {"none", "publish", "enter"} ~> pc = "dead"

\* What the loop promises (FunctorQueue): batches and wakeups implement one
\* first-in first-out queue.
FQ == INSTANCE FunctorQueue WITH
        queue <- running \o pending,
        open <- pc \notin {"leave", "dead"}

ImplementsFunctorQueue == FQ!Spec

\* stopLoop comes back: EventLoop.h:44 says of quit() that it "Quits loop".
StopReturns == ctl = "quitting" ~> ctl = "joined"

=============================================================================
