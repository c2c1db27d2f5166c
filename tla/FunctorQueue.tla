---------------------------- MODULE FunctorQueue ----------------------------
(***************************************************************************)
(* What net::EventLoop promises to the threads that hand it work, with     *)
(* the polling, the batches and the wakeup descriptor abstracted away:     *)
(* callables are run one at a time, each once, in the order in which they  *)
(* were queued, until the loop closes.  What is still queued when the loop *)
(* closes never runs: EventLoop has no step that drains it.                *)
(***************************************************************************)
EXTENDS Sequences, Functions

CONSTANT Functors       \* the callables, each handed over at most once

VARIABLES
  queue,                \* handed over, not yet started
  ran,                  \* started, oldest first
  open                  \* FALSE once the loop has seen quit_

vars == <<queue, ran, open>>

-----------------------------------------------------------------------------

Init ==
  /\ queue = <<>>
  /\ ran = <<>>
  /\ open = TRUE

\* queueInLoop, or runInLoop from another thread.
Post(f) ==
  /\ f \notin Range(queue) \cup Range(ran)
  /\ queue' = Append(queue, f)
  /\ UNCHANGED <<ran, open>>

\* The loop thread starts the oldest callable.
Run ==
  /\ open
  /\ queue # <<>>
  /\ ran' = Append(ran, Head(queue))
  /\ queue' = Tail(queue)
  /\ UNCHANGED open

\* The loop thread leaves its while loop.
Close ==
  /\ open
  /\ open' = FALSE
  /\ UNCHANGED <<queue, ran>>

Next == Run \/ Close \/ \E f \in Functors : Post(f)

SafetySpec == Init /\ [][Next]_vars

\* An open loop does not leave work lying: it runs it or it closes.
Spec == SafetySpec /\ WF_vars(Run)

=============================================================================
