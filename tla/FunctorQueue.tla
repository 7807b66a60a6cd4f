---------------------------- MODULE FunctorQueue ----------------------------
(***************************************************************************)
(* What EventLoop::queueInLoop() promises: the callbacks handed over by    *)
(* any thread wait in one queue, and the loop's thread runs them one at a  *)
(* time, each exactly once, in the order in which they were queued.        *)
(* Abstract: no mutex, no eventfd, no batches.                             *)
(***************************************************************************)
EXTENDS Sequences, Naturals

CONSTANTS Functors, NoFunctor

VARIABLES queue,     \* callbacks not yet started
          running    \* the callback being run, or NoFunctor

vars == <<queue, running>>

Init == queue = <<>> /\ running = NoFunctor

Submit(f) == queue' = Append(queue, f) /\ UNCHANGED running

Start ==
  /\ running = NoFunctor
  /\ queue # <<>>
  /\ running' = Head(queue)
  /\ queue' = Tail(queue)

Finish ==
  /\ running # NoFunctor
  /\ running' = NoFunctor
  /\ UNCHANGED queue

Next == (\E f \in Functors : Submit(f)) \/ Start \/ Finish

Spec == Init /\ [][Next]_vars
=============================================================================
