------------------------------ MODULE JobQueue ------------------------------
(***************************************************************************)
(* What the asynchronous file system promises those who give it jobs: each *)
(* job is executed once, one at a time, in the order they were given; none *)
(* begins while the system is paused, and none waits for ever otherwise.   *)
(***************************************************************************)
EXTENDS Naturals, Sequences

CONSTANT Jobs

VARIABLES
  queue,     \* jobs that have not begun
  running,   \* the job being executed, as a sequence of at most one
  done,      \* jobs that were executed, in that order
  paused

vars == <<queue, running, done, paused>>

Init ==
  /\ queue = <<>>
  /\ running = <<>>
  /\ done = <<>>
  /\ paused = FALSE

Give ==
  /\ \E j \in Jobs : queue' = Append(queue, j)
  /\ UNCHANGED <<running, done, paused>>

Begin ==
  /\ ~paused
  /\ running = <<>>
  /\ queue # <<>>
  /\ running' = <<Head(queue)>>
  /\ queue' = Tail(queue)
  /\ UNCHANGED <<done, paused>>

\* Executed, successfully or not.
Finish ==
  /\ running # <<>>
  /\ done' = done \o running
  /\ running' = <<>>
  /\ UNCHANGED <<queue, paused>>

PauseOrResume ==
  /\ paused' \in BOOLEAN
  /\ UNCHANGED <<queue, running, done>>

Next == Give \/ Begin \/ Finish \/ PauseOrResume

Spec == Init /\ [][Next]_vars

FairSpec == Spec /\ WF_vars(Begin) /\ WF_vars(Finish)
=============================================================================
