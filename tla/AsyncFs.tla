------------------------------- MODULE AsyncFs -------------------------------
(***************************************************************************)
(* m::async_fs (src/src/mlib/async_fs.cpp): file operations are queued by  *)
(* any thread and executed one by one on a thread that lives as long as    *)
(* there are tasks and the system is not paused.                           *)
(*                                                                         *)
(* What is done under Async_fs::mutex is one action.  Signals are written  *)
(* to a Glib::Dispatcher's pipe, which is taken to have room.              *)
(***************************************************************************)
EXTENDS Naturals, Sequences, FiniteSets

CONSTANTS
  Clients,      \* threads that call the functions of async_fs.hpp
  Workers,      \* identities for the threads that start() creates
  Groups,       \* groups of tasks
  GlibSignals,  \* MLIB_ASYNC_FS_GLIB_SIGNALS is defined
  MaxTasks      \* bound: number of tasks

ASSUME AsyncFsConstants == /\ GlibSignals \in BOOLEAN
                           /\ MaxTasks \in Nat

VARIABLES
  started,         \* a thread runs, or is about to be started
  paused,
  tasks,           \* tasks in the queue, the one being executed included
  last_task_id,
  finished_tasks,  \* tasks whose end was not signalled yet
  waiting,         \* the destructor's semaphore is in waitings
  posted,          \* ... and was posted
  cpc,             \* where each client is: "idle", or "start" before start()
  wpc,             \* where each worker is in operator()
  task,            \* operator()'s local of that name
  notified,        \* task_finished notifications that were not dispatched
  dpc,             \* where the destructor is
  signalled,       \* paused_signal was emitted since the last resume()
  quiet,           \* groups a pause since the last resume() answered false for
  ran,             \* history: the tasks executed
  delivered        \* history: the tasks task_finished_signal was emitted for

queueVars == <<started, paused, tasks, last_task_id>>
glibVars == <<finished_tasks, notified, delivered>>
endVars == <<waiting, posted, dpc>>
history == <<signalled, quiet, ran>>
vars == <<queueVars, glibVars, endVars, history, cpc, wpc, task>>

Task == [id : 1..MaxTasks, group : Groups]
NoTask == [id |-> 0, group |-> "none"]

Init ==
  /\ started = FALSE
  /\ paused = FALSE
  /\ tasks = <<>>
  /\ last_task_id = 0
  /\ finished_tasks = <<>>
  /\ waiting = FALSE
  /\ posted = FALSE
  /\ cpc = [c \in Clients |-> "idle"]
  /\ wpc = [w \in Workers |-> "none"]
  /\ task = [w \in Workers |-> NoTask]
  /\ notified = 0
  /\ dpc = "open"
  /\ signalled = FALSE
  /\ quiet = {}
  /\ ran = <<>>
  /\ delivered = <<>>

-----------------------------------------------------------------------------
(* The functions of async_fs.hpp.                                          *)

CanCall(c) == cpc[c] = "idle" /\ dpc = "open"

\* Who finds the thread not started, and may start it, calls start() once it
\* has left the mutex.
ClaimStart(c, claim) ==
  /\ started' = (started \/ claim)
  /\ cpc' = IF claim THEN [cpc EXCEPT ![c] = "start"] ELSE cpc

\* Fault in add_task: the thread is claimed and not marked as started.
add_task_unclaimed(c, g) ==
  /\ CanCall(c)
  /\ last_task_id < MaxTasks
  /\ last_task_id' = last_task_id + 1
  /\ tasks' = Append(tasks, [id |-> last_task_id', group |-> g])
  /\ cpc' = IF ~started /\ ~paused THEN [cpc EXCEPT ![c] = "start"] ELSE cpc
  /\ UNCHANGED <<started, paused, glibVars, endVars, history, wpc, task>>

add_task(c, g) ==
  /\ CanCall(c)
  /\ last_task_id < MaxTasks
  /\ last_task_id' = last_task_id + 1
  /\ tasks' = Append(tasks, [id |-> last_task_id', group |-> g])
  /\ ClaimStart(c, ~started /\ ~paused)
  /\ UNCHANGED <<paused, glibVars, endVars, history, wpc, task>>

start(c) ==
  /\ cpc[c] = "start"
  /\ cpc' = [cpc EXCEPT ![c] = "idle"]
  /\ \E w \in Workers :
       /\ wpc[w] = "none"
       /\ wpc' = [wpc EXCEPT ![w] = "check"]
  /\ UNCHANGED <<queueVars, glibVars, endVars, history, task>>

\* Fault in pause_and_get_group_status: the newest task is asked for its group.
pause_looks_at_newest(c, g) ==
  /\ CanCall(c)
  /\ paused' = TRUE
  /\ quiet' = IF started /\ tasks # <<>> /\ tasks[Len(tasks)].group = g
                THEN quiet ELSE quiet \cup {g}
  /\ UNCHANGED <<started, tasks, last_task_id, glibVars, endVars, signalled, ran,
                 cpc, wpc, task>>

\* True is answered when the front task is of group g.
pause_and_get_group_status(c, g) ==
  /\ CanCall(c)
  /\ paused' = TRUE
  /\ quiet' = IF started /\ tasks # <<>> /\ Head(tasks).group = g
                THEN quiet ELSE quiet \cup {g}
  /\ UNCHANGED <<started, tasks, last_task_id, glibVars, endVars, signalled, ran,
                 cpc, wpc, task>>

\* Fault in resume: the thread is taken to be running.
resume_unstarted(c) ==
  /\ CanCall(c)
  /\ paused
  /\ paused' = FALSE
  /\ signalled' = FALSE
  /\ quiet' = {}
  /\ UNCHANGED <<started, tasks, last_task_id, glibVars, endVars, ran, cpc, wpc, task>>

resume(c) ==
  /\ CanCall(c)
  /\ paused
  /\ paused' = FALSE
  /\ ClaimStart(c, ~started /\ tasks # <<>>)
  /\ signalled' = FALSE
  /\ quiet' = {}
  /\ UNCHANGED <<tasks, last_task_id, glibVars, endVars, ran, wpc, task>>

-----------------------------------------------------------------------------
(* Async_fs::operator(), on the thread.                                     *)

\* Fault in Leave: paused_signal is emitted only when no task is left.
LeaveUnsignalled(w) ==
  /\ wpc[w] = "check"
  /\ tasks = <<>> \/ paused
  /\ wpc' = [wpc EXCEPT ![w] = "none"]
  /\ started' = FALSE
  /\ signalled' = (signalled \/ (paused /\ tasks = <<>>))
  /\ posted' = (posted \/ waiting)
  /\ waiting' = FALSE
  /\ UNCHANGED <<paused, tasks, last_task_id, glibVars, dpc, quiet, ran, cpc, task>>

\* Fault in Leave: the waiting destructor is not woken when there are tasks left.
LeaveUnposted(w) ==
  /\ wpc[w] = "check"
  /\ tasks = <<>> \/ paused
  /\ wpc' = [wpc EXCEPT ![w] = "none"]
  /\ started' = FALSE
  /\ signalled' = (signalled \/ paused)
  /\ posted' = (posted \/ (waiting /\ tasks = <<>>))
  /\ UNCHANGED <<paused, tasks, last_task_id, glibVars, waiting, dpc, quiet, ran,
                 cpc, task>>

\* The thread ends, and says so to those who wait for the end or a pause.
Leave(w) ==
  /\ wpc[w] = "check"
  /\ tasks = <<>> \/ paused
  /\ wpc' = [wpc EXCEPT ![w] = "none"]
  /\ started' = FALSE
  /\ signalled' = (signalled \/ paused)
  /\ posted' = (posted \/ waiting)
  /\ waiting' = FALSE
  /\ UNCHANGED <<paused, tasks, last_task_id, glibVars, dpc, quiet, ran, cpc, task>>

\* Fault in Take: the newest task is taken first.
TakeNewest(w) ==
  /\ wpc[w] = "check"
  /\ tasks # <<>> /\ ~paused
  /\ task' = [task EXCEPT ![w] = tasks[Len(tasks)]]
  /\ wpc' = [wpc EXCEPT ![w] = "run"]
  /\ UNCHANGED <<queueVars, glibVars, endVars, history, cpc>>

Take(w) ==
  /\ wpc[w] = "check"
  /\ tasks # <<>> /\ ~paused
  /\ task' = [task EXCEPT ![w] = Head(tasks)]
  /\ wpc' = [wpc EXCEPT ![w] = "run"]
  /\ UNCHANGED <<queueVars, glibVars, endVars, history, cpc>>

\* The file operation; an m::Exception is reported and the thread goes on.
Run(w) ==
  /\ wpc[w] = "run"
  /\ ran' = Append(ran, task[w])
  /\ wpc' = [wpc EXCEPT ![w] = IF GlibSignals THEN "finish" ELSE "pop"]
  /\ UNCHANGED <<queueVars, glibVars, endVars, signalled, quiet, cpc, task>>

\* finish_task(): the task's id under the mutex, ...
PushFinished(w) ==
  /\ wpc[w] = "finish"
  /\ finished_tasks' = Append(finished_tasks, task[w].id)
  /\ wpc' = [wpc EXCEPT ![w] = "notify"]
  /\ UNCHANGED <<queueVars, notified, delivered, endVars, history, cpc, task>>

\* ... and the notification outside of it.
NotifyFinished(w) ==
  /\ wpc[w] = "notify"
  /\ notified' = notified + 1
  /\ wpc' = [wpc EXCEPT ![w] = "pop"]
  /\ UNCHANGED <<queueVars, finished_tasks, delivered, endVars, history, cpc, task>>

\* Fault in PopTask: the thread ends with its task and leaves started set.
PopTaskEnds(w) ==
  /\ wpc[w] = "pop"
  /\ tasks' = Tail(tasks)
  /\ wpc' = [wpc EXCEPT ![w] = "none"]
  /\ UNCHANGED <<started, paused, last_task_id, glibVars, endVars, history, cpc, task>>

PopTask(w) ==
  /\ wpc[w] = "pop"
  /\ tasks' = Tail(tasks)
  /\ wpc' = [wpc EXCEPT ![w] = "check"]
  /\ UNCHANGED <<started, paused, last_task_id, glibVars, endVars, history, cpc, task>>

-----------------------------------------------------------------------------
(* The GTK main loop, and the end of the program.                          *)

on_task_finished_callback ==
  /\ dpc = "open"
  /\ notified > 0
  /\ notified' = notified - 1
  /\ delivered' = Append(delivered, Head(finished_tasks))
  /\ finished_tasks' = Tail(finished_tasks)
  /\ UNCHANGED <<queueVars, endVars, history, cpc, wpc, task>>

\* ~Async_fs(), when nobody uses the object any more: wait() returns at once
\* if the thread is not started.
wait ==
  /\ dpc = "open"
  /\ \A c \in Clients : cpc[c] = "idle"
  /\ dpc' = IF started THEN "wait" ELSE "closed"
  /\ waiting' = started
  /\ UNCHANGED <<queueVars, glibVars, posted, history, cpc, wpc, task>>

\* wait_semaphore.wait() returns.
Woken ==
  /\ dpc = "wait"
  /\ posted
  /\ dpc' = "closed"
  /\ UNCHANGED <<queueVars, glibVars, waiting, posted, history, cpc, wpc, task>>

Closed == dpc = "closed" /\ UNCHANGED vars

Worker(w) ==
  \/ Leave(w) \/ Take(w) \/ Run(w)
  \/ PushFinished(w) \/ NotifyFinished(w) \/ PopTask(w)

Client(c) ==
  \/ start(c) \/ resume(c)
  \/ \E g \in Groups : add_task(c, g) \/ pause_and_get_group_status(c, g)

Next ==
  \/ \E c \in Clients : Client(c)
  \/ \E w \in Workers : Worker(w)
  \/ on_task_finished_callback
  \/ wait \/ Woken \/ Closed

\* Threads are scheduled.  Nobody has to call a function or end the program.
Fairness ==
  /\ \A c \in Clients : WF_vars(start(c))
  /\ \A w \in Workers : WF_vars(Worker(w))
  /\ WF_vars(Woken)

Spec == Init /\ [][Next]_vars
FairSpec == Spec /\ Fairness

-----------------------------------------------------------------------------
(* Safety.                                                                 *)

\* Types.
TypeOK ==
  /\ started \in BOOLEAN
  /\ paused \in BOOLEAN
  /\ tasks \in Seq(Task)
  /\ last_task_id \in 0..MaxTasks
  /\ finished_tasks \in Seq(1..MaxTasks)
  /\ waiting \in BOOLEAN
  /\ posted \in BOOLEAN
  /\ cpc \in [Clients -> {"idle", "start"}]
  /\ wpc \in [Workers -> {"none", "check", "run", "finish", "notify", "pop"}]
  /\ task \in [Workers -> Task \cup {NoTask}]
  /\ notified \in Nat
  /\ dpc \in {"open", "wait", "closed"}
  /\ signalled \in BOOLEAN
  /\ quiet \in SUBSET Groups
  /\ ran \in Seq(Task)
  /\ delivered \in Seq(1..MaxTasks)

Starters == {c \in Clients : cpc[c] = "start"}
Running == {w \in Workers : wpc[w] # "none"}

\* However calls from several threads interleave with a thread that ends,
\* started says exactly whether there is a thread or somebody about to start
\* it, and there are never two.
OneExecutor ==
  /\ started <=> Starters \cup Running # {}
  /\ \A c, d \in Starters : c = d
  /\ \A v, w \in Running : v = w
  /\ Starters = {} \/ Running = {}

\* A task that waits while the system is not paused has a thread to execute it:
\* none is stranded by a thread that ended just before it was added, or by a
\* pause that was taken back before the thread noticed.
NoTaskStranded == tasks # <<>> /\ ~paused => started

\* A pause that answered false is a promise: no task of that group is being
\* executed or begins before somebody calls resume().
QuietGroup == \A w \in Workers : wpc[w] = "run" => task[w].group \notin quiet

\* task_finished_signal is emitted for the tasks that were executed, in that
\* order, and the callback never takes from an empty finished_tasks.
FinishedInOrder ==
  /\ notified <= Len(finished_tasks)
  /\ delivered \o finished_tasks =
       [i \in 1..(Len(delivered) + Len(finished_tasks)) |-> ran[i].id]

\* When ~Async_fs() returns, no thread uses the object.
ClosedIsQuiet == dpc = "closed" => Running = {} /\ (tasks = <<>> \/ paused)

-----------------------------------------------------------------------------
(* The abstract queue: a task that is executed stays at the front of tasks *)
(* until it is popped.                                                     *)

InHand == \E w \in Workers : wpc[w] \in {"run", "finish", "notify", "pop"}
Executing == \E w \in Workers : wpc[w] = "run"

J == INSTANCE JobQueue WITH
       Jobs <- Task,
       queue <- IF InHand THEN Tail(tasks) ELSE tasks,
       running <- IF Executing THEN <<Head(tasks)>> ELSE <<>>,
       done <- ran

\* The threads, flags and signals implement the queue.
ImplementsJobQueue == J!Spec

\* ... and execute every task, unless the system is paused for ever.
JobsProgress == J!FairSpec

\* A pause that finds a thread is signalled once it has stopped, unless
\* somebody resumes first.
BusyPauseIsSignalled == paused /\ started ~> signalled \/ ~paused

\* The program that ends is not held up for ever by a paused system.
DestructorReturns == dpc = "wait" ~> dpc = "closed"

\* What async_fs.hpp:65-66 promises: a signal as soon as the system is paused.
\* Not so for a pause that finds no thread.
PauseIsSignalled == paused ~> signalled \/ ~paused
=============================================================================
