---------------------------- MODULE AsyncFs_proofs ----------------------------
(***************************************************************************)
(* For every set of clients, threads and groups, any number of tasks, with *)
(* and without the Glib signals: there is never more than one executing    *)
(* thread and never none that is needed, a pause that answered false is    *)
(* kept, and the threads implement JobQueue.                               *)
(***************************************************************************)
EXTENDS AsyncFs, SequenceTheorems, TLAPS

HandPC == {"run", "finish", "notify", "pop"}

(* A thread with a task in hand works on the front of the queue.           *)
FrontInHand ==
  \A w \in Workers : wpc[w] \in HandPC => tasks # <<>> /\ task[w] = Head(tasks)

(* A notification that was sent, or is about to be, has its task.          *)
NotifiedHasTask ==
  /\ notified <= Len(finished_tasks)
  /\ \A w \in Workers : wpc[w] = "notify" => notified < Len(finished_tasks)

(* Types need both, and both need that there is one thread at most.        *)
Inv == TypeOK /\ OneExecutor /\ FrontInHand /\ NotifiedHasTask

LEMMA ExecutorKept ==
  ASSUME TypeOK, OneExecutor, Next
  PROVE  OneExecutor'
<1> USE DEF OneExecutor, Starters, Running, TypeOK
<1>1. ASSUME NEW c \in Clients, NEW g \in Groups, add_task(c, g)
      PROVE  OneExecutor'
  BY <1>1 DEF add_task, ClaimStart, CanCall
<1>2. ASSUME NEW c \in Clients, start(c)
      PROVE  OneExecutor'
  BY <1>2 DEF start, queueVars
<1>3. ASSUME NEW c \in Clients, NEW g \in Groups, pause_and_get_group_status(c, g)
      PROVE  OneExecutor'
  BY <1>3 DEF pause_and_get_group_status
<1>4. ASSUME NEW c \in Clients, resume(c)
      PROVE  OneExecutor'
  BY <1>4 DEF resume, ClaimStart, CanCall
<1>5. ASSUME NEW w \in Workers, Leave(w)
      PROVE  OneExecutor'
  BY <1>5 DEF Leave
<1>6. ASSUME NEW w \in Workers,
             Take(w) \/ Run(w) \/ PushFinished(w) \/ NotifyFinished(w) \/ PopTask(w)
      PROVE  OneExecutor'
  <2>1. Running' = Running
    BY <1>6 DEF Take, Run, PushFinished, NotifyFinished, PopTask
  <2>2. Starters' = Starters /\ started' = started
    BY <1>6 DEF Take, Run, PushFinished, NotifyFinished, PopTask, queueVars
  <2> QED
    BY <2>1, <2>2
<1>7. CASE on_task_finished_callback \/ wait \/ Woken \/ Closed
  BY <1>7 DEF on_task_finished_callback, wait, Woken, Closed, vars, queueVars
<1> QED
  BY <1>1, <1>2, <1>3, <1>4, <1>5, <1>6, <1>7 DEF Next, Client, Worker

LEMMA FrontKept ==
  ASSUME TypeOK, OneExecutor, FrontInHand, Next
  PROVE  FrontInHand'
<1> USE DEF FrontInHand, HandPC, TypeOK
<1>1. ASSUME NEW c \in Clients, NEW g \in Groups, add_task(c, g)
      PROVE  FrontInHand'
  <2> DEFINE t == [id |-> last_task_id + 1, group |-> g]
  <2>1. t \in Task /\ tasks' = Append(tasks, t)
    BY <1>1, AsyncFsConstants DEF add_task, Task
  <2>2. tasks' # <<>>
    BY <2>1, AppendProperties
  <2>3. tasks # <<>> => Head(tasks') = Head(tasks)
    BY <2>1, HeadTailAppend
  <2> QED
    BY <1>1, <2>2, <2>3 DEF add_task
<1>2. ASSUME NEW c \in Clients, start(c)
      PROVE  FrontInHand'
  BY <1>2 DEF start, queueVars
<1>3. ASSUME NEW c \in Clients, NEW g \in Groups, pause_and_get_group_status(c, g)
      PROVE  FrontInHand'
  BY <1>3 DEF pause_and_get_group_status
<1>4. ASSUME NEW c \in Clients, resume(c)
      PROVE  FrontInHand'
  BY <1>4 DEF resume
<1>5. ASSUME NEW w \in Workers, Leave(w)
      PROVE  FrontInHand'
  BY <1>5 DEF Leave
<1>6. ASSUME NEW w \in Workers,
             Take(w) \/ Run(w) \/ PushFinished(w) \/ NotifyFinished(w)
      PROVE  FrontInHand'
  BY <1>6 DEF Take, Run, PushFinished, NotifyFinished, queueVars
<1>7. ASSUME NEW w \in Workers, PopTask(w)
      PROVE  FrontInHand'
  <2>1. \A v \in Workers : v # w => wpc[v] = "none"
    BY <1>7 DEF PopTask, OneExecutor, Running
  <2>2. \A v \in Workers : wpc'[v] \notin HandPC
    BY <1>7, <2>1 DEF PopTask
  <2> QED
    BY <2>2
<1>8. CASE on_task_finished_callback \/ wait \/ Woken \/ Closed
  BY <1>8 DEF on_task_finished_callback, wait, Woken, Closed, vars, queueVars
<1> QED
  BY <1>1, <1>2, <1>3, <1>4, <1>5, <1>6, <1>7, <1>8 DEF Next, Client, Worker

LEMMA NotifiedKept ==
  ASSUME TypeOK, OneExecutor, FrontInHand, NotifiedHasTask, Next
  PROVE  NotifiedHasTask'
<1> USE DEF NotifiedHasTask, TypeOK
<1>1. ASSUME NEW c \in Clients, NEW g \in Groups, add_task(c, g)
      PROVE  NotifiedHasTask'
  BY <1>1 DEF add_task, glibVars
<1>2. ASSUME NEW c \in Clients, start(c)
      PROVE  NotifiedHasTask'
  BY <1>2 DEF start, glibVars
<1>3. ASSUME NEW c \in Clients, NEW g \in Groups, pause_and_get_group_status(c, g)
      PROVE  NotifiedHasTask'
  BY <1>3 DEF pause_and_get_group_status, glibVars
<1>4. ASSUME NEW c \in Clients, resume(c)
      PROVE  NotifiedHasTask'
  BY <1>4 DEF resume, glibVars
<1>5. ASSUME NEW w \in Workers, Leave(w) \/ Take(w) \/ Run(w) \/ PopTask(w)
      PROVE  NotifiedHasTask'
  BY <1>5 DEF Leave, Take, Run, PopTask, glibVars
<1>6. ASSUME NEW w \in Workers, PushFinished(w)
      PROVE  NotifiedHasTask'
  <2>1. task[w] \in Task
    BY <1>6 DEF PushFinished, FrontInHand, HandPC
  <2>2. Len(finished_tasks') = Len(finished_tasks) + 1
    BY <1>6, <2>1 DEF PushFinished, Task
  <2> QED
    BY <1>6, <2>2 DEF PushFinished
<1>7. ASSUME NEW w \in Workers, NotifyFinished(w)
      PROVE  NotifiedHasTask'
  BY <1>7 DEF NotifyFinished, OneExecutor, Running
<1>8. CASE on_task_finished_callback
  <2>1. Len(finished_tasks') = Len(finished_tasks) - 1
    BY <1>8 DEF on_task_finished_callback
  <2> QED
    BY <1>8, <2>1 DEF on_task_finished_callback
<1>9. CASE wait \/ Woken \/ Closed
  BY <1>9 DEF wait, Woken, Closed, vars, glibVars
<1> QED
  BY <1>1, <1>2, <1>3, <1>4, <1>5, <1>6, <1>7, <1>8, <1>9 DEF Next, Client, Worker

LEMMA TypesKept ==
  ASSUME Inv, Next
  PROVE  TypeOK'
<1> USE AsyncFsConstants DEF Inv, TypeOK
<1>1. ASSUME NEW c \in Clients, NEW g \in Groups, add_task(c, g)
      PROVE  TypeOK'
  <2>1. started' \in BOOLEAN /\ cpc' \in [Clients -> {"idle", "start"}]
    BY <1>1 DEF add_task, ClaimStart
  <2>2. last_task_id' \in 0..MaxTasks /\ tasks' \in Seq(Task)
    BY <1>1 DEF add_task, Task
  <2> QED
    BY <1>1, <2>1, <2>2 DEF add_task, glibVars, endVars, history
<1>2. ASSUME NEW c \in Clients, start(c)
      PROVE  TypeOK'
  BY <1>2 DEF start, queueVars, glibVars, endVars, history
<1>3. ASSUME NEW c \in Clients, NEW g \in Groups, pause_and_get_group_status(c, g)
      PROVE  TypeOK'
  BY <1>3 DEF pause_and_get_group_status, glibVars, endVars
<1>4. ASSUME NEW c \in Clients, resume(c)
      PROVE  TypeOK'
  <2>1. started' \in BOOLEAN /\ cpc' \in [Clients -> {"idle", "start"}]
    BY <1>4 DEF resume, ClaimStart
  <2> QED
    BY <1>4, <2>1 DEF resume, glibVars, endVars
<1>5. ASSUME NEW w \in Workers, Leave(w)
      PROVE  TypeOK'
  <2>1. signalled' \in BOOLEAN /\ posted' \in BOOLEAN
    BY <1>5 DEF Leave
  <2> QED
    BY <1>5, <2>1 DEF Leave, glibVars
<1>6. ASSUME NEW w \in Workers, Take(w)
      PROVE  TypeOK'
  BY <1>6 DEF Take, queueVars, glibVars, endVars, history
<1>7. ASSUME NEW w \in Workers, wpc[w] \in HandPC
      PROVE  task[w] \in Task
  BY <1>7 DEF FrontInHand
<1>8. ASSUME NEW w \in Workers, Run(w)
      PROVE  TypeOK'
  BY <1>8, <1>7 DEF Run, HandPC, queueVars, glibVars, endVars
<1>9. ASSUME NEW w \in Workers, PushFinished(w)
      PROVE  TypeOK'
  <2>1. task[w].id \in 1..MaxTasks
    BY <1>9, <1>7 DEF PushFinished, HandPC, Task
  <2> QED
    BY <1>9, <2>1 DEF PushFinished, queueVars, endVars, history
<1>10. ASSUME NEW w \in Workers, NotifyFinished(w)
       PROVE  TypeOK'
  BY <1>10 DEF NotifyFinished, queueVars, endVars, history
<1>11. ASSUME NEW w \in Workers, PopTask(w)
       PROVE  TypeOK'
  BY <1>11 DEF PopTask, FrontInHand, HandPC, glibVars, endVars, history
<1>12. CASE on_task_finished_callback
  BY <1>12 DEF on_task_finished_callback, NotifiedHasTask, queueVars, endVars, history
<1>13. CASE wait
  <2>1. waiting' \in BOOLEAN /\ dpc' \in {"open", "wait", "closed"}
    BY <1>13 DEF wait
  <2> QED
    BY <1>13, <2>1 DEF wait, queueVars, glibVars, history
<1>14. CASE Woken \/ Closed
  BY <1>14 DEF Woken, Closed, vars, queueVars, glibVars, endVars, history
<1> QED
  BY <1>1, <1>2, <1>3, <1>4, <1>5, <1>6, <1>8, <1>9, <1>10, <1>11, <1>12, <1>13,
     <1>14 DEF Next, Client, Worker

LEMMA Invariant == Spec => []Inv
<1>1. Init => Inv
  <2> SUFFICES ASSUME Init
               PROVE  Inv
    OBVIOUS
  <2>1. TypeOK
    <3>1. /\ started \in BOOLEAN /\ paused \in BOOLEAN /\ waiting \in BOOLEAN
          /\ posted \in BOOLEAN /\ signalled \in BOOLEAN
      BY Zenon DEF Init
    <3> QED
      BY <3>1, AsyncFsConstants DEF Init, TypeOK
  <2>2. OneExecutor
    <3>1. Starters = {} /\ Running = {}
      BY DEF Init, Starters, Running
    <3> QED
      BY <3>1 DEF Init, OneExecutor
  <2>3. FrontInHand /\ NotifiedHasTask
    BY DEF Init, FrontInHand, HandPC, NotifiedHasTask
  <2> QED
    BY <2>1, <2>2, <2>3 DEF Inv
<1>2. Inv /\ [Next]_vars => Inv'
  <2> SUFFICES ASSUME Inv, [Next]_vars
               PROVE  Inv'
    OBVIOUS
  <2>1. CASE Next
    BY <2>1, ExecutorKept, FrontKept, NotifiedKept, TypesKept DEF Inv
  <2>2. CASE UNCHANGED vars
    BY <2>2 DEF vars, queueVars, glibVars, endVars, history, Inv, TypeOK,
       OneExecutor, Starters, Running, FrontInHand, NotifiedHasTask
  <2> QED
    BY <2>1, <2>2
<1> QED
  BY <1>1, <1>2, PTL DEF Spec

(* Every variable keeps its type.                                          *)
THEOREM TypeCorrect == Spec => []TypeOK
BY Invariant, PTL DEF Inv

(* started tells whether there is a thread, and there is one at most.      *)
THEOREM SingleExecutor == Spec => []OneExecutor
BY Invariant, PTL DEF Inv
-----------------------------------------------------------------------------
(* No task waits without a thread.                                         *)
LEMMA StrandedKept ==
  ASSUME Inv, NoTaskStranded, Next
  PROVE  NoTaskStranded'
<1> USE DEF NoTaskStranded, Inv, TypeOK
<1>1. ASSUME NEW c \in Clients, NEW g \in Groups, add_task(c, g)
      PROVE  NoTaskStranded'
  BY <1>1 DEF add_task, ClaimStart
<1>2. ASSUME NEW c \in Clients, start(c)
      PROVE  NoTaskStranded'
  BY <1>2 DEF start, queueVars
<1>3. ASSUME NEW c \in Clients, NEW g \in Groups, pause_and_get_group_status(c, g)
      PROVE  NoTaskStranded'
  BY <1>3 DEF pause_and_get_group_status
<1>4. ASSUME NEW c \in Clients, resume(c)
      PROVE  NoTaskStranded'
  BY <1>4 DEF resume, ClaimStart
<1>5. ASSUME NEW w \in Workers, Leave(w)
      PROVE  NoTaskStranded'
  BY <1>5 DEF Leave
<1>6. ASSUME NEW w \in Workers,
             Take(w) \/ Run(w) \/ PushFinished(w) \/ NotifyFinished(w)
      PROVE  NoTaskStranded'
  BY <1>6 DEF Take, Run, PushFinished, NotifyFinished, queueVars
<1>7. ASSUME NEW w \in Workers, PopTask(w)
      PROVE  NoTaskStranded'
  BY <1>7 DEF PopTask, OneExecutor, Running
<1>8. CASE on_task_finished_callback \/ wait \/ Woken \/ Closed
  BY <1>8 DEF on_task_finished_callback, wait, Woken, Closed, vars, queueVars
<1> QED
  BY <1>1, <1>2, <1>3, <1>4, <1>5, <1>6, <1>7, <1>8 DEF Next, Client, Worker

(* A pause that answered false is kept: while there is one, the system is  *)
(* paused, so that no task can be taken.                                   *)
QuietInv == QuietGroup /\ (quiet # {} => paused)

LEMMA QuietKept ==
  ASSUME Inv, QuietInv, Next
  PROVE  QuietInv'
<1> USE DEF QuietInv, QuietGroup, Inv, TypeOK
<1>1. ASSUME NEW c \in Clients, NEW g \in Groups, add_task(c, g)
      PROVE  QuietInv'
  BY <1>1 DEF add_task, history
<1>2. ASSUME NEW c \in Clients, start(c)
      PROVE  QuietInv'
  BY <1>2 DEF start, queueVars, history
<1>3. ASSUME NEW c \in Clients, NEW g \in Groups, pause_and_get_group_status(c, g)
      PROVE  QuietInv'
  <2>1. ASSUME NEW w \in Workers, wpc[w] = "run"
        PROVE  task[w].group \notin quiet'
    <3>1. started /\ tasks # <<>> /\ task[w] = Head(tasks)
      BY <2>1 DEF OneExecutor, Running, FrontInHand, HandPC
    <3>2. quiet' \subseteq quiet \cup {g}
      BY <1>3 DEF pause_and_get_group_status
    <3>3. g \in quiet' => g \in quiet \/ Head(tasks).group # g
      BY <1>3, <3>1 DEF pause_and_get_group_status
    <3> QED
      BY <2>1, <3>1, <3>2, <3>3
  <2> QED
    BY <1>3, <2>1 DEF pause_and_get_group_status
<1>4. ASSUME NEW c \in Clients, resume(c)
      PROVE  QuietInv'
  BY <1>4 DEF resume
<1>5. ASSUME NEW w \in Workers, Take(w)
      PROVE  QuietInv'
  BY <1>5 DEF Take, queueVars, history
<1>6. ASSUME NEW w \in Workers,
             Leave(w) \/ Run(w) \/ PushFinished(w) \/ NotifyFinished(w) \/ PopTask(w)
      PROVE  QuietInv'
  BY <1>6 DEF Leave, Run, PushFinished, NotifyFinished, PopTask, queueVars, history
<1>7. CASE on_task_finished_callback \/ wait \/ Woken \/ Closed
  BY <1>7 DEF on_task_finished_callback, wait, Woken, Closed, vars, queueVars, history
<1> QED
  BY <1>1, <1>2, <1>3, <1>4, <1>5, <1>6, <1>7 DEF Next, Client, Worker

(* The end: the semaphore is posted by a thread that has ended, and nobody *)
(* starts another one.                                                     *)
EndInv ==
  /\ dpc # "open" => Starters = {}
  /\ waiting => dpc = "wait" /\ ~posted
  /\ posted => dpc # "open"
  /\ posted \/ dpc = "closed" => Running = {} /\ (tasks = <<>> \/ paused)

LEMMA EndKept ==
  ASSUME Inv, NoTaskStranded, EndInv, Next
  PROVE  EndInv'
<1> USE DEF EndInv, Inv, TypeOK
<1>1. ASSUME NEW c \in Clients, NEW g \in Groups, add_task(c, g)
      PROVE  EndInv'
  BY <1>1 DEF add_task, CanCall, endVars
<1>2. ASSUME NEW c \in Clients, start(c)
      PROVE  EndInv'
  BY <1>2 DEF start, Starters, endVars
<1>3. ASSUME NEW c \in Clients, NEW g \in Groups, pause_and_get_group_status(c, g)
      PROVE  EndInv'
  BY <1>3 DEF pause_and_get_group_status, CanCall, endVars
<1>4. ASSUME NEW c \in Clients, resume(c)
      PROVE  EndInv'
  BY <1>4 DEF resume, CanCall, endVars
<1>5. ASSUME NEW w \in Workers, Leave(w)
      PROVE  EndInv'
  <2>1. Running' = {}
    BY <1>5 DEF Leave, OneExecutor, Running
  <2>2. Starters' = Starters
    BY <1>5 DEF Leave, Starters
  <2>3. posted' => posted \/ waiting
    BY <1>5 DEF Leave
  <2> QED
    BY <1>5, <2>1, <2>2, <2>3 DEF Leave
<1>6. ASSUME NEW w \in Workers,
             Take(w) \/ Run(w) \/ PushFinished(w) \/ NotifyFinished(w) \/ PopTask(w)
      PROVE  EndInv'
  <2>1. w \in Running
    BY <1>6 DEF Take, Run, PushFinished, NotifyFinished, PopTask, Running
  <2>2. UNCHANGED <<endVars, cpc>>
    BY <1>6 DEF Take, Run, PushFinished, NotifyFinished, PopTask
  <2> QED
    BY <2>1, <2>2 DEF endVars, Starters
<1>7. CASE on_task_finished_callback \/ Closed
  BY <1>7 DEF on_task_finished_callback, Closed, vars, queueVars, endVars, Starters,
     Running
<1>8. CASE wait
  <2>1. Starters = {}
    BY <1>8 DEF wait, Starters
  <2>2. ~started => Running = {} /\ (tasks = <<>> \/ paused)
    BY DEF OneExecutor, NoTaskStranded
  <2>3. UNCHANGED <<Starters, Running, tasks, paused, posted>>
    BY <1>8 DEF wait, Starters, Running, queueVars
  <2>4. /\ dpc' = IF started THEN "wait" ELSE "closed"
        /\ waiting' = started
        /\ ~posted
    BY <1>8 DEF wait
  <2> QED
    BY <2>1, <2>2, <2>3, <2>4
<1>9. CASE Woken
  BY <1>9 DEF Woken, Starters, Running, queueVars
<1> QED
  BY <1>1, <1>2, <1>3, <1>4, <1>5, <1>6, <1>7, <1>8, <1>9 DEF Next, Client, Worker

LEMMA Promises == Spec => [](NoTaskStranded /\ QuietInv /\ EndInv)
<1> DEFINE P == NoTaskStranded /\ QuietInv /\ EndInv
<1>1. Init => P
  <2> SUFFICES ASSUME Init
               PROVE  P
    OBVIOUS
  <2>1. NoTaskStranded
    BY DEF Init, NoTaskStranded
  <2>4. QuietInv
    BY DEF Init, QuietInv, QuietGroup
  <2>2. Starters = {}
    BY DEF Init, Starters
  <2>3. ~waiting /\ ~posted /\ dpc = "open"
    BY Zenon DEF Init
  <2> QED
    BY <2>1, <2>2, <2>3, <2>4 DEF EndInv
<1>2. Inv /\ P /\ [Next]_vars => P'
  <2> SUFFICES ASSUME Inv, P, [Next]_vars
               PROVE  P'
    OBVIOUS
  <2>1. CASE Next
    BY <2>1, StrandedKept, QuietKept, EndKept
  <2>2. CASE UNCHANGED vars
    BY <2>2 DEF vars, queueVars, endVars, history, NoTaskStranded, QuietInv,
       QuietGroup, EndInv, Starters, Running
  <2> QED
    BY <2>1, <2>2
<1> QED
  BY <1>1, <1>2, Invariant, PTL DEF Spec

(* A task that waits while the system is not paused has a thread.          *)
THEOREM NoneStranded == Spec => []NoTaskStranded
BY Promises, PTL

(* After a pause that answered false no task of that group is executed.    *)
THEOREM PauseIsKept == Spec => []QuietGroup
BY Promises, PTL DEF QuietInv

(* The destructor leaves no thread behind.                                 *)
THEOREM ClosedAlone == Spec => []ClosedIsQuiet
<1>1. EndInv => ClosedIsQuiet
  BY DEF EndInv, ClosedIsQuiet
<1> QED
  BY <1>1, Promises, PTL
-----------------------------------------------------------------------------
(* The queue of JobQueue: tasks without the one in hand.                   *)
jq == IF InHand THEN Tail(tasks) ELSE tasks
jr == IF Executing THEN <<Head(tasks)>> ELSE <<>>

LEMMA StepImplementsJobQueue ==
  ASSUME Inv, [Next]_vars
  PROVE  [J!Next]_(J!vars)
<1> USE DEF Inv, TypeOK, J!vars
<1>1. ASSUME NEW c \in Clients, NEW g \in Groups, add_task(c, g)
      PROVE  J!Give
  <2> DEFINE t == [id |-> last_task_id + 1, group |-> g]
  <2>1. t \in Task /\ tasks' = Append(tasks, t)
    BY <1>1, AsyncFsConstants DEF add_task, Task
  <2>2. UNCHANGED <<wpc, ran, paused>>
    BY <1>1 DEF add_task, history
  <2>3. InHand' = InHand /\ Executing' = Executing
    BY <2>2 DEF InHand, Executing
  <2>4. InHand \/ Executing => tasks # <<>>
    BY DEF InHand, Executing, FrontInHand, HandPC
  <2>5. /\ tasks # <<>> => Head(tasks') = Head(tasks)
        /\ tasks # <<>> => Tail(tasks') = Append(Tail(tasks), t)
    BY <2>1, HeadTailAppend
  <2>6. jq' = Append(jq, t)
    BY <2>1, <2>3, <2>4, <2>5 DEF jq
  <2>7. jr' = jr
    BY <2>3, <2>4, <2>5 DEF jr
  <2> QED
    BY <2>1, <2>2, <2>6, <2>7 DEF J!Give, jq, jr
<1>2. ASSUME UNCHANGED <<tasks, wpc, ran, paused>>
      PROVE  UNCHANGED J!vars
  BY <1>2 DEF InHand, Executing
<1>3. ASSUME NEW c \in Clients, start(c)
      PROVE  UNCHANGED J!vars
  <2>1. InHand' = InHand /\ Executing' = Executing
    BY <1>3 DEF start, InHand, Executing
  <2> QED
    BY <1>3, <2>1 DEF start, queueVars, history
<1>4. ASSUME UNCHANGED <<tasks, wpc, ran>>, paused' \in BOOLEAN
      PROVE  J!PauseOrResume
  BY <1>4 DEF J!PauseOrResume, InHand, Executing
<1>5. ASSUME NEW w \in Workers, Leave(w)
      PROVE  UNCHANGED J!vars
  <2>1. InHand' = InHand /\ Executing' = Executing
    BY <1>5 DEF Leave, InHand, Executing
  <2> QED
    BY <1>5, <2>1 DEF Leave
<1>6. ASSUME NEW w \in Workers, wpc[w] # "none"
      PROVE  \A v \in Workers : v # w => wpc[v] = "none"
  BY <1>6 DEF OneExecutor, Running
<1>7. ASSUME NEW w \in Workers, Take(w)
      PROVE  J!Begin
  <2>1. ~InHand /\ ~Executing
    BY <1>7, <1>6 DEF Take, InHand, Executing
  <2>2. InHand' /\ Executing'
    BY <1>7 DEF Take, InHand, Executing
  <2> QED
    BY <1>7, <2>1, <2>2 DEF Take, J!Begin, queueVars, history
<1>8. ASSUME NEW w \in Workers, Run(w)
      PROVE  J!Finish
  <2>1. InHand /\ Executing
    BY <1>8 DEF Run, InHand, Executing
  <2>2. InHand' /\ ~Executing'
    BY <1>8, <1>6 DEF Run, InHand, Executing
  <2>3. task[w] = Head(tasks) /\ task[w] \in Task
    BY <1>8 DEF Run, FrontInHand, HandPC
  <2>4. ran' = ran \o <<Head(tasks)>>
    BY <1>8, <2>3, AppendIsConcat DEF Run
  <2> QED
    BY <1>8, <2>1, <2>2, <2>4 DEF Run, J!Finish, queueVars
<1>9. ASSUME NEW w \in Workers, PushFinished(w) \/ NotifyFinished(w)
      PROVE  UNCHANGED J!vars
  <2>1. InHand /\ ~Executing
    BY <1>9, <1>6 DEF PushFinished, NotifyFinished, InHand, Executing
  <2>2. InHand' /\ ~Executing'
    BY <1>9, <1>6 DEF PushFinished, NotifyFinished, InHand, Executing
  <2> QED
    BY <1>9, <2>1, <2>2 DEF PushFinished, NotifyFinished, queueVars, history
<1>10. ASSUME NEW w \in Workers, PopTask(w)
       PROVE  UNCHANGED J!vars
  <2>1. InHand /\ ~Executing
    BY <1>10, <1>6 DEF PopTask, InHand, Executing
  <2>2. ~InHand' /\ ~Executing'
    BY <1>10, <1>6 DEF PopTask, InHand, Executing
  <2> QED
    BY <1>10, <2>1, <2>2 DEF PopTask, history
<1>11. CASE \E c \in Clients : Client(c)
  <2>1. ASSUME NEW c \in Clients, resume(c)
        PROVE  J!PauseOrResume
    BY <2>1, <1>4 DEF resume
  <2>2. ASSUME NEW c \in Clients, NEW g \in Groups, pause_and_get_group_status(c, g)
        PROVE  J!PauseOrResume
    BY <2>2, <1>4 DEF pause_and_get_group_status
  <2> QED
    BY <1>11, <1>1, <1>3, <2>1, <2>2 DEF Client, J!Next
<1>12. CASE \E w \in Workers : Worker(w)
  BY <1>12, <1>5, <1>7, <1>8, <1>9, <1>10 DEF Worker, J!Next
<1>13. CASE on_task_finished_callback \/ wait \/ Woken \/ Closed \/ UNCHANGED vars
  <2>1. UNCHANGED <<tasks, wpc, ran, paused>>
    BY <1>13 DEF on_task_finished_callback, wait, Woken, Closed, vars, queueVars, history
  <2> QED
    BY <1>2, <2>1
<1> QED
  BY <1>11, <1>12, <1>13 DEF Next

(* Every behaviour of the threads is one of JobQueue.                      *)
THEOREM Implements == Spec => ImplementsJobQueue
<1>1. Init => J!Init
  BY DEF Init, J!Init, InHand, Executing
<1> QED
  BY <1>1, StepImplementsJobQueue, Invariant, PTL DEF Spec, J!Spec, ImplementsJobQueue
-----------------------------------------------------------------------------
(* The signals: what was signalled, or is about to be, are the first tasks *)
(* that were executed; one more was executed if finish_task() is under way.*)

Reported == Len(delivered) + Len(finished_tasks)

DeliveryInv ==
  /\ Reported <= Len(ran)
  /\ \A i \in 1..Reported : (delivered \o finished_tasks)[i] = ran[i].id
  /\ \A w \in Workers : wpc[w] = "finish" =>
       GlibSignals /\ Len(ran) = Reported + 1 /\ ran[Reported + 1] = task[w]
  /\ GlibSignals /\ (\A w \in Workers : wpc[w] # "finish") => Len(ran) = Reported

LEMMA RunKeepsDelivery ==
  ASSUME Inv, DeliveryInv, NEW w \in Workers, Run(w)
  PROVE  DeliveryInv'
<1> USE DEF Inv, TypeOK
<1>1. Len(ran) \in Nat /\ Reported \in Nat
  BY LenProperties DEF Reported
<1>2. /\ Reported' = Reported
      /\ delivered' \o finished_tasks' = delivered \o finished_tasks
  BY DEF Run, glibVars, Reported
<1>3. wpc[w] = "run" /\ task' = task
  BY DEF Run
<1>4. \A v \in Workers : v # w => wpc[v] = "none"
  BY <1>3 DEF OneExecutor, Running
<1>5. task[w] \in Task
  BY <1>3 DEF FrontInHand, HandPC
<1>6. /\ Len(ran') = Len(ran) + 1
      /\ \A i \in 1..Len(ran) : ran'[i] = ran[i]
      /\ ran'[Len(ran) + 1] = task[w]
  BY <1>5, AppendProperties DEF Run
<1>7. GlibSignals => Len(ran) = Reported
  BY <1>3, <1>4 DEF DeliveryInv
<1>8. /\ wpc'[w] = IF GlibSignals THEN "finish" ELSE "pop"
      /\ \A v \in Workers : v # w => wpc'[v] = "none"
  BY <1>4 DEF Run
<1> HIDE DEF Inv, TypeOK
<1>9. Reported' <= Len(ran')
  BY <1>1, <1>2, <1>6 DEF DeliveryInv
<1>10. \A i \in 1..Reported' : (delivered' \o finished_tasks')[i] = ran'[i].id
  <2> SUFFICES ASSUME NEW i \in 1..Reported
               PROVE  (delivered \o finished_tasks)[i] = ran'[i].id
    BY <1>2
  <2>1. i \in 1..Len(ran)
    BY <1>1 DEF DeliveryInv
  <2>2. ran'[i] = ran[i]
    BY <1>6, <2>1
  <2> QED
    BY <2>2 DEF DeliveryInv
<1>11. ASSUME NEW v \in Workers, wpc'[v] = "finish"
       PROVE  /\ GlibSignals /\ Len(ran') = Reported' + 1
              /\ ran'[Reported' + 1] = task'[v]
  <2>1. v = w /\ GlibSignals
    BY <1>8, <1>11
  <2> QED
    BY <1>2, <1>3, <1>6, <1>7, <2>1
<1>12. ~(GlibSignals /\ \A v \in Workers : wpc'[v] # "finish")
  BY <1>8
<1> QED
  BY <1>9, <1>10, <1>11, <1>12 DEF DeliveryInv

LEMMA PushKeepsDelivery ==
  ASSUME Inv, DeliveryInv, NEW w \in Workers, PushFinished(w)
  PROVE  DeliveryInv'
<1> USE DEF Inv, TypeOK
<1>1. /\ Len(ran) \in Nat /\ Reported \in Nat
      /\ Len(delivered) \in Nat /\ Len(finished_tasks) \in Nat
  BY LenProperties DEF Reported
<1>2. wpc[w] = "finish" /\ wpc' = [wpc EXCEPT ![w] = "notify"]
  BY DEF PushFinished
<1>3. \A v \in Workers : wpc'[v] # "finish"
  BY <1>2 DEF OneExecutor, Running
<1>4. task[w].id \in 1..MaxTasks
  <2>1. task[w] \in Task
    BY <1>2 DEF FrontInHand, HandPC
  <2> QED
    BY <2>1 DEF Task
<1>5. /\ ran' = ran /\ delivered' = delivered
      /\ finished_tasks' = Append(finished_tasks, task[w].id)
  BY DEF PushFinished, history
<1>6. /\ finished_tasks' \in Seq(1..MaxTasks)
      /\ Len(finished_tasks') = Len(finished_tasks) + 1
      /\ \A i \in 1..Len(finished_tasks) : finished_tasks'[i] = finished_tasks[i]
      /\ finished_tasks'[Len(finished_tasks) + 1] = task[w].id
  BY <1>4, <1>5, AppendProperties
<1>7. Reported' = Reported + 1
  BY <1>1, <1>5, <1>6 DEF Reported
<1>8. Len(ran) = Reported + 1 /\ ran[Reported + 1] = task[w]
  BY <1>2 DEF DeliveryInv
<1>9. ASSUME NEW i \in 1..Reported'
      PROVE  (delivered \o finished_tasks')[i] = ran[i].id
  <2>1. (delivered \o finished_tasks')[i] =
           IF i <= Len(delivered) THEN delivered[i] ELSE finished_tasks'[i - Len(delivered)]
    BY <1>1, <1>6, <1>7, ConcatProperties DEF Reported
  <2>2. CASE i = Reported + 1
    BY <1>1, <1>6, <1>8, <2>1, <2>2 DEF Reported
  <2>3. CASE i \in 1..Reported
    <3>1. (delivered \o finished_tasks)[i] =
             IF i <= Len(delivered) THEN delivered[i] ELSE finished_tasks[i - Len(delivered)]
      BY <1>1, <2>3, ConcatProperties DEF Reported
    <3>2. (delivered \o finished_tasks)[i] = ran[i].id
      BY <2>3 DEF DeliveryInv
    <3>3. CASE i <= Len(delivered)
      BY <2>1, <3>1, <3>2, <3>3
    <3>4. CASE ~(i <= Len(delivered))
      <4>1. i - Len(delivered) \in 1..Len(finished_tasks)
        BY <1>1, <2>3, <3>4 DEF Reported
      <4> QED
        BY <1>6, <2>1, <3>1, <3>2, <3>4, <4>1
    <3> QED
      BY <3>3, <3>4
  <2> HIDE DEF Inv, TypeOK
  <2>4. i \in 1..(Reported + 1)
    BY <1>7
  <2>5. i = Reported + 1 \/ i \in 1..Reported
    BY <1>1, <2>4
  <2> QED
    BY <2>2, <2>3, <2>5
<1> HIDE DEF Inv, TypeOK
<1>10. (delivered \o finished_tasks)' = delivered \o finished_tasks'
  BY <1>5
<1>11. Reported' <= Len(ran') /\ Len(ran') = Reported'
  BY <1>1, <1>5, <1>7, <1>8
<1> QED
  BY <1>3, <1>5, <1>9, <1>10, <1>11 DEF DeliveryInv

LEMMA CallbackKeepsDelivery ==
  ASSUME Inv, DeliveryInv, on_task_finished_callback
  PROVE  DeliveryInv'
<1> USE DEF Inv, TypeOK
<1>1. /\ Len(delivered) \in Nat /\ Len(finished_tasks) \in Nat
  BY LenProperties
<1>2. finished_tasks # <<>>
  BY EmptySeq DEF on_task_finished_callback, NotifiedHasTask
<1>3. /\ Head(finished_tasks) = finished_tasks[1]
      /\ Head(finished_tasks) \in 1..MaxTasks
      /\ Tail(finished_tasks) \in Seq(1..MaxTasks)
      /\ Len(Tail(finished_tasks)) = Len(finished_tasks) - 1
      /\ \A i \in 1..(Len(finished_tasks) - 1) : Tail(finished_tasks)[i] = finished_tasks[i + 1]
  <2>1. Head(finished_tasks) = finished_tasks[1]
    BY <1>2
  <2> QED
    BY <1>1, <1>2, <2>1, HeadTailProperties
<1>4. /\ delivered' = Append(delivered, Head(finished_tasks))
      /\ finished_tasks' = Tail(finished_tasks)
      /\ UNCHANGED <<ran, wpc, task>>
  BY DEF on_task_finished_callback, history
<1>5. /\ delivered' \in Seq(1..MaxTasks)
      /\ Len(delivered') = Len(delivered) + 1
      /\ \A i \in 1..Len(delivered) : delivered'[i] = delivered[i]
      /\ delivered'[Len(delivered) + 1] = finished_tasks[1]
  BY <1>3, <1>4, AppendProperties
<1>6. Reported' = Reported /\ Reported \in Nat
  BY <1>1, <1>3, <1>4, <1>5 DEF Reported
<1>7. ASSUME NEW i \in 1..Reported
      PROVE  (delivered' \o finished_tasks')[i] = (delivered \o finished_tasks)[i]
  <2>1. (delivered' \o finished_tasks')[i] =
           IF i <= Len(delivered') THEN delivered'[i] ELSE finished_tasks'[i - Len(delivered')]
    BY <1>1, <1>3, <1>4, <1>5, <1>6, ConcatProperties DEF Reported
  <2>2. (delivered \o finished_tasks)[i] =
           IF i <= Len(delivered) THEN delivered[i] ELSE finished_tasks[i - Len(delivered)]
    BY <1>1, ConcatProperties DEF Reported
  <2>3. CASE i <= Len(delivered)
    BY <1>1, <1>5, <2>1, <2>2, <2>3
  <2>4. CASE i = Len(delivered) + 1
    BY <1>1, <1>5, <2>1, <2>2, <2>4
  <2>5. CASE i > Len(delivered) + 1
    <3>1. i - Len(delivered') \in 1..(Len(finished_tasks) - 1)
      BY <1>1, <1>5, <1>6, <2>5 DEF Reported
    <3>2. (i - Len(delivered')) + 1 = i - Len(delivered)
      BY <1>1, <1>5, <1>6
    <3> QED
      BY <1>1, <1>3, <1>4, <1>5, <2>1, <2>2, <2>5, <3>1, <3>2
  <2> HIDE DEF Inv, TypeOK
  <2>6. i \in Nat
    BY <1>6
  <2>7. i <= Len(delivered) \/ i = Len(delivered) + 1 \/ i > Len(delivered) + 1
    BY <1>1, <2>6
  <2> QED
    BY <2>3, <2>4, <2>5, <2>7
<1> QED
  BY <1>4, <1>6, <1>7 DEF DeliveryInv

LEMMA DeliveryKept ==
  ASSUME Inv, DeliveryInv, Next
  PROVE  DeliveryInv'
<1> USE DEF Reported, DeliveryInv
<1>1. ASSUME NEW c \in Clients, NEW g \in Groups, add_task(c, g)
      PROVE  DeliveryInv'
  BY <1>1 DEF add_task, glibVars, history
<1>2. ASSUME NEW c \in Clients, start(c)
      PROVE  DeliveryInv'
  <2>1. PICK w \in Workers : wpc[w] = "none" /\ wpc' = [wpc EXCEPT ![w] = "check"]
    BY <1>2 DEF start
  <2>2. \A v \in Workers : wpc'[v] = "finish" <=> wpc[v] = "finish"
    BY <2>1 DEF Inv, TypeOK
  <2>3. UNCHANGED <<delivered, finished_tasks, ran, task>>
    BY <1>2 DEF start, glibVars, history
  <2> QED
    BY <2>2, <2>3
<1>3. ASSUME NEW c \in Clients, NEW g \in Groups, pause_and_get_group_status(c, g)
      PROVE  DeliveryInv'
  BY <1>3 DEF pause_and_get_group_status, glibVars
<1>4. ASSUME NEW c \in Clients, resume(c)
      PROVE  DeliveryInv'
  BY <1>4 DEF resume, glibVars
<1>5. ASSUME NEW w \in Workers, Leave(w) \/ Take(w) \/ NotifyFinished(w) \/ PopTask(w)
      PROVE  DeliveryInv'
  <2>1. \A v \in Workers : wpc'[v] = "finish" <=> wpc[v] = "finish"
    BY <1>5 DEF Leave, Take, NotifyFinished, PopTask, Inv, TypeOK
  <2>2. \A v \in Workers : wpc[v] = "finish" => task'[v] = task[v]
    BY <1>5 DEF Leave, Take, NotifyFinished, PopTask, Inv, TypeOK
  <2>3. UNCHANGED <<delivered, finished_tasks, ran>>
    BY <1>5 DEF Leave, Take, NotifyFinished, PopTask, glibVars, history
  <2> QED
    BY <2>1, <2>2, <2>3
<1>6. ASSUME NEW w \in Workers, Run(w)
      PROVE  DeliveryInv'
  BY <1>6, RunKeepsDelivery
<1>7. ASSUME NEW w \in Workers, PushFinished(w)
      PROVE  DeliveryInv'
  BY <1>7, PushKeepsDelivery
<1>8. CASE on_task_finished_callback
  BY <1>8, CallbackKeepsDelivery
<1>9. CASE wait \/ Woken \/ Closed
  BY <1>9 DEF wait, Woken, Closed, vars, glibVars, history
<1> QED
  BY <1>1, <1>2, <1>3, <1>4, <1>5, <1>6, <1>7, <1>8, <1>9 DEF Next, Client, Worker

(* Tasks are signalled in the order they were executed, and the callback   *)
(* never takes from an empty finished_tasks.                               *)
THEOREM SignalledInOrder == Spec => []FinishedInOrder
<1>1. Init => DeliveryInv
  BY EmptySeq DEF Init, DeliveryInv, Reported
<1>2. Inv /\ DeliveryInv /\ [Next]_vars => DeliveryInv'
  <2> SUFFICES ASSUME Inv, DeliveryInv, [Next]_vars
               PROVE  DeliveryInv'
    OBVIOUS
  <2>1. CASE Next
    BY <2>1, DeliveryKept
  <2>2. CASE UNCHANGED vars
    BY <2>2 DEF vars, glibVars, history, DeliveryInv, Reported
  <2> QED
    BY <2>1, <2>2
<1>3. Inv /\ DeliveryInv => FinishedInOrder
  <2> SUFFICES ASSUME Inv, DeliveryInv
               PROVE  FinishedInOrder
    OBVIOUS
  <2> DEFINE signals == delivered \o finished_tasks
  <2>1. /\ signals \in Seq(1..MaxTasks)
        /\ Len(signals) = Reported
        /\ Reported \in Nat
    BY ConcatProperties, LenProperties DEF Inv, TypeOK, Reported
  <2>2. signals = [i \in 1..Reported |-> signals[i]]
    <3> HIDE DEF signals
    <3>1. signals \in [1..Reported -> 1..MaxTasks]
      BY <2>1, LenProperties
    <3> QED
      BY <3>1
  <2>3. \A i \in 1..Reported : signals[i] = ran[i].id
    BY DEF DeliveryInv
  <2>4. signals = [i \in 1..Reported |-> ran[i].id]
    <3> HIDE DEF signals
    <3> QED
      BY <2>2, <2>3
  <2> QED
    BY <2>4 DEF FinishedInOrder, Inv, NotifiedHasTask, Reported
<1> QED
  BY <1>1, <1>2, <1>3, Invariant, PTL DEF Spec
=============================================================================
