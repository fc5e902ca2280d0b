------------------------------ MODULE MCThreads ------------------------------
(***************************************************************************)
(* The two components of mlib that run a thread of their own, in one run:  *)
(* "object" says which of them this behaviour is about, and the other      *)
(* stays in its initial state, where nothing that fairness is about can    *)
(* happen.                                                                 *)
(***************************************************************************)
EXTENDS AsyncFs, FsWatcher

VARIABLE object

threadsVars == <<object, vars, watcherVars>>

ThreadsInit == object \in {"async", "watcher"} /\ Init /\ WatcherInit

\* The owner of an Fs_watcher need not go on, nor can it when it is closed:
\* only the queue of tasks is told about when it stops.
ThreadsNext ==
  \/ object = "async" /\ Next /\ UNCHANGED <<object, watcherVars>>
  \/ object = "watcher" /\ WatcherNext /\ UNCHANGED <<object, vars>>
  \/ object = "watcher" /\ UNCHANGED threadsVars

ThreadsSpec ==
  ThreadsInit /\ [][ThreadsNext]_threadsVars /\ Fairness /\ WatcherFairness
=============================================================================
