------------------------------ MODULE FsWatcher ------------------------------
(***************************************************************************)
(* m::Fs_watcher (src/src/mlib/fs_watcher.cpp) and the m::Connection that  *)
(* stops its thread (src/src/mlib/misc.cpp): one directory at a time is    *)
(* watched with inotify, a thread reads the events and queues the files    *)
(* that appeared, and the thread that owns the object takes them.          *)
(*                                                                         *)
(* The owner's calls are cut at every system call; the thread at every     *)
(* select() with its read(), at the mutex and at the Dispatcher.           *)
(***************************************************************************)
EXTENDS Naturals, Sequences, SequencesExt

CONSTANTS
  Dir,        \* the directories that can be watched
  MaxWatch,   \* bound: number of directories watched one after the other
  MaxEvents,  \* bound: number of things that happen in them
  SignalCap,  \* notifications that the pipe of the Dispatcher holds
  NoDir       \* stands for "": no directory, or the path reported for the directory itself

ASSUME WatcherConstants == /\ MaxWatch \in Nat
                           /\ MaxEvents \in Nat
                           /\ SignalCap \in Nat \ {0}
                           /\ NoDir \notin Dir

NoWatch == 0
Watch == 1..MaxWatch

\* create: IN_CREATE.  got: IN_CLOSE_WRITE or IN_MOVED_TO.  self: IN_MOVE_SELF
\* or IN_DELETE_SELF.  ignored: IN_IGNORED, the last event of a watch.
Kind == {"create", "got", "self", "ignored"}

Event == [wd : Watch, kind : Kind]

\* An entry of new_files: the directory part of the path, and which event it
\* stands for.
Report == [dir : Dir \cup {NoDir}, wd : Watch, kind : Kind]

VARIABLES
  live,      \* inotify: the watch it has, or NoWatch
  nextWatch, \* inotify: number of watches given out
  events,    \* inotify: the events not read yet
  happened,  \* history: all events but "ignored"
  watching_directory,
  watch_fd,
  new_files,
  new_file_signal, \* number of notifications in the pipe of the Dispatcher
  connection,      \* number of bytes in the Connection's pipe
  opc,       \* where the owner is: "idle", "take" in its handler, or in a call
  after,     \* where unset_watching_directory() returns to
  target,    \* the argument of set_watching_directory()
  taken,     \* history: what the owner removed from new_files
  tpc,       \* where the thread is: "none" if there is no thread
  local,     \* the thread's watching_directory
  batch      \* the events the thread has read

kernelVars == <<live, nextWatch, events, happened>>
ownerVars == <<opc, after, target, watching_directory, watch_fd>>
threadVars == <<tpc, local, batch>>
reportVars == <<new_files, taken, new_file_signal>>
watcherVars == <<kernelVars, ownerVars, threadVars, reportVars, connection>>

WatcherInit ==
  /\ live = NoWatch
  /\ nextWatch = 0
  /\ events = <<>>
  /\ happened = <<>>
  /\ watching_directory = NoDir
  /\ watch_fd = NoWatch
  /\ new_files = <<>>
  /\ new_file_signal = 0
  /\ connection = 0
  /\ opc = "idle"
  /\ after = "idle"
  /\ target = NoDir
  /\ taken = <<>>
  /\ tpc = "none"
  /\ local = NoDir
  /\ batch = <<>>

-----------------------------------------------------------------------------
(* The directories, and what inotify tells of them.                        *)

\* What a queue of events or reports says of files that are there for good
\* and of the directory itself: the two kinds that are always reported.
IsCertain(e) == e.kind \in {"got", "self"}
Certain(s) ==
  LET first[n \in 0..Len(s)] == \* those of the first n
        IF n = 0 THEN <<>>
        ELSE IF IsCertain(s[n]) THEN Append(first[n - 1], [wd |-> s[n].wd, kind |-> s[n].kind])
        ELSE first[n - 1]
  IN  first[Len(s)]

Seen(kind) == [wd |-> live, kind |-> kind]

\* Something happens in the watched directory, or it is moved.
Happens ==
  /\ live # NoWatch
  /\ Len(happened) < MaxEvents
  /\ \E kind \in {"create", "got", "self"} :
       /\ events' = Append(events, Seen(kind))
       /\ happened' = Append(happened, Seen(kind))
  /\ UNCHANGED <<live, nextWatch, ownerVars, threadVars, reportVars, connection>>

\* The watched directory is deleted, and its watch with it.
Deleted ==
  /\ live # NoWatch
  /\ Len(happened) < MaxEvents
  /\ events' = events \o <<Seen("self"), Seen("ignored")>>
  /\ happened' = Append(happened, Seen("self"))
  /\ live' = NoWatch
  /\ UNCHANGED <<nextWatch, ownerVars, threadVars, reportVars, connection>>

-----------------------------------------------------------------------------
(* The owner's calls.                                                      *)

\* unset_watching_directory(), which returns to next.
Unset(next) ==
  IF watching_directory = NoDir
    THEN opc' = next /\ UNCHANGED after
    ELSE opc' = "rm" /\ after' = next

\* What the owner may call: set_watching_directory(), which unsets first,
\* unset_watching_directory(), and the destructor.
Call ==
  /\ opc = "idle"
  /\ \/ /\ nextWatch < MaxWatch
        /\ target' \in Dir
        /\ Unset("clear")
     \/ target' = NoDir /\ Unset("idle")
     \/ target' = NoDir /\ Unset("closed")
  /\ UNCHANGED <<kernelVars, watching_directory, watch_fd, threadVars, reportVars, connection>>

\* inotify_rm_watch(): an error, which MLIB_E makes the end of the program, if
\* the watch is gone.
RemoveWatch ==
  /\ opc = "rm"
  /\ IF live = NoWatch
       THEN /\ opc' = "aborted"
            /\ UNCHANGED <<watch_fd, events>>
       ELSE /\ opc' = "post"
            /\ watch_fd' = NoWatch
            /\ events' = Append(events, Seen("ignored"))
  /\ live' = NoWatch
  /\ UNCHANGED <<nextWatch, happened, after, target, watching_directory, threadVars, reportVars, connection>>

\* Fault in Post: the byte is not written.
PostNot ==
  /\ opc = "post"
  /\ opc' = "join"
  /\ UNCHANGED <<kernelVars, after, target, watching_directory, watch_fd, threadVars, reportVars, connection>>

\* Connection::post().
Post ==
  /\ opc = "post"
  /\ connection' = connection + 1
  /\ opc' = "join"
  /\ UNCHANGED <<kernelVars, after, target, watching_directory, watch_fd, threadVars, reportVars>>

\* Fault in Join: watching_directory is not reset.
JoinKeepsDirectory ==
  /\ opc = "join"
  /\ tpc = "ended"
  /\ tpc' = "none"
  /\ opc' = after
  /\ UNCHANGED <<kernelVars, after, target, watching_directory, watch_fd, local, batch, reportVars, connection>>

\* The thread has ended: it is joined.
Join ==
  /\ opc = "join"
  /\ tpc = "ended"
  /\ tpc' = "none"
  /\ watching_directory' = NoDir
  /\ opc' = after
  /\ UNCHANGED <<kernelVars, after, target, watch_fd, local, batch, reportVars, connection>>

\* clear(), on its own or from set_watching_directory().
Clear(next) ==
  /\ taken' = taken \o new_files
  /\ new_files' = <<>>
  /\ opc' = next
  /\ UNCHANGED <<kernelVars, after, target, watching_directory, watch_fd, threadVars, new_file_signal, connection>>

ClearFirst == opc = "clear" /\ Clear("add")

clear == opc = "idle" /\ Clear("idle")

\* inotify_add_watch(), which fails for a directory that is not there.
AddWatch ==
  /\ opc = "add"
  /\ \/ /\ opc' = "idle"
        /\ UNCHANGED <<live, nextWatch, watching_directory, watch_fd>>
     \/ /\ nextWatch' = nextWatch + 1
        /\ live' = nextWatch'
        /\ watching_directory' = target
        /\ watch_fd' = nextWatch'
        /\ opc' = "start"
  /\ UNCHANGED <<events, happened, after, target, threadVars, reportVars, connection>>

\* The thread is started; it copies watching_directory.
Start ==
  /\ opc = "start"
  /\ tpc' = "select"
  /\ local' = watching_directory
  /\ opc' = "idle"
  /\ UNCHANGED <<kernelVars, after, target, watching_directory, watch_fd, batch, reportVars, connection>>

\* The owner's handler takes files until get() finds none.
OnNewFile ==
  /\ opc = "idle"
  /\ new_file_signal > 0
  /\ new_file_signal' = new_file_signal - 1
  /\ opc' = "take"
  /\ UNCHANGED <<kernelVars, after, target, watching_directory, watch_fd, threadVars, new_files, taken, connection>>

get ==
  /\ opc = "take"
  /\ IF new_files = <<>>
       THEN opc' = "idle" /\ UNCHANGED <<new_files, taken>>
       ELSE /\ taken' = Append(taken, Head(new_files))
            /\ new_files' = Tail(new_files)
            /\ UNCHANGED opc
  /\ UNCHANGED <<kernelVars, after, target, watching_directory, watch_fd, threadVars, new_file_signal, connection>>

Owner ==
  \/ RemoveWatch \/ Post \/ Join \/ ClearFirst \/ AddWatch \/ Start
  \/ OnNewFile \/ get

-----------------------------------------------------------------------------
(* The thread.                                                             *)

\* Fault in wait_for_with_owning: the Connection goes before inotify.
wait_for_connection ==
  IF connection > 0
    THEN /\ connection' = connection - 1
         /\ tpc' = "ended"
         /\ UNCHANGED <<events, batch>>
    ELSE /\ events # <<>>
         /\ batch' = events
         /\ events' = <<>>
         /\ tpc' = "process"
         /\ UNCHANGED connection

\* Connection::wait_for_with_owning(fd, true): inotify goes first.  The read()
\* returns as many whole events as fit into the buffer.
wait_for_with_owning ==
  IF events # <<>>
    THEN /\ \E n \in 1..Len(events) :
              /\ batch' = SubSeq(events, 1, n)
              /\ events' = SubSeq(events, n + 1, Len(events))
         /\ tpc' = "process"
         /\ UNCHANGED connection
    ELSE /\ connection > 0
         /\ connection' = connection - 1
         /\ tpc' = "ended"
         /\ UNCHANGED <<events, batch>>

Select ==
  /\ tpc = "select"
  /\ wait_for_with_owning
  /\ UNCHANGED <<live, nextWatch, happened, ownerVars, local, reportVars>>

\* The rest of the events read are looked at before the next select().
NextEvent(s) == IF s = <<>> THEN "select" ELSE "process"

\* Fault in IsInteresting: what happens to the directory itself is left out.
IsFile(event, instant) == event.kind = "got" \/ (event.kind = "create" /\ instant)

\* A new file is reported when it was closed or moved there; one that was just
\* created only if lstat() finds it, and no more to be written.
IsInteresting(event, instant) ==
  event.kind \in {"got", "self"} \/ (event.kind = "create" /\ instant)

\* Fault in Process: one notification for all that was read.
ProcessSignalsLast ==
  /\ tpc = "process"
  /\ \E instant \in BOOLEAN :
       LET event == Head(batch)
           path == IF event.kind = "self" THEN NoDir ELSE local
       IN  IF IsInteresting(event, instant)
             THEN /\ new_files' = Append(new_files, [dir |-> path, wd |-> event.wd, kind |-> event.kind])
                  /\ tpc' = IF Tail(batch) = <<>> THEN "signal" ELSE "process"
             ELSE /\ tpc' = NextEvent(Tail(batch))
                  /\ UNCHANGED new_files
  /\ batch' = Tail(batch)
  /\ UNCHANGED <<kernelVars, ownerVars, local, taken, new_file_signal, connection>>

\* process_event() up to the end of its locked part.
Process ==
  /\ tpc = "process"
  /\ \E instant \in BOOLEAN :
       LET event == Head(batch)
           path == IF event.kind = "self" THEN NoDir ELSE local
       IN  IF IsInteresting(event, instant)
             THEN /\ new_files' = Append(new_files, [dir |-> path, wd |-> event.wd, kind |-> event.kind])
                  /\ tpc' = "signal"
             ELSE /\ tpc' = NextEvent(Tail(batch))
                  /\ UNCHANGED new_files
  /\ batch' = Tail(batch)
  /\ UNCHANGED <<kernelVars, ownerVars, local, taken, new_file_signal, connection>>

\* And its notification, made outside of the mutex: a write to the pipe of the
\* Dispatcher, which waits while the pipe is full.
Signal ==
  /\ tpc = "signal"
  /\ new_file_signal < SignalCap
  /\ new_file_signal' = new_file_signal + 1
  /\ tpc' = NextEvent(batch)
  /\ UNCHANGED <<kernelVars, ownerVars, local, batch, new_files, taken, connection>>

Thread == Select \/ Process \/ Signal

-----------------------------------------------------------------------------

WatcherNext ==
  /\ opc # "aborted"
  /\ Call \/ clear \/ Owner \/ Thread \/ Happens \/ Deleted

WatcherSpec == WatcherInit /\ [][WatcherNext]_watcherVars

\* The thread is scheduled, and the owner returns from its calls.
WatcherFairness == WF_watcherVars(Thread /\ opc # "aborted") /\ WF_watcherVars(Owner)

-----------------------------------------------------------------------------
\* Types of inotify's, the owner's and the thread's state; one byte at most
\* stops a thread.
WatcherTypeOK ==
  /\ {live, watch_fd} \subseteq 0..MaxWatch
  /\ nextWatch \in 0..MaxWatch
  /\ events \in Seq(Event) /\ batch \in Seq(Event) /\ happened \in Seq(Event)
  /\ {watching_directory, target, local} \subseteq Dir \cup {NoDir}
  /\ new_files \in Seq(Report) /\ taken \in Seq(Report)
  /\ new_file_signal \in 0..SignalCap
  /\ connection \in 0..1
  /\ opc \in {"idle", "take", "rm", "post", "join", "clear", "add", "start", "closed", "aborted"}
  /\ after \in {"idle", "clear", "closed"}
  /\ tpc \in {"none", "select", "process", "signal", "ended"}

\* However often the directory is changed, a file is queued under the
\* directory it appeared in, and that is the one watched: no event of the last
\* directory is read by the thread of the next.
ReportsAreCurrent ==
  watch_fd # NoWatch =>
    \A i \in 1..Len(new_files) :
      /\ new_files[i].wd = watch_fd
      /\ new_files[i].dir =
           IF new_files[i].kind = "self" THEN NoDir ELSE watching_directory

\* Nothing queued is left without a notification that is still to come to the
\* owner, or being handled.
OwnerIsWoken ==
  new_files # <<>> => new_file_signal > 0 \/ tpc = "signal" \/ opc = "take"

\* What certainly has to be reported is: in its order, and once, over any cuts
\* of the events into reads and any stops of the thread.
ReportedInOrder == Certain(happened) = Certain(taken \o new_files \o batch \o events)

\* unset_watching_directory() ends the program only after an event about the
\* directory itself: its deletion took the watch with it.  A directory that was
\* only moved has such an event too, which is not told apart here.
AbortsOnlyIfGone ==
  opc = "aborted" => [wd |-> watch_fd, kind |-> "self"] \in Range(happened)

\* Both wait for ever: the owner, which alone empties the pipe, joins a thread
\* that waits for room in it.
Deadlocked == opc = "join" /\ tpc = "signal" /\ new_file_signal = SignalCap

\* And else it returns, whatever the thread is at, unless the thread has more
\* to notify than the pipe has room for: nothing but the pipe can keep it.
UnsetReturns == opc = "join" ~> (opc # "join" \/ Deadlocked)
=============================================================================
