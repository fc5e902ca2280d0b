------------------------------- MODULE Program -------------------------------
(***************************************************************************)
(* main() and Mplayer::start(): the life of the process, the MPlayer that  *)
(* it forks, and what both share: the terminal and two pipes.  Every call  *)
(* of the system may fail, and the process may be killed at any point.     *)
(*                                                                         *)
(* A process has a table of descriptors; opening takes the lowest free     *)
(* ones.  The terminal, if the standard input is one, is what descriptors  *)
(* 0 to 2 refer to, so that both processes reach it.                       *)
(***************************************************************************)
EXTENDS Integers

CONSTANT MaxFd   \* the largest descriptor

\* The standard ones are there.
ASSUME ProgramAssumption == MaxFd \in Nat /\ MaxFd >= 2

Fd == 0 .. MaxFd
Process == {"parent", "child"}
Holder == {"mplayer_stdin", "mplayer_stdout", "child_stdin", "child_stdout"}
PipeEnd == {"in.r", "in.w", "out.r", "out.w"}   \* of MPlayer's stdin and stdout
Closed == "closed"
Std == "standard"           \* what descriptors 0, 1 and 2 are when main() begins
NoFd == -1
Fault(p, what) == [process |-> p, call |-> what]

VARIABLES
  proc,        \* where each process is
  fds,         \* [process -> its table of descriptors]
  holder,      \* [File_holder -> its descriptor]; the child copies them by fork()
  tty,         \* the standard input is a terminal
  tio,         \* the attributes of the terminal: "found", or "raw"
  TIO_CHANGED, \* [process -> the variable of main.cpp]
  unlimited,   \* the hard limit on descriptors is RLIM_INFINITY
  faults       \* history: what went wrong

programVars == <<proc, fds, holder, tty, tio, TIO_CHANGED, unlimited, faults>>

Ended == {"exited", "aborted", "killed"}
Running(p) == proc[p] \notin Ended \cup {"none"}
NoFds == [fd \in Fd |-> Closed]
IsLowestFree(table, fd) == table[fd] = Closed /\ \A lower \in Fd : lower < fd => table[lower] # Closed
Held(p) == {fds[p][fd] : fd \in Fd} \cap PipeEnd

ProgramInit ==
  /\ proc = [parent |-> "arguments", child |-> "none"]
  /\ fds = [parent |-> [fd \in Fd |-> IF fd <= 2 THEN Std ELSE Closed], child |-> NoFds]
  /\ holder = [h \in Holder |-> NoFd]
  /\ tty \in BOOLEAN /\ unlimited \in BOOLEAN
  /\ tio = "found"
  /\ TIO_CHANGED = [p \in Process |-> FALSE]
  /\ faults = {}

-----------------------------------------------------------------------------
(* The end of a process.                                                   *)

At(p, pc) == proc[p] = pc
Go(p, pc) == proc' = [proc EXCEPT ![p] = pc]
Same(p, from, to) == At(p, from) /\ Go(p, to) /\ UNCHANGED <<fds, holder, tty, tio, TIO_CHANGED, unlimited, faults>>

\* Fault in Warning: the application's function exits by exit().
WarningExits(p) == "exited"

\* MLIB_W: the application's warning_function() calls exit_wrap().
Warning(p) == "exit_wrap"

\* rollback_stdin_tio_changes(): it works if the standard input is still the
\* terminal, and tcsetattr() does not fail.
exit_wrap(p) ==
  /\ At(p, "exit_wrap")
  /\ Go(p, "exited")
  /\ fds' = [fds EXCEPT ![p] = NoFds]
  /\ \/ ~TIO_CHANGED[p] /\ UNCHANGED <<tio, TIO_CHANGED, faults>>
     \/ /\ TIO_CHANGED[p] /\ fds[p][0] = Std /\ tty
        /\ tio' = "found" /\ TIO_CHANGED' = [TIO_CHANGED EXCEPT ![p] = FALSE]
        /\ UNCHANGED faults
     \/ TIO_CHANGED[p] /\ faults' = faults \cup {Fault(p, "tcsetattr")} /\ UNCHANGED <<tio, TIO_CHANGED>>
  /\ UNCHANGED <<holder, tty, unlimited>>

\* MLIB_E, MLIB_A, an exception that nobody catches, or a signal.
Die(p, how) ==
  /\ Running(p)
  /\ Go(p, how)
  /\ fds' = [fds EXCEPT ![p] = NoFds]
  /\ UNCHANGED <<holder, tty, tio, TIO_CHANGED, unlimited, faults>>

-----------------------------------------------------------------------------
(* main().                                                                 *)

usage == Same("parent", "arguments", "exit_wrap")
ParseArguments == Same("parent", "arguments", "find")

\* The directory of the file, and the subtitles: a file that does not load is
\* dropped, and without subtitles MPlayer takes the place of the program.
FindSubtitles ==
  \/ Same("parent", "find", Warning("parent"))
  \/ Same("parent", "find", "execvp")
  \/ Same("parent", "find", "isatty")
ExecMplayer ==
  \/ Same("parent", "execvp", "mplayer")
  \/ Same("parent", "execvp", Warning("parent"))

isatty ==
  \/ ~tty /\ Same("parent", "isatty", "pipe in")
  \/ tty /\ Same("parent", "isatty", "tcgetattr")

\* disable_stdin_buffering(): ORIG_TIO is what is found.
tcgetattr ==
  \/ Same("parent", "tcgetattr", Warning("parent"))
  \/ Same("parent", "tcgetattr", "tcsetattr")
tcsetattr ==
  \/ Same("parent", "tcsetattr", Warning("parent"))
  \/ /\ At("parent", "tcsetattr") /\ Go("parent", "pipe in")
     /\ tio' = "raw"
     /\ TIO_CHANGED' = [TIO_CHANGED EXCEPT !.parent = TRUE]
     /\ UNCHANGED <<fds, holder, tty, unlimited, faults>>

-----------------------------------------------------------------------------
(* Mplayer::start(), and the listener of the standard input behind it.     *)

\* File_holder::close(): a descriptor that is not what the holder was given is
\* a fault.
CloseHeld(table, fd) == IF fd = NoFd THEN table ELSE [table EXCEPT ![fd] = Closed]
WrongClose(table, fd, object) == IF fd # NoFd /\ table[fd] # object THEN {Fault("parent", "wrong close")} ELSE {}

\* The destructors of start(): of the ends that are the child's.
DropChildEnds ==
  LET first == CloseHeld(fds.parent, holder.child_stdout)
  IN  /\ fds' = [fds EXCEPT !.parent = CloseHeld(first, holder.child_stdin)]
      /\ faults' = faults \cup WrongClose(fds.parent, holder.child_stdout, "out.w")
                          \cup WrongClose(first, holder.child_stdin, "in.r")

\* start() throws, and the constructor of the window warns.
StartThrows(from) ==
  /\ At("parent", from) /\ Go("parent", Warning("parent"))
  /\ DropChildEnds
  /\ UNCHANGED <<holder, tty, tio, TIO_CHANGED, unlimited>>

\* Both ends of a pipe, given to their holders, if two descriptors are free.
unix_pipe(from, to, r, w, reader, writer) ==
  /\ At("parent", from) /\ Go("parent", to)
  /\ \E first, second \in Fd :
       /\ IsLowestFree(fds.parent, first)
       /\ IsLowestFree([fds.parent EXCEPT ![first] = r], second)
       /\ fds' = [fds EXCEPT !.parent[first] = r, !.parent[second] = w]
       /\ holder' = [holder EXCEPT ![reader] = first, ![writer] = second]
  /\ UNCHANGED <<tty, tio, TIO_CHANGED, unlimited, faults>>

PipeIn ==
  \/ StartThrows("pipe in")
  \/ unix_pipe("pipe in", "pipe out", "in.r", "in.w", "child_stdin", "mplayer_stdin")
PipeOut ==
  \/ StartThrows("pipe out")
  \/ unix_pipe("pipe out", "fork", "out.r", "out.w", "mplayer_stdout", "child_stdout")

unix_fork ==
  \/ StartThrows("fork")
  \/ /\ At("parent", "fork")
     /\ proc' = [parent |-> "thread", child |-> "dup stdin"]
     /\ fds' = [fds EXCEPT !.child = fds.parent]
     /\ TIO_CHANGED' = [TIO_CHANGED EXCEPT !.child = TIO_CHANGED.parent]
     /\ UNCHANGED <<holder, tty, tio, unlimited, faults>>

\* Fault in StartReturns: the writing end is left to MPlayer.
StartReturnsKeeping ==
  /\ At("parent", "thread") /\ Go("parent", "listen")
  /\ fds' = [fds EXCEPT !.parent = CloseHeld(fds.parent, holder.child_stdin)]
  /\ UNCHANGED <<holder, tty, tio, TIO_CHANGED, unlimited, faults>>

\* The thread is created, and start() returns; boost's exception is not caught,
\* which Die() stands for.
StartReturns ==
  /\ At("parent", "thread") /\ Go("parent", "listen")
  /\ DropChildEnds
  /\ UNCHANGED <<holder, tty, tio, TIO_CHANGED, unlimited>>

\* The copy of the standard input, and its two calls of fcntl().
ListenStdin ==
  \/ Same("parent", "listen", Warning("parent"))
  \/ /\ At("parent", "listen") /\ Go("parent", "loop")
     /\ \E fd \in Fd :
          /\ IsLowestFree(fds.parent, fd)
          /\ fds' = [fds EXCEPT !.parent[fd] = fds.parent[0]]
     /\ UNCHANGED <<holder, tty, tio, TIO_CHANGED, unlimited, faults>>

\* The main loop ends, or a handler warns.
LeaveLoop == Same("parent", "loop", "exit_wrap")

-----------------------------------------------------------------------------
(* The child.                                                              *)

\* A failure leaves the child's standard input the terminal, which exit_wrap()
\* then puts back although the program needs it as it is.
DupStdin ==
  \/ /\ At("child", "dup stdin") /\ Go("child", Warning("child"))
     /\ faults' = faults \cup {Fault("child", "dup2")}
     /\ UNCHANGED <<fds, holder, tty, tio, TIO_CHANGED, unlimited>>
  \/ /\ At("child", "dup stdin") /\ Go("child", "dup stdout")
     /\ fds' = [fds EXCEPT !.child[0] = fds.child[holder.child_stdin]]
     /\ UNCHANGED <<holder, tty, tio, TIO_CHANGED, unlimited, faults>>

DupStdout ==
  \/ Same("child", "dup stdout", Warning("child"))
  \/ /\ At("child", "dup stdout") /\ Go("child", "close all")
     /\ fds' = [fds EXCEPT !.child[1] = fds.child[holder.child_stdout]]
     /\ UNCHANGED <<holder, tty, tio, TIO_CHANGED, unlimited, faults>>

\* The limit is made an int: infinity is -1, and nothing is closed.
close_all_fds ==
  \/ Same("child", "close all", Warning("child"))
  \/ /\ At("child", "close all") /\ Go("child", "exec")
     /\ fds' = [fds EXCEPT !.child = [fd \in Fd |-> IF fd > 2 /\ ~unlimited THEN Closed ELSE @[fd]]]
     /\ UNCHANGED <<holder, tty, tio, TIO_CHANGED, unlimited, faults>>

unix_execvp ==
  \/ Same("child", "exec", Warning("child"))
  \/ Same("child", "exec", "mplayer")

ProgramNext ==
  \/ usage \/ ParseArguments \/ FindSubtitles \/ ExecMplayer
  \/ isatty \/ tcgetattr \/ tcsetattr
  \/ PipeIn \/ PipeOut \/ unix_fork \/ StartReturns \/ ListenStdin \/ LeaveLoop
  \/ DupStdin \/ DupStdout \/ close_all_fds \/ unix_execvp
  \/ \E p \in Process : exit_wrap(p) \/ (\E how \in {"aborted", "killed"} : Die(p, how))

ProgramSpec == ProgramInit /\ [][ProgramNext]_programVars

-----------------------------------------------------------------------------
Started == proc.parent \in {"listen", "loop"}

\* However far it got and whichever call failed, a program that ends by itself
\* leaves the terminal as it was found; only one that aborts or is killed does
\* not.  While it runs its main loop on a terminal the keys come one by one:
\* a child that ends, which has the parent's TIO_CHANGED and its exit_wrap(),
\* no longer reaches the terminal, but if the first of its calls failed.
TerminalIsPutBack ==
  /\ proc.parent \in {"exited", "mplayer"} /\ Fault("parent", "tcsetattr") \notin faults => tio = "found"
  /\ Started /\ tty /\ Fault("child", "dup2") \notin faults => tio = "raw"

\* The end of either process is seen by the other: nobody is left with the
\* writing end of the pipe the other one reads, and the ends both need are
\* there.  No descriptor is closed twice.  With an unlimited number of
\* descriptors MPlayer keeps the writing end of its own standard input.
EndsAreSeen ==
  /\ Fault("parent", "wrong close") \notin faults
  /\ Started => Held("parent") = {"in.w", "out.r"}
  /\ proc.child = "mplayer" =>
       /\ fds.child[0] = "in.r" /\ fds.child[1] = "out.w"
       /\ ~unlimited => Held("child") = {"in.r", "out.w"}
  /\ proc.child \in Ended /\ Started => \A p \in Process : "out.w" \notin Held(p)
  /\ proc.parent \in Ended /\ proc.child = "mplayer" /\ ~unlimited => "in.w" \notin Held("child")
=============================================================================
