---------------------------- MODULE Program_proofs ----------------------------
(***************************************************************************)
(* For any number of descriptors: however far the program and its child    *)
(* get, the terminal is put back, and each sees the end of the other.      *)
(***************************************************************************)
EXTENDS Program, TLAPS

Early == {"arguments", "find", "execvp", "isatty", "tcgetattr", "tcsetattr"}
Late == {"pipe in", "pipe out", "fork", "thread", "listen", "loop"}
ParentAt == Early \cup Late \cup {"exit_wrap", "mplayer"} \cup Ended
ChildAt == {"none", "dup stdin", "dup stdout", "close all", "exec", "exit_wrap", "mplayer"} \cup Ended
Open == PipeEnd \cup {Std, Closed}

(* Where the processes are, and what their variables can be.               *)
ProgramTypeOK ==
  /\ proc \in [Process -> ParentAt \cup ChildAt]
  /\ proc["parent"] \in ParentAt /\ proc["child"] \in ChildAt
  /\ fds \in [Process -> [Fd -> Open]]
  /\ holder \in [Holder -> Fd \cup {NoFd}]
  /\ tio \in {"found", "raw"}
  /\ TIO_CHANGED \in [Process -> BOOLEAN]

-----------------------------------------------------------------------------
(* The descriptors.                                                        *)

StdIntact(p) == \A fd \in Fd : fd <= 2 => fds[p][fd] = Std

\* The object is in the table of the parent under the holder's descriptor, and
\* under no other; or under none.
Holds(h, object) ==
  /\ holder[h] \in Fd /\ holder[h] > 2
  /\ \A fd \in Fd : fds["parent"][fd] = object <=> fd = holder[h]
Lacks(object) == \A fd \in Fd : fds["parent"][fd] # object
Unused(h, object) == holder[h] = NoFd /\ Lacks(object)

(* What the parent has of the pipes, from one step of start() to the next. *)
ParentInv ==
  /\ proc["parent"] \notin Ended => StdIntact("parent")
  /\ proc["parent"] \in Early \cup {"pipe in"} =>
       /\ Unused("child_stdin", "in.r") /\ Unused("mplayer_stdin", "in.w")
       /\ Unused("mplayer_stdout", "out.r") /\ Unused("child_stdout", "out.w")
  /\ proc["parent"] = "pipe out" =>
       /\ Holds("child_stdin", "in.r") /\ Holds("mplayer_stdin", "in.w")
       /\ Unused("mplayer_stdout", "out.r") /\ Unused("child_stdout", "out.w")
  /\ proc["parent"] \in {"fork", "thread"} =>
       /\ Holds("child_stdin", "in.r") /\ Holds("mplayer_stdin", "in.w")
       /\ Holds("mplayer_stdout", "out.r") /\ Holds("child_stdout", "out.w")
  /\ proc["parent"] \in {"listen", "loop"} =>
       /\ Lacks("in.r") /\ Holds("mplayer_stdin", "in.w")
       /\ Holds("mplayer_stdout", "out.r") /\ Lacks("out.w")
  /\ Fault("parent", "wrong close") \notin faults

\* The child has the object under the descriptor of the holder, which the
\* copies over 0 and 1 do not touch.
Inherits(h, object) == holder[h] \in Fd /\ holder[h] > 2 /\ fds["child"][holder[h]] = object

(* What the child has of the pipes, from one step to the next.             *)
ChildInv ==
  /\ proc["child"] # "none" => proc["parent"] \notin Early \cup {"pipe in", "pipe out", "fork"}
  /\ proc["child"] = "dup stdin" =>
       StdIntact("child") /\ Inherits("child_stdin", "in.r") /\ Inherits("child_stdout", "out.w")
  /\ proc["child"] = "dup stdout" =>
       fds["child"][0] = "in.r" /\ fds["child"][2] = Std /\ Inherits("child_stdout", "out.w")
  /\ proc["child"] \in {"close all", "exec", "mplayer"} =>
       fds["child"][0] = "in.r" /\ fds["child"][1] = "out.w" /\ fds["child"][2] = Std
  /\ proc["child"] \in {"exec", "mplayer"} /\ ~unlimited =>
       \A fd \in Fd : fd > 2 => fds["child"][fd] = Closed
  /\ proc["child"] \in Ended => fds["child"] = NoFds

(* Who would put the terminal back, and who still reaches it.              *)
TerminalInv ==
  /\ proc["parent"] \in Early \cup {"mplayer"} => ~TIO_CHANGED["parent"]
  /\ tio = "raw" => TIO_CHANGED["parent"]
  /\ proc["parent"] = "exited" /\ TIO_CHANGED["parent"] => Fault("parent", "tcsetattr") \in faults
  /\ proc["parent"] \in Late /\ tty /\ Fault("child", "dup2") \notin faults => tio = "raw"
  /\ proc["child"] = "exit_wrap" /\ fds["child"][0] = Std => Fault("child", "dup2") \in faults

IInv == ProgramTypeOK /\ ParentInv /\ ChildInv /\ TerminalInv

-----------------------------------------------------------------------------
LEMMA OfBoth ==
  ASSUME NEW S, NEW a \in S, NEW b \in S
  PROVE  [parent |-> a, child |-> b] \in [Process -> S]
BY DEF Process

LEMMA TypeHolds ==
  ASSUME IInv, [ProgramNext]_programVars
  PROVE  ProgramTypeOK'
<1> USE DEF IInv
<1>1. CASE usage \/ ParseArguments \/ FindSubtitles \/ ExecMplayer \/ isatty \/ tcgetattr
  BY <1>1 DEF usage, ParseArguments, FindSubtitles, ExecMplayer, isatty, tcgetattr, Same, At, Go, Warning,
     ProgramTypeOK, Process, ParentAt, Early, Late
<1>2. CASE tcsetattr
  BY <1>2 DEF tcsetattr, Same, At, Go, Warning, ProgramTypeOK, Process, ParentAt, Early, Late
<1>3. CASE \E p \in Process : exit_wrap(p)
  <2>1. PICK p \in Process : exit_wrap(p)
    BY <1>3
  <2>2. /\ proc' = [proc EXCEPT ![p] = "exited"]
        /\ fds' = [fds EXCEPT ![p] = NoFds]
        /\ tio' \in {tio, "found"} /\ TIO_CHANGED' \in {TIO_CHANGED, [TIO_CHANGED EXCEPT ![p] = FALSE]}
        /\ holder' = holder
    BY <2>1 DEF exit_wrap, Go
  <2>3. NoFds \in [Fd -> Open]
    BY DEF NoFds, Open
  <2>4. /\ fds' \in [Process -> [Fd -> Open]] /\ TIO_CHANGED' \in [Process -> BOOLEAN]
    BY <2>2, <2>3 DEF ProgramTypeOK
  <2>5. /\ proc' \in [Process -> ParentAt \cup ChildAt]
        /\ proc'["parent"] \in ParentAt /\ proc'["child"] \in ChildAt
    BY <2>2 DEF ProgramTypeOK, Process, ParentAt, ChildAt, Ended
  <2> QED
    BY <2>2, <2>4, <2>5 DEF ProgramTypeOK
<1>4. CASE \E p \in Process, how \in {"aborted", "killed"} : Die(p, how)
  <2>1. PICK p \in Process, how \in {"aborted", "killed"} : Die(p, how)
    BY <1>4
  <2>2. /\ proc' = [proc EXCEPT ![p] = how]
        /\ fds' = [fds EXCEPT ![p] = NoFds]
        /\ UNCHANGED <<tio, TIO_CHANGED, holder>>
    BY <2>1 DEF Die, Go
  <2>3. NoFds \in [Fd -> Open]
    BY DEF NoFds, Open
  <2>4. fds' \in [Process -> [Fd -> Open]]
    BY <2>2, <2>3 DEF ProgramTypeOK
  <2>5. /\ proc' \in [Process -> ParentAt \cup ChildAt]
        /\ proc'["parent"] \in ParentAt /\ proc'["child"] \in ChildAt
    BY <2>2 DEF ProgramTypeOK, Process, ParentAt, ChildAt, Ended
  <2> QED
    BY <2>2, <2>4, <2>5 DEF ProgramTypeOK
<1>5. ASSUME NEW from, StartThrows(from) PROVE ProgramTypeOK'
  BY <1>5 DEF StartThrows, DropChildEnds, CloseHeld, Go, Warning, ProgramTypeOK, Process, ParentAt, Open
<1>6. ASSUME NEW from, NEW to \in ParentAt, NEW r \in PipeEnd, NEW w \in PipeEnd, NEW reader \in Holder, NEW writer \in Holder,
             unix_pipe(from, to, r, w, reader, writer)
      PROVE  ProgramTypeOK'
  <2>1. PICK first \in Fd, second \in Fd :
          /\ fds' = [fds EXCEPT !["parent"][first] = r, !["parent"][second] = w]
          /\ holder' = [holder EXCEPT ![reader] = first, ![writer] = second]
    BY <1>6 DEF unix_pipe
  <2>2. fds' \in [Process -> [Fd -> Open]]
    BY <2>1 DEF ProgramTypeOK, Process, Open
  <2>3. holder' \in [Holder -> Fd \cup {NoFd}]
    BY <2>1 DEF ProgramTypeOK
  <2> QED
    BY <2>2, <2>3, <1>6 DEF unix_pipe, Go, ProgramTypeOK, Process
<1>7. CASE PipeIn \/ PipeOut
  <2>1. {"pipe out", "fork"} \subseteq ParentAt /\ {"in.r", "in.w", "out.r", "out.w"} \subseteq PipeEnd
        /\ {"child_stdin", "child_stdout", "mplayer_stdin", "mplayer_stdout"} \subseteq Holder
    BY DEF ParentAt, Late, PipeEnd, Holder
  <2> QED
    BY <1>5, <1>6, <1>7, <2>1 DEF PipeIn, PipeOut
<1>8. CASE unix_fork
  <2>1. CASE StartThrows("fork")
    BY <1>5, <2>1
  <2>2. CASE ~StartThrows("fork")
    <3>1. /\ proc' = [parent |-> "thread", child |-> "dup stdin"]
          /\ fds' = [fds EXCEPT !["child"] = fds["parent"]]
          /\ TIO_CHANGED' = [TIO_CHANGED EXCEPT !["child"] = TIO_CHANGED["parent"]]
          /\ UNCHANGED <<holder, tio>>
      BY <1>8, <2>2 DEF unix_fork
    <3>2. fds' \in [Process -> [Fd -> Open]] /\ TIO_CHANGED' \in [Process -> BOOLEAN]
      BY <3>1 DEF ProgramTypeOK, Process
    <3>3. "thread" \in ParentAt /\ "dup stdin" \in ChildAt
      BY DEF ParentAt, ChildAt, Late
    <3>4. proc' \in [Process -> ParentAt \cup ChildAt]
      <4>1. "thread" \in ParentAt \cup ChildAt /\ "dup stdin" \in ParentAt \cup ChildAt
        BY <3>3
      <4> QED
        BY <3>1, <4>1, OfBoth
    <3>5. proc'["parent"] \in ParentAt /\ proc'["child"] \in ChildAt
      BY <3>1, <3>3
    <3> QED
      BY <3>1, <3>2, <3>4, <3>5 DEF ProgramTypeOK
  <2> QED
    BY <2>1, <2>2
<1>9. CASE StartReturns
  BY <1>9 DEF StartReturns, DropChildEnds, CloseHeld, Go, ProgramTypeOK, Process, ParentAt, Late, Open
<1>10. ASSUME NEW p \in Process, NEW from, NEW to \in ParentAt \cap ChildAt, Same(p, from, to)
       PROVE  ProgramTypeOK'
  BY <1>10 DEF Same, Go, ProgramTypeOK, Process
<1>11. "exit_wrap" \in ParentAt \cap ChildAt /\ "mplayer" \in ParentAt \cap ChildAt /\ {"parent", "child"} = Process
  BY DEF ParentAt, ChildAt, Process
<1>12. CASE ListenStdin
  <2>1. CASE Same("parent", "listen", Warning("parent"))
    BY <2>1, <1>10, <1>11 DEF Warning
  <2>2. CASE ~Same("parent", "listen", Warning("parent"))
    <3>1. PICK fd \in Fd : fds' = [fds EXCEPT !["parent"][fd] = fds["parent"][0]]
      BY <2>2, <1>12 DEF ListenStdin
    <3>2. 0 \in Fd /\ "loop" \in ParentAt
      BY ProgramAssumption DEF Fd, ParentAt, Late
    <3>3. fds["parent"][0] \in Open
      BY <3>2 DEF ProgramTypeOK, Process
    <3>4. fds' \in [Process -> [Fd -> Open]]
      BY <3>1, <3>3 DEF ProgramTypeOK, Process
    <3> QED
      BY <2>2, <1>12, <3>2, <3>4 DEF ListenStdin, Go, ProgramTypeOK, Process
  <2> QED
    BY <2>1, <2>2
<1>13. CASE LeaveLoop
  BY <1>13, <1>10, <1>11 DEF LeaveLoop
<1>14. ASSUME NEW to \in ChildAt, proc' = [proc EXCEPT !["child"] = to],
              fds'["child"] \in [Fd -> Open], fds' = [fds EXCEPT !["child"] = fds'["child"]],
              UNCHANGED <<holder, tio, TIO_CHANGED>>
       PROVE  ProgramTypeOK'
  BY <1>14 DEF ProgramTypeOK, Process
<1>15. CASE DupStdin
  <2>1. fds["child"] \in [Fd -> Open]
    BY DEF ProgramTypeOK, Process
  <2>2. CASE fds' = fds
    BY <1>14, <1>15, <2>1, <2>2 DEF DupStdin, Go, Warning, ChildAt, ProgramTypeOK, Process
  <2>3. CASE fds' # fds
    <3>1. /\ proc["child"] = "dup stdin" /\ proc' = [proc EXCEPT !["child"] = "dup stdout"]
          /\ fds' = [fds EXCEPT !["child"][0] = fds["child"][holder["child_stdin"]]]
          /\ UNCHANGED <<holder, tio, TIO_CHANGED>>
      BY <1>15, <2>3 DEF DupStdin, At, Go
    <3>2. fds["child"][holder["child_stdin"]] \in Open
      BY <3>1, <2>1 DEF ChildInv, Inherits
    <3>3. fds'["child"] = [fds["child"] EXCEPT ![0] = fds["child"][holder["child_stdin"]]]
          /\ fds' = [fds EXCEPT !["child"] = fds'["child"]]
      BY <3>1 DEF ProgramTypeOK, Process
    <3>4. fds'["child"] \in [Fd -> Open] /\ "dup stdout" \in ChildAt
      BY <3>2, <3>3, <2>1 DEF ChildAt
    <3> QED
      BY <1>14, <3>1, <3>3, <3>4
  <2> QED
    BY <2>2, <2>3
<1>16. CASE DupStdout
  <2>1. fds["child"] \in [Fd -> Open]
    BY DEF ProgramTypeOK, Process
  <2>2. CASE Same("child", "dup stdout", Warning("child"))
    BY <2>2, <1>10, <1>11 DEF Warning
  <2>3. CASE ~Same("child", "dup stdout", Warning("child"))
    <3>1. /\ proc["child"] = "dup stdout" /\ proc' = [proc EXCEPT !["child"] = "close all"]
          /\ fds' = [fds EXCEPT !["child"][1] = fds["child"][holder["child_stdout"]]]
          /\ UNCHANGED <<holder, tio, TIO_CHANGED>>
      BY <1>16, <2>3 DEF DupStdout, At, Go
    <3>2. fds["child"][holder["child_stdout"]] \in Open
      BY <3>1, <2>1 DEF ChildInv, Inherits
    <3>3. fds'["child"] = [fds["child"] EXCEPT ![1] = fds["child"][holder["child_stdout"]]]
          /\ fds' = [fds EXCEPT !["child"] = fds'["child"]]
      BY <3>1 DEF ProgramTypeOK, Process
    <3>4. fds'["child"] \in [Fd -> Open] /\ "close all" \in ChildAt
      BY <3>2, <3>3, <2>1 DEF ChildAt
    <3> QED
      BY <1>14, <3>1, <3>3, <3>4
  <2> QED
    BY <2>2, <2>3
<1>17. CASE close_all_fds
  <2>1. CASE Same("child", "close all", Warning("child"))
    BY <2>1, <1>10, <1>11 DEF Warning
  <2>2. CASE ~Same("child", "close all", Warning("child"))
    <3>1. /\ proc' = [proc EXCEPT !["child"] = "exec"]
          /\ fds' = [fds EXCEPT !["child"] = [fd \in Fd |-> IF fd > 2 /\ ~unlimited THEN Closed ELSE fds["child"][fd]]]
          /\ UNCHANGED <<holder, tio, TIO_CHANGED>>
      BY <1>17, <2>2 DEF close_all_fds, Go, ProgramTypeOK, Process
    <3>2. fds'["child"] = [fd \in Fd |-> IF fd > 2 /\ ~unlimited THEN Closed ELSE fds["child"][fd]]
      BY <3>1 DEF ProgramTypeOK, Process
    <3>3. fds'["child"] \in [Fd -> Open] /\ "exec" \in ChildAt
      BY <3>2 DEF ProgramTypeOK, Process, Open, ChildAt
    <3> QED
      BY <1>14, <3>1, <3>2, <3>3
  <2> QED
    BY <2>1, <2>2
<1>18. CASE unix_execvp
  BY <1>18, <1>10, <1>11 DEF unix_execvp, Warning
<1>19. CASE UNCHANGED programVars
  BY <1>19 DEF programVars, ProgramTypeOK
<1> QED
  BY <1>1, <1>2, <1>3, <1>4, <1>7, <1>8, <1>9, <1>12, <1>13, <1>15, <1>16, <1>17, <1>18, <1>19 DEF ProgramNext

-----------------------------------------------------------------------------
(* The parent.                                                             *)

\* What unix_pipe() does to the parent: each holder has its end, and no other
\* descriptor refers to it.
Piped(from, to, r, w, reader, writer) ==
  /\ \A fd \in Fd : fd <= 2 => fds'["parent"][fd] = Std
  /\ holder'[reader] \in Fd /\ holder'[reader] > 2 /\ holder'[writer] \in Fd /\ holder'[writer] > 2
  /\ \A fd \in Fd : fds'["parent"][fd] = r <=> fd = holder'[reader]
  /\ \A fd \in Fd : fds'["parent"][fd] = w <=> fd = holder'[writer]
  /\ \A h \in Holder \ {reader, writer} : holder'[h] = holder[h]
  /\ \A object \in PipeEnd \ {r, w}, fd \in Fd : fds'["parent"][fd] = object <=> fds["parent"][fd] = object
  /\ proc["parent"] = from /\ proc' = [proc EXCEPT !["parent"] = to] /\ faults' = faults

\* It takes two free descriptors, neither of them a standard one.
LEMMA PipeMade ==
  ASSUME ProgramTypeOK, StdIntact("parent"), NEW from, NEW to,
         NEW r \in PipeEnd, NEW w \in PipeEnd, r # w,
         NEW reader \in Holder, NEW writer \in Holder, reader # writer,
         Lacks(r), Lacks(w), unix_pipe(from, to, r, w, reader, writer)
  PROVE  Piped(from, to, r, w, reader, writer)
<1>1. PICK first \in Fd, second \in Fd :
        /\ IsLowestFree(fds["parent"], first)
        /\ IsLowestFree([fds["parent"] EXCEPT ![first] = r], second)
        /\ fds' = [fds EXCEPT !["parent"][first] = r, !["parent"][second] = w]
        /\ holder' = [holder EXCEPT ![reader] = first, ![writer] = second]
  BY DEF unix_pipe
<1>2. fds["parent"] \in [Fd -> Open] /\ fds' = [fds EXCEPT !["parent"] = [fds["parent"] EXCEPT ![first] = r, ![second] = w]]
  BY <1>1 DEF ProgramTypeOK, Process
<1>3. fds'["parent"] = [fds["parent"] EXCEPT ![first] = r, ![second] = w]
  BY <1>2 DEF ProgramTypeOK, Process
<1>4. Closed \notin PipeEnd /\ Std \notin PipeEnd /\ Closed # Std
  BY DEF Closed, Std, PipeEnd
<1>5. first # second /\ fds["parent"][first] = Closed /\ fds["parent"][second] = Closed
  BY <1>1, <1>2, <1>4 DEF IsLowestFree
<1>6. first > 2 /\ second > 2
  BY <1>4, <1>5 DEF StdIntact, Fd
<1>7. \A fd \in Fd : fds'["parent"][fd] = IF fd = second THEN w ELSE IF fd = first THEN r ELSE fds["parent"][fd]
  BY <1>2, <1>3
<1>8. holder'[reader] = first /\ holder'[writer] = second
      /\ \A h \in Holder \ {reader, writer} : holder'[h] = holder[h]
  BY <1>1 DEF ProgramTypeOK
<1>9. ASSUME NEW fd \in Fd, fd <= 2 PROVE fds'["parent"][fd] = Std
  <2>1. fd # first /\ fd # second
    BY <1>6, <1>9 DEF Fd
  <2>2. fds["parent"][fd] = Std
    BY <1>9 DEF StdIntact
  <2> QED
    BY <2>1, <2>2, <1>7
<1>10. /\ \A fd \in Fd : fds'["parent"][fd] = r <=> fd = holder'[reader]
       /\ \A fd \in Fd : fds'["parent"][fd] = w <=> fd = holder'[writer]
  <2>1. \A fd \in Fd : (fds'["parent"][fd] = r <=> fd = first) /\ (fds'["parent"][fd] = w <=> fd = second)
    BY <1>5, <1>7 DEF Lacks
  <2> QED
    BY <2>1, <1>8
<1>12. holder'[reader] \in Fd /\ holder'[reader] > 2 /\ holder'[writer] \in Fd /\ holder'[writer] > 2
  BY <1>6, <1>8
<1>13. proc["parent"] = from /\ proc' = [proc EXCEPT !["parent"] = to] /\ faults' = faults
  BY DEF unix_pipe, At, Go
<1>11. ASSUME NEW object \in PipeEnd \ {r, w}, NEW fd \in Fd
       PROVE  fds'["parent"][fd] = object <=> fds["parent"][fd] = object
  BY <1>4, <1>5, <1>7
<1> QED
  BY <1>8, <1>9, <1>10, <1>11, <1>12, <1>13 DEF Piped

\* The destructors of start() close what the holders were given, once.
LEMMA DropsRightly ==
  ASSUME ProgramTypeOK, DropChildEnds,
         Unused("child_stdin", "in.r") \/ Holds("child_stdin", "in.r"),
         Unused("child_stdout", "out.w") \/ Holds("child_stdout", "out.w")
  PROVE  /\ faults' = faults
         /\ \A fd \in Fd : fds'["parent"][fd] =
              IF fd = holder["child_stdin"] \/ fd = holder["child_stdout"] THEN Closed ELSE fds["parent"][fd]
<1> DEFINE in == holder["child_stdin"]
           out == holder["child_stdout"]
           first == CloseHeld(fds["parent"], out)
<1>1. /\ fds' = [fds EXCEPT !["parent"] = CloseHeld(first, in)]
      /\ faults' = faults \cup WrongClose(fds["parent"], out, "out.w") \cup WrongClose(first, in, "in.r")
  BY DEF DropChildEnds
<1>2. fds["parent"] \in [Fd -> Open] /\ NoFd \notin Fd /\ "in.r" # "out.w"
  BY DEF ProgramTypeOK, Process, NoFd, Fd
<1>3. WrongClose(fds["parent"], out, "out.w") = {}
  BY DEF WrongClose, Unused, Holds
<1>4. first \in [Fd -> Open]
      /\ \A fd \in Fd : first[fd] = IF fd = out THEN Closed ELSE fds["parent"][fd]
  BY <1>2 DEF CloseHeld, Open
<1>5. WrongClose(first, in, "in.r") = {}
  <2>1. CASE Unused("child_stdin", "in.r")
    BY <2>1 DEF WrongClose, Unused
  <2>2. CASE Holds("child_stdin", "in.r")
    <3>1. in \in Fd /\ fds["parent"][in] = "in.r"
      BY <2>2 DEF Holds
    <3>2. in # out
      BY <3>1, <1>2 DEF Unused, Holds
    <3>3. first[in] = "in.r"
      BY <3>1, <3>2, <1>4
    <3> QED
      BY <3>3 DEF WrongClose
  <2> QED
    BY <2>1, <2>2
<1>6. faults' = faults
  BY <1>1, <1>3, <1>5
<1>7. fds'["parent"] = CloseHeld(first, in)
  BY <1>1 DEF ProgramTypeOK, Process
<1>8. ASSUME NEW fd \in Fd
      PROVE  fds'["parent"][fd] = IF fd = in \/ fd = out THEN Closed ELSE fds["parent"][fd]
  <2>1. CloseHeld(first, in)[fd] = IF fd = in THEN Closed ELSE first[fd]
    BY <1>2, <1>4 DEF CloseHeld
  <2> QED
    BY <2>1, <1>4, <1>7
<1> QED
  BY <1>6, <1>8

\* No holder has one of the standard descriptors.
LEMMA NotStandard ==
  ASSUME NEW h, NEW object, Unused(h, object) \/ Holds(h, object), NEW fd \in Fd, fd <= 2
  PROVE  fd # holder[h]
<1>1. CASE Unused(h, object)
  BY <1>1 DEF Unused, NoFd, Fd
<1>2. CASE Holds(h, object)
  <2>1. holder[h] \in Fd /\ holder[h] > 2
    BY <1>2 DEF Holds
  <2> QED
    BY <2>1 DEF Fd
<1> QED
  BY <1>1, <1>2

\* A step that leaves the parent where it is, or moves it without a call.
LEMMA ParentRests ==
  ASSUME ParentInv, holder' = holder, fds'["parent"] = fds["parent"],
         Fault("parent", "wrong close") \notin faults',
         \/ proc'["parent"] = proc["parent"]
         \/ proc["parent"] \in Early /\ proc'["parent"] \in Early \cup {"pipe in"}
         \/ proc["parent"] \notin Ended /\ proc'["parent"] \in {"exit_wrap", "mplayer"}
         \/ proc["parent"] = "fork" /\ proc'["parent"] = "thread"
  PROVE  ParentInv'
BY DEF ParentInv, StdIntact, Holds, Lacks, Unused, Early, Ended

\* One that ends it.
LEMMA ParentEnds ==
  ASSUME proc'["parent"] \in Ended, Fault("parent", "wrong close") \notin faults'
  PROVE  ParentInv'
BY DEF ParentInv, Early, Ended

LEMMA OtherFault ==
  ASSUME Fault("parent", "wrong close") \notin faults, NEW p, NEW what, what # "wrong close",
         faults' \in {faults, faults \cup {Fault(p, what)}}
  PROVE  Fault("parent", "wrong close") \notin faults'
<1>1. Fault(p, what) # Fault("parent", "wrong close")
  BY DEF Fault
<1> QED
  BY <1>1

LEMMA ParentHolds ==
  ASSUME IInv, [ProgramNext]_programVars
  PROVE  ParentInv'
<1> ProgramTypeOK /\ ParentInv /\ ChildInv
  BY DEF IInv
<1>1. CASE usage \/ ParseArguments \/ FindSubtitles \/ ExecMplayer \/ isatty \/ tcgetattr \/ tcsetattr
  <2>1. UNCHANGED <<fds, holder, faults>>
    BY <1>1 DEF usage, ParseArguments, FindSubtitles, ExecMplayer, isatty, tcgetattr, tcsetattr, Same
  <2>2. proc["parent"] \in Early /\ proc'["parent"] \in Early \cup {"pipe in", "exit_wrap", "mplayer"}
    BY <1>1 DEF usage, ParseArguments, FindSubtitles, ExecMplayer, isatty, tcgetattr, tcsetattr, Same, At, Go, Warning,
       Early, ProgramTypeOK, Process
  <2>3. Early \cap Ended = {}
    BY DEF Early, Ended
  <2>4. Fault("parent", "wrong close") \notin faults
    BY DEF ParentInv
  <2> QED
    BY <2>1, <2>2, <2>3, <2>4, ParentRests
<1>2. ASSUME NEW p \in Process, exit_wrap(p) \/ Die(p, "aborted") \/ Die(p, "killed")
      PROVE  ParentInv'
  <2>1. Fault("parent", "wrong close") \notin faults'
    <3>1. faults' \in {faults, faults \cup {Fault(p, "tcsetattr")}}
      BY <1>2 DEF exit_wrap, Die
    <3>2. Fault("parent", "wrong close") \notin faults
      BY DEF ParentInv
    <3> QED
      BY <3>1, <3>2, OtherFault
  <2>2. CASE p = "parent"
    <3>1. proc'["parent"] \in Ended
      BY <1>2, <2>2 DEF exit_wrap, Die, Go, Ended, ProgramTypeOK, Process
    <3> QED
      BY <2>1, <3>1, ParentEnds
  <2>3. CASE p = "child"
    <3>1. proc'["parent"] = proc["parent"] /\ fds'["parent"] = fds["parent"] /\ holder' = holder
      BY <1>2, <2>3 DEF exit_wrap, Die, Go, ProgramTypeOK, Process
    <3> QED
      BY <2>1, <3>1, ParentRests
  <2> QED
    BY <2>2, <2>3 DEF Process
<1>3. ASSUME NEW from \in {"pipe in", "pipe out", "fork"}, StartThrows(from)
      PROVE  ParentInv'
  <2>1. /\ DropChildEnds /\ proc["parent"] = from
        /\ proc' = [proc EXCEPT !["parent"] = "exit_wrap"] /\ holder' = holder
    BY <1>3 DEF StartThrows, At, Go, Warning
  <2>2. /\ Unused("child_stdin", "in.r") \/ Holds("child_stdin", "in.r")
        /\ Unused("child_stdout", "out.w") \/ Holds("child_stdout", "out.w")
        /\ StdIntact("parent") /\ Fault("parent", "wrong close") \notin faults
    BY <2>1 DEF ParentInv, Ended
  <2>3. /\ faults' = faults
        /\ \A fd \in Fd : fds'["parent"][fd] =
             IF fd = holder["child_stdin"] \/ fd = holder["child_stdout"] THEN Closed ELSE fds["parent"][fd]
    BY <2>1, <2>2, DropsRightly
  <2>4. \A fd \in Fd : fd <= 2 => fds'["parent"][fd] = Std
    <3>1. ASSUME NEW fd \in Fd, fd <= 2 PROVE fds'["parent"][fd] = Std
      <4>1. fd # holder["child_stdin"] /\ fd # holder["child_stdout"]
        BY <2>2, <3>1, NotStandard
      <4>3. fds["parent"][fd] = Std
        BY <2>2, <3>1 DEF StdIntact
      <4> QED
        BY <4>1, <4>3, <2>3
    <3> QED
      BY <3>1
  <2>5. proc'["parent"] = "exit_wrap"
    BY <2>1 DEF ProgramTypeOK, Process
  <2> QED
    BY <2>2, <2>3, <2>4, <2>5 DEF ParentInv, StdIntact, Early, Ended
<1>4. CASE PipeIn
  <2>1. CASE StartThrows("pipe in")
    BY <2>1, <1>3
  <2>2. CASE unix_pipe("pipe in", "pipe out", "in.r", "in.w", "child_stdin", "mplayer_stdin")
    <3>1. proc["parent"] = "pipe in"
      BY <2>2 DEF unix_pipe, At
    <3>2. /\ StdIntact("parent") /\ Lacks("in.r") /\ Lacks("in.w") /\ Fault("parent", "wrong close") \notin faults
          /\ Unused("mplayer_stdout", "out.r") /\ Unused("child_stdout", "out.w")
      BY <3>1 DEF ParentInv, Unused, Ended
    <3>3. Piped("pipe in", "pipe out", "in.r", "in.w", "child_stdin", "mplayer_stdin")
      <4>1. "in.r" \in PipeEnd /\ "in.w" \in PipeEnd /\ "child_stdin" \in Holder /\ "mplayer_stdin" \in Holder
        BY DEF PipeEnd, Holder
      <4>2. "in.r" # "in.w" /\ "child_stdin" # "mplayer_stdin" /\ "out.r" # "out.w" /\ "mplayer_stdout" # "child_stdout"
        OBVIOUS
      <4> QED
        BY <2>2, <3>2, <4>1, <4>2, PipeMade
    <3>4. Unused("mplayer_stdout", "out.r")' /\ Unused("child_stdout", "out.w")'
      <4>1. \A fd \in Fd : fds'["parent"][fd] # "out.r" /\ fds'["parent"][fd] # "out.w"
        <5>1. "out.r" \in PipeEnd \ {"in.r", "in.w"} /\ "out.w" \in PipeEnd \ {"in.r", "in.w"}
          BY DEF PipeEnd
        <5>2. \A fd \in Fd : /\ fds'["parent"][fd] = "out.r" <=> fds["parent"][fd] = "out.r"
                             /\ fds'["parent"][fd] = "out.w" <=> fds["parent"][fd] = "out.w"
          BY <3>3, <5>1 DEF Piped
        <5> QED
          BY <3>2, <5>2 DEF Unused, Lacks
      <4>2. holder'["mplayer_stdout"] = NoFd /\ holder'["child_stdout"] = NoFd
        BY <3>2, <3>3 DEF Piped, Unused, Holder
      <4> QED
        BY <4>1, <4>2 DEF Unused, Lacks
    <3>5. proc'["parent"] = "pipe out"
      BY <3>3 DEF Piped, ProgramTypeOK, Process
    <3>6. StdIntact("parent")' /\ Holds("child_stdin", "in.r")' /\ Holds("mplayer_stdin", "in.w")'
      BY <3>3 DEF Piped, StdIntact, Holds
    <3> QED
      BY <3>2, <3>3, <3>4, <3>5, <3>6 DEF Piped, ParentInv, Early, Ended
  <2> QED
    BY <1>4, <2>1, <2>2 DEF PipeIn
<1>5. CASE PipeOut
  <2>1. CASE StartThrows("pipe out")
    BY <2>1, <1>3
  <2>2. CASE unix_pipe("pipe out", "fork", "out.r", "out.w", "mplayer_stdout", "child_stdout")
    <3>1. proc["parent"] = "pipe out"
      BY <2>2 DEF unix_pipe, At
    <3>2. /\ StdIntact("parent") /\ Lacks("out.r") /\ Lacks("out.w") /\ Fault("parent", "wrong close") \notin faults
          /\ Holds("child_stdin", "in.r") /\ Holds("mplayer_stdin", "in.w")
      BY <3>1 DEF ParentInv, Unused, Ended
    <3>3. Piped("pipe out", "fork", "out.r", "out.w", "mplayer_stdout", "child_stdout")
      <4>1. "out.r" \in PipeEnd /\ "out.w" \in PipeEnd /\ "mplayer_stdout" \in Holder /\ "child_stdout" \in Holder
        BY DEF PipeEnd, Holder
      <4>2. "in.r" # "in.w" /\ "child_stdin" # "mplayer_stdin" /\ "out.r" # "out.w" /\ "mplayer_stdout" # "child_stdout"
        OBVIOUS
      <4> QED
        BY <2>2, <3>2, <4>1, <4>2, PipeMade
    <3>4. Holds("child_stdin", "in.r")' /\ Holds("mplayer_stdin", "in.w")'
      <4>1. /\ \A fd \in Fd : fds'["parent"][fd] = "in.r" <=> fds["parent"][fd] = "in.r"
            /\ \A fd \in Fd : fds'["parent"][fd] = "in.w" <=> fds["parent"][fd] = "in.w"
        BY <3>3 DEF Piped, PipeEnd
      <4>2. holder'["child_stdin"] = holder["child_stdin"] /\ holder'["mplayer_stdin"] = holder["mplayer_stdin"]
        BY <3>3 DEF Piped, Holder
      <4> QED
        BY <3>2, <4>1, <4>2 DEF Holds
    <3>5. proc'["parent"] = "fork"
      BY <3>3 DEF Piped, ProgramTypeOK, Process
    <3>6. StdIntact("parent")' /\ Holds("mplayer_stdout", "out.r")' /\ Holds("child_stdout", "out.w")'
      BY <3>3 DEF Piped, StdIntact, Holds
    <3> QED
      BY <3>2, <3>3, <3>4, <3>5, <3>6 DEF Piped, ParentInv, Early, Ended
  <2> QED
    BY <1>5, <2>1, <2>2 DEF PipeOut
<1>6. CASE unix_fork
  <2>1. CASE StartThrows("fork")
    BY <2>1, <1>3
  <2>2. CASE ~StartThrows("fork")
    <3>1. /\ proc["parent"] = "fork" /\ proc' = [parent |-> "thread", child |-> "dup stdin"]
          /\ fds' = [fds EXCEPT !["child"] = fds["parent"]] /\ holder' = holder /\ faults' = faults
      BY <1>6, <2>2 DEF unix_fork, At
    <3>3. proc'["parent"] = "thread" /\ fds'["parent"] = fds["parent"]
      BY <3>1 DEF ProgramTypeOK, Process
    <3>2. Fault("parent", "wrong close") \notin faults'
      BY <3>1 DEF ParentInv
    <3> QED
      BY <3>1, <3>2, <3>3, ParentRests
  <2> QED
    BY <2>1, <2>2
<1>7. CASE StartReturns
  <2>1. /\ DropChildEnds /\ proc["parent"] = "thread"
        /\ proc' = [proc EXCEPT !["parent"] = "listen"] /\ holder' = holder
    BY <1>7 DEF StartReturns, At, Go
  <2>2. /\ Holds("child_stdin", "in.r") /\ Holds("mplayer_stdin", "in.w")
        /\ Holds("mplayer_stdout", "out.r") /\ Holds("child_stdout", "out.w")
        /\ StdIntact("parent") /\ Fault("parent", "wrong close") \notin faults
    BY <2>1 DEF ParentInv, Ended
  <2>3. /\ faults' = faults
        /\ \A fd \in Fd : fds'["parent"][fd] =
             IF fd = holder["child_stdin"] \/ fd = holder["child_stdout"] THEN Closed ELSE fds["parent"][fd]
    BY <2>1, <2>2, DropsRightly
  <2>4. \A fd \in Fd : fd <= 2 => fds'["parent"][fd] = Std
    <3>1. ASSUME NEW fd \in Fd, fd <= 2 PROVE fds'["parent"][fd] = Std
      <4>1. fd # holder["child_stdin"] /\ fd # holder["child_stdout"]
        BY <2>2, <3>1, NotStandard
      <4>3. fds["parent"][fd] = Std
        BY <2>2, <3>1 DEF StdIntact
      <4> QED
        BY <4>1, <4>3, <2>3
    <3> QED
      BY <3>1
  <2>5. /\ \A fd \in Fd : fds'["parent"][fd] # "in.r" /\ fds'["parent"][fd] # "out.w"
        /\ \A fd \in Fd : fds'["parent"][fd] = "in.w" <=> fds["parent"][fd] = "in.w"
        /\ \A fd \in Fd : fds'["parent"][fd] = "out.r" <=> fds["parent"][fd] = "out.r"
    <3>1. \A fd \in Fd : /\ fds["parent"][fd] = "in.r" <=> fd = holder["child_stdin"]
                         /\ fds["parent"][fd] = "out.w" <=> fd = holder["child_stdout"]
      BY <2>2 DEF Holds
    <3> QED
      BY <3>1, <2>3 DEF Closed
  <2>6. Lacks("in.r")' /\ Lacks("out.w")' /\ Holds("mplayer_stdin", "in.w")' /\ Holds("mplayer_stdout", "out.r")'
    BY <2>1, <2>2, <2>5 DEF Holds, Lacks
  <2>7. proc'["parent"] = "listen"
    BY <2>1 DEF ProgramTypeOK, Process
  <2> QED
    BY <2>2, <2>3, <2>4, <2>6, <2>7 DEF ParentInv, StdIntact, Early, Ended
<1>8. CASE ListenStdin \/ LeaveLoop
  <2>1. CASE Same("parent", "listen", Warning("parent")) \/ LeaveLoop
    <3>1. /\ UNCHANGED <<fds, holder, faults>> /\ proc["parent"] \in {"listen", "loop"}
          /\ proc'["parent"] = "exit_wrap"
      BY <2>1 DEF LeaveLoop, Same, At, Go, Warning, ProgramTypeOK, Process
    <3>2. proc["parent"] \notin Ended /\ Fault("parent", "wrong close") \notin faults'
      BY <3>1 DEF Ended, ParentInv
    <3> QED
      BY <3>1, <3>2, ParentRests
  <2>2. CASE ~Same("parent", "listen", Warning("parent")) /\ ~LeaveLoop
    <3>1. /\ proc["parent"] = "listen" /\ proc' = [proc EXCEPT !["parent"] = "loop"]
          /\ UNCHANGED <<holder, faults>>
      BY <1>8, <2>2 DEF ListenStdin, At, Go
    <3>2. PICK fd \in Fd : /\ IsLowestFree(fds["parent"], fd)
                           /\ fds' = [fds EXCEPT !["parent"][fd] = fds["parent"][0]]
      BY <1>8, <2>2 DEF ListenStdin
    <3>3. /\ Lacks("in.r") /\ Lacks("out.w") /\ Holds("mplayer_stdin", "in.w") /\ Holds("mplayer_stdout", "out.r")
          /\ StdIntact("parent") /\ Fault("parent", "wrong close") \notin faults
      BY <3>1 DEF ParentInv, Ended
    <3>4. fds["parent"][0] = Std /\ fds["parent"][fd] = Closed
      <4>1. 0 \in Fd /\ 0 <= 2
        BY ProgramAssumption DEF Fd
      <4> QED
        BY <3>2, <3>3, <4>1 DEF StdIntact, IsLowestFree
    <3>5. \A other \in Fd : fds'["parent"][other] = IF other = fd THEN Std ELSE fds["parent"][other]
      BY <3>2, <3>4 DEF ProgramTypeOK, Process
    <3>6. \A object \in PipeEnd : \A other \in Fd : fds'["parent"][other] = object <=> fds["parent"][other] = object
      BY <3>4, <3>5 DEF PipeEnd, Std, Closed
    <3>7. Lacks("in.r")' /\ Lacks("out.w")' /\ Holds("mplayer_stdin", "in.w")' /\ Holds("mplayer_stdout", "out.r")'
      BY <3>1, <3>3, <3>6 DEF Lacks, Holds, PipeEnd
    <3>8. StdIntact("parent")'
      <4>1. ASSUME NEW other \in Fd, other <= 2 PROVE fds'["parent"][other] = Std
        <5>1. fds["parent"][other] = Std
          BY <3>3, <4>1 DEF StdIntact
        <5> QED
          BY <3>5, <5>1
      <4> QED
        BY <4>1 DEF StdIntact
    <3>9. proc'["parent"] = "loop"
      BY <3>1 DEF ProgramTypeOK, Process
    <3> QED
      BY <3>1, <3>3, <3>7, <3>8, <3>9 DEF ParentInv, Early, Ended
  <2> QED
    BY <2>1, <2>2
<1>9. CASE DupStdin \/ DupStdout \/ close_all_fds \/ unix_execvp
  <2>1. proc'["parent"] = proc["parent"] /\ fds'["parent"] = fds["parent"] /\ holder' = holder
    BY <1>9 DEF DupStdin, DupStdout, close_all_fds, unix_execvp, Same, Go, ProgramTypeOK, Process
  <2>2. Fault("parent", "wrong close") \notin faults'
    <3>1. faults' \in {faults, faults \cup {Fault("child", "dup2")}}
      BY <1>9 DEF DupStdin, DupStdout, close_all_fds, unix_execvp, Same
    <3>2. Fault("parent", "wrong close") \notin faults
      BY DEF ParentInv
    <3> QED
      BY <3>1, <3>2, OtherFault
  <2> QED
    BY <2>1, <2>2, ParentRests
<1>10. CASE UNCHANGED programVars
  BY <1>10, ParentRests DEF programVars, ParentInv
<1> QED
  BY <1>1, <1>2, <1>4, <1>5, <1>6, <1>7, <1>8, <1>9, <1>10 DEF ProgramNext

-----------------------------------------------------------------------------
(* The child.                                                              *)

NotForked == Early \cup {"pipe in", "pipe out", "fork"}

\* A step of the parent that does not fork.
LEMMA ChildRests ==
  ASSUME ChildInv, proc'["child"] = proc["child"],
         \/ proc["parent"] \in NotForked
         \/ /\ holder' = holder /\ fds'["child"] = fds["child"] /\ unlimited' = unlimited
            /\ proc'["parent"] \notin NotForked
  PROVE  ChildInv'
<1>1. CASE proc["child"] = "none"
  BY <1>1 DEF ChildInv, Ended
<1>2. CASE proc["child"] # "none"
  <2>1. proc["parent"] \notin NotForked
    BY <1>2 DEF ChildInv, NotForked
  <2> QED
    BY <2>1 DEF ChildInv, NotForked, StdIntact, Inherits
<1> QED
  BY <1>1, <1>2

\* One that ends the child, or makes it end.
LEMMA ChildLeaves ==
  ASSUME ChildInv, proc["child"] # "none", proc'["parent"] = proc["parent"],
         \/ proc'["child"] = "exit_wrap"
         \/ proc'["child"] \in Ended /\ fds'["child"] = NoFds
  PROVE  ChildInv'
BY DEF ChildInv, Ended

LEMMA ChildHolds ==
  ASSUME IInv, [ProgramNext]_programVars
  PROVE  ChildInv'
<1> ProgramTypeOK /\ ParentInv /\ ChildInv
  BY DEF IInv
<1>1. CASE \/ usage \/ ParseArguments \/ FindSubtitles \/ ExecMplayer \/ isatty \/ tcgetattr \/ tcsetattr
           \/ PipeIn \/ PipeOut \/ StartThrows("fork")
  <2>1. proc'["child"] = proc["child"] /\ proc["parent"] \in NotForked
    <3>1. PICK from \in NotForked, to \in ParentAt : proc["parent"] = from /\ proc' = [proc EXCEPT !["parent"] = to]
      BY <1>1 DEF usage, ParseArguments, FindSubtitles, ExecMplayer, isatty, tcgetattr, tcsetattr, PipeIn, PipeOut,
         StartThrows, unix_pipe, Same, At, Go, Warning, NotForked, Early, Late, ParentAt
    <3> QED
      BY <3>1 DEF ProgramTypeOK, Process
  <2> QED
    BY <2>1, ChildRests
<1>2. CASE StartReturns \/ ListenStdin \/ LeaveLoop
  <2>1. proc'["child"] = proc["child"] /\ proc'["parent"] \in {"listen", "loop", "exit_wrap"}
    BY <1>2 DEF StartReturns, ListenStdin, LeaveLoop, Same, Go, Warning, ProgramTypeOK, Process
  <2>2. holder' = holder /\ unlimited' = unlimited
    BY <1>2 DEF StartReturns, ListenStdin, LeaveLoop, Same
  <2>3. fds'["child"] = fds["child"]
    BY <1>2 DEF StartReturns, DropChildEnds, ListenStdin, LeaveLoop, Same, ProgramTypeOK, Process
  <2>4. proc'["parent"] \notin NotForked
    BY <2>1 DEF NotForked, Early
  <2> QED
    BY <2>1, <2>2, <2>3, <2>4, ChildRests
<1>3. ASSUME NEW p \in Process, exit_wrap(p) \/ Die(p, "aborted") \/ Die(p, "killed")
      PROVE  ChildInv'
  <2>1. PICK how \in Ended : proc' = [proc EXCEPT ![p] = how] /\ fds' = [fds EXCEPT ![p] = NoFds]
    BY <1>3 DEF exit_wrap, Die, Go, Ended
  <2>2. UNCHANGED <<holder, unlimited>>
    BY <1>3 DEF exit_wrap, Die
  <2>3. CASE p = "parent"
    <3>1. proc'["child"] = proc["child"] /\ proc'["parent"] \in Ended /\ fds'["child"] = fds["child"]
      BY <2>1, <2>3 DEF ProgramTypeOK, Process
    <3>2. proc'["parent"] \notin NotForked
      BY <3>1 DEF Ended, NotForked, Early
    <3> QED
      BY <2>2, <3>1, <3>2, ChildRests
  <2>4. CASE p = "child"
    <3>1. proc'["parent"] = proc["parent"] /\ proc'["child"] \in Ended /\ fds'["child"] = NoFds
      BY <2>1, <2>4 DEF ProgramTypeOK, Process
    <3>2. proc["child"] # "none"
      BY <1>3, <2>4 DEF exit_wrap, Die, Running, At
    <3> QED
      BY <3>1, <3>2, ChildLeaves
  <2> QED
    BY <2>3, <2>4 DEF Process
<1>4. CASE unix_fork /\ ~StartThrows("fork")
  <2>1. /\ proc["parent"] = "fork" /\ proc' = [parent |-> "thread", child |-> "dup stdin"]
        /\ fds' = [fds EXCEPT !["child"] = fds["parent"]] /\ holder' = holder
    BY <1>4 DEF unix_fork, At
  <2>2. fds'["child"] = fds["parent"]
    BY <2>1 DEF ProgramTypeOK, Process
  <2>3. StdIntact("parent") /\ Holds("child_stdin", "in.r") /\ Holds("child_stdout", "out.w")
    BY <2>1 DEF ParentInv, Ended
  <2>4. StdIntact("child")'
    BY <2>2, <2>3 DEF StdIntact
  <2>5. Inherits("child_stdin", "in.r")' /\ Inherits("child_stdout", "out.w")'
    BY <2>1, <2>2, <2>3 DEF Inherits, Holds
  <2>6. proc'["parent"] = "thread" /\ proc'["child"] = "dup stdin"
    BY <2>1
  <2> QED
    BY <2>4, <2>5, <2>6 DEF ChildInv, Early, Ended
<1>5. ASSUME NEW from \in ChildAt, from # "none", Same("child", from, Warning("child"))
      PROVE  ChildInv'
  <2>1. proc["child"] # "none" /\ proc'["parent"] = proc["parent"] /\ proc'["child"] = "exit_wrap"
    BY <1>5 DEF Same, At, Go, Warning, ProgramTypeOK, Process
  <2> QED
    BY <2>1, ChildLeaves
<1>6. CASE DupStdin
  <2>1. /\ proc["child"] = "dup stdin" /\ UNCHANGED <<holder, unlimited>>
        /\ proc["parent"] \notin NotForked
    BY <1>6 DEF DupStdin, At, ChildInv, NotForked
  <2>2. CASE Go("child", Warning("child"))
    <3>1. proc'["parent"] = proc["parent"] /\ proc'["child"] = "exit_wrap"
      BY <2>2 DEF Go, Warning, ProgramTypeOK, Process
    <3> QED
      BY <2>1, <3>1, ChildLeaves
  <2>3. CASE ~Go("child", Warning("child"))
    <3>1. /\ proc' = [proc EXCEPT !["child"] = "dup stdout"]
          /\ fds' = [fds EXCEPT !["child"][0] = fds["child"][holder["child_stdin"]]]
      BY <1>6, <2>3 DEF DupStdin, Go
    <3>2. StdIntact("child") /\ Inherits("child_stdin", "in.r") /\ Inherits("child_stdout", "out.w")
      BY <2>1 DEF ChildInv
    <3>3. 0 \in Fd /\ 2 \in Fd /\ 0 # 2 /\ 2 <= 2
      BY ProgramAssumption DEF Fd
    <3>4. \A fd \in Fd : fds'["child"][fd] = IF fd = 0 THEN "in.r" ELSE fds["child"][fd]
      BY <3>1, <3>2, <3>3 DEF ProgramTypeOK, Process, Inherits
    <3>5. fds'["child"][0] = "in.r" /\ fds'["child"][2] = Std
      <4>1. fds["child"][2] = Std
        BY <3>2, <3>3 DEF StdIntact
      <4> QED
        BY <3>3, <3>4, <4>1
    <3>6. Inherits("child_stdout", "out.w")'
      <4>1. /\ holder["child_stdout"] \in Fd /\ holder["child_stdout"] > 2
            /\ fds["child"][holder["child_stdout"]] = "out.w"
        BY <3>2 DEF Inherits
      <4>2. holder["child_stdout"] # 0
        BY <4>1 DEF Fd
      <4> QED
        BY <2>1, <3>4, <4>1, <4>2 DEF Inherits
    <3>7. proc'["parent"] = proc["parent"] /\ proc'["child"] = "dup stdout"
      BY <3>1 DEF ProgramTypeOK, Process
    <3> QED
      BY <2>1, <3>5, <3>6, <3>7 DEF ChildInv, NotForked, Ended
  <2> QED
    BY <2>2, <2>3
<1>7. CASE DupStdout
  <2>1. CASE Same("child", "dup stdout", Warning("child"))
    BY <2>1, <1>5 DEF ChildAt
  <2>2. CASE ~Same("child", "dup stdout", Warning("child"))
    <3>1. /\ proc["child"] = "dup stdout" /\ proc' = [proc EXCEPT !["child"] = "close all"]
          /\ fds' = [fds EXCEPT !["child"][1] = fds["child"][holder["child_stdout"]]]
      BY <1>7, <2>2 DEF DupStdout, At, Go
    <3>2. /\ fds["child"][0] = "in.r" /\ fds["child"][2] = Std /\ Inherits("child_stdout", "out.w")
          /\ proc["parent"] \notin NotForked
      BY <3>1 DEF ChildInv, NotForked
    <3>3. 0 \in Fd /\ 1 \in Fd /\ 2 \in Fd /\ 0 # 1 /\ 1 # 2
      BY ProgramAssumption DEF Fd
    <3>4. \A fd \in Fd : fds'["child"][fd] = IF fd = 1 THEN "out.w" ELSE fds["child"][fd]
      BY <3>1, <3>2, <3>3 DEF ProgramTypeOK, Process, Inherits
    <3>5. fds'["child"][0] = "in.r" /\ fds'["child"][1] = "out.w" /\ fds'["child"][2] = Std
      BY <3>2, <3>3, <3>4
    <3>6. proc'["parent"] = proc["parent"] /\ proc'["child"] = "close all"
      BY <3>1 DEF ProgramTypeOK, Process
    <3> QED
      BY <3>2, <3>5, <3>6 DEF ChildInv, NotForked, Ended
  <2> QED
    BY <2>1, <2>2
<1>8. CASE close_all_fds
  <2>1. CASE Same("child", "close all", Warning("child"))
    BY <2>1, <1>5 DEF ChildAt
  <2>2. CASE ~Same("child", "close all", Warning("child"))
    <3>1. /\ proc["child"] = "close all" /\ proc' = [proc EXCEPT !["child"] = "exec"] /\ unlimited' = unlimited
          /\ fds' = [fds EXCEPT !["child"] = [fd \in Fd |-> IF fd > 2 /\ ~unlimited THEN Closed ELSE fds["child"][fd]]]
      BY <1>8, <2>2 DEF close_all_fds, At, Go, ProgramTypeOK, Process
    <3>2. /\ fds["child"][0] = "in.r" /\ fds["child"][1] = "out.w" /\ fds["child"][2] = Std
          /\ proc["parent"] \notin NotForked
      BY <3>1 DEF ChildInv, NotForked
    <3>3. \A fd \in Fd : fds'["child"][fd] = IF fd > 2 /\ ~unlimited THEN Closed ELSE fds["child"][fd]
      BY <3>1 DEF ProgramTypeOK, Process
    <3>4. 0 \in Fd /\ 1 \in Fd /\ 2 \in Fd /\ ~(0 > 2) /\ ~(1 > 2) /\ ~(2 > 2)
      BY ProgramAssumption DEF Fd
    <3>5. fds'["child"][0] = "in.r" /\ fds'["child"][1] = "out.w" /\ fds'["child"][2] = Std
      BY <3>2, <3>3, <3>4
    <3>6. proc'["parent"] = proc["parent"] /\ proc'["child"] = "exec"
      BY <3>1 DEF ProgramTypeOK, Process
    <3> QED
      BY <3>1, <3>2, <3>3, <3>5, <3>6 DEF ChildInv, NotForked, Ended
  <2> QED
    BY <2>1, <2>2
<1>9. CASE unix_execvp
  <2>1. CASE Same("child", "exec", Warning("child"))
    BY <2>1, <1>5 DEF ChildAt
  <2>2. CASE Same("child", "exec", "mplayer")
    <3>1. /\ proc["child"] = "exec" /\ proc'["child"] = "mplayer" /\ proc'["parent"] = proc["parent"]
          /\ fds' = fds /\ unlimited' = unlimited
      BY <2>2 DEF Same, At, Go, ProgramTypeOK, Process
    <3>2. /\ fds["child"][0] = "in.r" /\ fds["child"][1] = "out.w" /\ fds["child"][2] = Std
          /\ proc["parent"] \notin NotForked
          /\ ~unlimited => \A fd \in Fd : fd > 2 => fds["child"][fd] = Closed
      BY <3>1 DEF ChildInv, NotForked
    <3> QED
      BY <3>1, <3>2 DEF ChildInv, NotForked, Ended
  <2> QED
    BY <1>9, <2>1, <2>2 DEF unix_execvp
<1>10. CASE UNCHANGED programVars
  BY <1>10 DEF programVars, ChildInv, StdIntact, Inherits
<1> QED
  BY <1>1, <1>2, <1>3, <1>4, <1>6, <1>7, <1>8, <1>9, <1>10 DEF ProgramNext, unix_fork

-----------------------------------------------------------------------------
(* The terminal.                                                           *)

\* A step that changes neither the attributes nor whether they are changed, of
\* a process that does not end.
LEMMA TerminalRests ==
  ASSUME TerminalInv, UNCHANGED <<tty, tio, TIO_CHANGED>>, faults \subseteq faults',
         \/ proc'["parent"] = proc["parent"]
         \/ proc["parent"] \in Early /\ proc'["parent"] \in Early \cup {"exit_wrap", "mplayer"}
         \/ proc["parent"] \in Late /\ proc'["parent"] \in Late \cup {"exit_wrap"}
         \/ proc'["parent"] \in {"aborted", "killed"},
         \/ proc'["child"] # "exit_wrap"
         \/ proc'["child"] = proc["child"] /\ fds'["child"] = fds["child"]
  PROVE  TerminalInv'
BY DEF TerminalInv, Early, Late

LEMMA TerminalHolds ==
  ASSUME IInv, [ProgramNext]_programVars
  PROVE  TerminalInv'
<1> ProgramTypeOK /\ ParentInv /\ ChildInv /\ TerminalInv
  BY DEF IInv
<1>1. CASE usage \/ ParseArguments \/ FindSubtitles \/ ExecMplayer \/ tcgetattr
  <2>1. proc["parent"] \in Early /\ proc'["parent"] \in Early \cup {"exit_wrap", "mplayer"} /\ proc'["child"] = proc["child"]
    BY <1>1 DEF usage, ParseArguments, FindSubtitles, ExecMplayer, tcgetattr, Same, At, Go, Warning,
       Early, ProgramTypeOK, Process
  <2>2. UNCHANGED <<fds, tty, tio, TIO_CHANGED, faults>>
    BY <1>1 DEF usage, ParseArguments, FindSubtitles, ExecMplayer, tcgetattr, Same
  <2> QED
    BY <2>1, <2>2, TerminalRests
<1>2. CASE isatty
  <2>1. UNCHANGED <<fds, tty, tio, TIO_CHANGED, faults>> /\ proc'["child"] = proc["child"]
    BY <1>2 DEF isatty, Same, Go, ProgramTypeOK, Process
  <2>2. proc["parent"] = "isatty" /\ (proc'["parent"] = "tcgetattr" \/ (proc'["parent"] = "pipe in" /\ ~tty))
    <3>1. CASE ~tty /\ Same("parent", "isatty", "pipe in")
      BY <3>1 DEF Same, At, Go, ProgramTypeOK, Process
    <3>2. CASE Same("parent", "isatty", "tcgetattr")
      BY <3>2 DEF Same, At, Go, ProgramTypeOK, Process
    <3> QED
      BY <1>2, <3>1, <3>2 DEF isatty
  <2> QED
    BY <2>1, <2>2 DEF TerminalInv, Early, Late
<1>3. CASE tcsetattr
  <2>1. proc["parent"] = "tcsetattr" /\ proc'["child"] = proc["child"] /\ UNCHANGED <<fds, tty, faults>>
    BY <1>3 DEF tcsetattr, Same, At, Go, ProgramTypeOK, Process
  <2>2. CASE Same("parent", "tcsetattr", Warning("parent"))
    <3>1. proc'["parent"] = "exit_wrap" /\ UNCHANGED <<tio, TIO_CHANGED>>
      BY <2>2 DEF Same, Go, Warning, ProgramTypeOK, Process
    <3> QED
      BY <2>1, <3>1, TerminalRests DEF Early
  <2>3. CASE ~Same("parent", "tcsetattr", Warning("parent"))
    <3>1. proc'["parent"] = "pipe in" /\ tio' = "raw" /\ TIO_CHANGED'["parent"] = TRUE
      BY <1>3, <2>3 DEF tcsetattr, Go, ProgramTypeOK, Process
    <3> QED
      BY <2>1, <3>1 DEF TerminalInv, Early, Late
  <2> QED
    BY <2>2, <2>3
<1>4. CASE PipeIn \/ PipeOut \/ StartThrows("fork") \/ ListenStdin \/ LeaveLoop \/ StartReturns
  <2>1. PICK from \in Late, to \in Late \cup {"exit_wrap"} :
          proc["parent"] = from /\ proc' = [proc EXCEPT !["parent"] = to]
    BY <1>4 DEF PipeIn, PipeOut, StartThrows, unix_pipe, ListenStdin, LeaveLoop, StartReturns, Same, At, Go, Warning, Late
  <2>2. proc["parent"] \in Late /\ proc'["parent"] \in Late \cup {"exit_wrap"} /\ proc'["child"] = proc["child"]
    BY <2>1 DEF ProgramTypeOK, Process
  <2>3. UNCHANGED <<tty, tio, TIO_CHANGED>> /\ faults \subseteq faults'
    BY <1>4 DEF PipeIn, PipeOut, StartThrows, DropChildEnds, unix_pipe, ListenStdin, LeaveLoop, StartReturns, Same
  <2>4. proc["child"] # "exit_wrap" \/ fds'["child"] = fds["child"]
    <3>1. CASE PipeIn \/ PipeOut
      BY <3>1 DEF PipeIn, PipeOut, StartThrows, unix_pipe, At, ChildInv
    <3>2. CASE StartThrows("fork") \/ StartReturns \/ ListenStdin \/ LeaveLoop
      BY <3>2 DEF StartThrows, StartReturns, DropChildEnds, ListenStdin, LeaveLoop, Same, ProgramTypeOK, Process
    <3> QED
      BY <1>4, <3>1, <3>2
  <2> QED
    BY <2>2, <2>3, <2>4, TerminalRests
<1>5. CASE unix_fork /\ ~StartThrows("fork")
  <2>1. /\ proc["parent"] = "fork" /\ proc' = [parent |-> "thread", child |-> "dup stdin"]
        /\ TIO_CHANGED' = [TIO_CHANGED EXCEPT !["child"] = TIO_CHANGED["parent"]]
        /\ UNCHANGED <<tty, tio, faults>>
    BY <1>5 DEF unix_fork, At
  <2>2. TIO_CHANGED'["parent"] = TIO_CHANGED["parent"]
    BY <2>1 DEF ProgramTypeOK, Process
  <2>3. proc'["parent"] = "thread" /\ proc'["child"] = "dup stdin"
    BY <2>1
  <2> QED
    BY <2>1, <2>2, <2>3 DEF TerminalInv, Early, Late
<1>6. ASSUME NEW p \in Process, NEW how \in {"aborted", "killed"}, Die(p, how)
      PROVE  TerminalInv'
  <2>1. /\ proc' = [proc EXCEPT ![p] = how] /\ fds' = [fds EXCEPT ![p] = NoFds]
        /\ UNCHANGED <<tty, tio, TIO_CHANGED, faults>>
    BY <1>6 DEF Die, Go
  <2>2. CASE p = "parent"
    <3>1. proc'["parent"] \in {"aborted", "killed"} /\ proc'["child"] = proc["child"] /\ fds'["child"] = fds["child"]
      BY <2>1, <2>2 DEF ProgramTypeOK, Process
    <3> QED
      BY <2>1, <3>1, TerminalRests
  <2>3. CASE p = "child"
    <3>1. proc'["parent"] = proc["parent"] /\ proc'["child"] # "exit_wrap"
      BY <2>1, <2>3 DEF ProgramTypeOK, Process
    <3> QED
      BY <2>1, <3>1, TerminalRests
  <2> QED
    BY <2>2, <2>3 DEF Process
<1>7. CASE exit_wrap("parent")
  <2>1. /\ proc["parent"] = "exit_wrap" /\ proc'["parent"] = "exited" /\ proc'["child"] = proc["child"]
        /\ fds'["child"] = fds["child"] /\ faults \subseteq faults'
    BY <1>7 DEF exit_wrap, At, Go, ProgramTypeOK, Process
  <2>2. CASE ~TIO_CHANGED["parent"] /\ UNCHANGED <<tio, TIO_CHANGED>>
    BY <2>1, <2>2 DEF TerminalInv, Early, Late
  <2>3. CASE tio' = "found" /\ TIO_CHANGED' = [TIO_CHANGED EXCEPT !["parent"] = FALSE]
    <3>1. TIO_CHANGED'["parent"] = FALSE
      BY <2>3 DEF ProgramTypeOK, Process
    <3> QED
      BY <2>1, <2>3, <3>1 DEF TerminalInv, Early, Late
  <2>4. CASE faults' = faults \cup {Fault("parent", "tcsetattr")} /\ UNCHANGED <<tio, TIO_CHANGED>>
    BY <2>1, <2>4 DEF TerminalInv, Early, Late
  <2> QED
    BY <1>7, <2>2, <2>3, <2>4 DEF exit_wrap
<1>8. CASE exit_wrap("child")
  <2>1. /\ proc["child"] = "exit_wrap" /\ proc'["child"] = "exited" /\ proc'["parent"] = proc["parent"]
        /\ tty' = tty /\ faults \subseteq faults'
    BY <1>8 DEF exit_wrap, At, Go, ProgramTypeOK, Process
  <2>2. CASE UNCHANGED <<tio, TIO_CHANGED>>
    BY <2>1, <2>2, TerminalRests
  <2>3. CASE /\ fds["child"][0] = Std
             /\ tio' = "found" /\ TIO_CHANGED' = [TIO_CHANGED EXCEPT !["child"] = FALSE]
    <3>1. TIO_CHANGED'["parent"] = TIO_CHANGED["parent"]
      BY <2>3 DEF ProgramTypeOK, Process
    <3>2. Fault("child", "dup2") \in faults'
      BY <2>1, <2>3 DEF TerminalInv
    <3> QED
      BY <2>1, <2>3, <3>1, <3>2 DEF TerminalInv
  <2> QED
    BY <1>8, <2>2, <2>3 DEF exit_wrap
<1>9. CASE DupStdin
  <2>1. /\ proc'["parent"] = proc["parent"] /\ UNCHANGED <<tty, tio, TIO_CHANGED>> /\ faults \subseteq faults'
    BY <1>9 DEF DupStdin, Go, ProgramTypeOK, Process
  <2>2. CASE proc'["child"] # "exit_wrap"
    BY <2>1, <2>2, TerminalRests
  <2>3. CASE proc'["child"] = "exit_wrap"
    <3>1. Fault("child", "dup2") \in faults'
      BY <1>9, <2>3 DEF DupStdin, Go, ProgramTypeOK, Process
    <3> QED
      BY <2>1, <3>1 DEF TerminalInv
  <2> QED
    BY <2>2, <2>3
<1>10. CASE DupStdout \/ close_all_fds \/ unix_execvp
  <2>1. /\ proc'["parent"] = proc["parent"] /\ UNCHANGED <<tty, tio, TIO_CHANGED, faults>>
        /\ proc["child"] \in {"dup stdout", "close all", "exec"}
    BY <1>10 DEF DupStdout, close_all_fds, unix_execvp, Same, At, Go, ProgramTypeOK, Process
  <2>2. CASE proc'["child"] # "exit_wrap"
    BY <2>1, <2>2, TerminalRests
  <2>3. CASE proc'["child"] = "exit_wrap"
    <3>1. fds'["child"] = fds["child"]
      BY <1>10, <2>3 DEF DupStdout, close_all_fds, unix_execvp, Same, Go, ProgramTypeOK, Process
    <3>2. fds["child"][0] # Std
      BY <2>1 DEF ChildInv, Std
    <3> QED
      BY <2>1, <3>1, <3>2 DEF TerminalInv
  <2> QED
    BY <2>2, <2>3
<1>11. CASE UNCHANGED programVars
  BY <1>11, TerminalRests DEF programVars
<1> QED
  BY <1>1, <1>2, <1>3, <1>4, <1>5, <1>6, <1>7, <1>8, <1>9, <1>10, <1>11 DEF ProgramNext, unix_fork, Process

-----------------------------------------------------------------------------
(* The invariant, and what it says of the program.                         *)

LEMMA InitHolds == ProgramInit => IInv
<1> SUFFICES ASSUME ProgramInit
             PROVE  IInv
  OBVIOUS
<1>1. /\ proc["parent"] = "arguments" /\ proc["child"] = "none"
      /\ fds["parent"] = [fd \in Fd |-> IF fd <= 2 THEN Std ELSE Closed] /\ fds["child"] = NoFds
      /\ holder = [h \in Holder |-> NoFd] /\ tio = "found" /\ faults = {}
      /\ TIO_CHANGED = [p \in Process |-> FALSE]
  BY DEF ProgramInit
<1>2. ProgramTypeOK
  <2>1. "arguments" \in ParentAt /\ "none" \in ChildAt
    BY DEF ParentAt, ChildAt, Early
  <2>2. "arguments" \in ParentAt \cup ChildAt /\ "none" \in ParentAt \cup ChildAt
    BY <2>1
  <2>3. proc \in [Process -> ParentAt \cup ChildAt]
    BY <2>2, OfBoth DEF ProgramInit
  <2>4. fds \in [Process -> [Fd -> Open]]
    <3>1. NoFds \in [Fd -> Open] /\ [fd \in Fd |-> IF fd <= 2 THEN Std ELSE Closed] \in [Fd -> Open]
      BY DEF NoFds, Open
    <3> QED
      BY <3>1, OfBoth DEF ProgramInit
  <2> QED
    BY <1>1, <2>1, <2>3, <2>4 DEF ProgramTypeOK
<1>3. ParentInv
  <2>1. \A fd \in Fd : fds["parent"][fd] \in {Std, Closed}
    BY <1>1
  <2>2. \A fd \in Fd : fd <= 2 => fds["parent"][fd] = Std
    BY <1>1
  <2>3. StdIntact("parent") /\ \A object \in PipeEnd : Lacks(object)
    BY <2>1, <2>2 DEF StdIntact, Lacks, PipeEnd, Std, Closed
  <2>4. \A h \in Holder : holder[h] = NoFd
    BY <1>1
  <2> QED
    BY <1>1, <2>3, <2>4 DEF ParentInv, Unused, PipeEnd, Holder
<1>4. ChildInv
  BY <1>1 DEF ChildInv, Ended
<1>5. TerminalInv
  BY <1>1 DEF TerminalInv, Early, Late, Process
<1> QED
  BY <1>2, <1>3, <1>4, <1>5 DEF IInv

LEMMA Invariant == ProgramSpec => []IInv
<1>1. IInv /\ [ProgramNext]_programVars => IInv'
  <2> SUFFICES ASSUME IInv, [ProgramNext]_programVars
               PROVE  IInv'
    OBVIOUS
  <2> QED
    BY TypeHolds, ParentHolds, ChildHolds, TerminalHolds DEF IInv
<1> QED
  BY InitHolds, <1>1, PTL DEF ProgramSpec

\* main.cpp and Mplayer::start(): the processes are where the code can be, and
\* a table of descriptors refers to the terminal, to the ends of the two pipes
\* and to nothing else.
THEOREM TypeCorrect == ProgramSpec => []ProgramTypeOK
<1>1. IInv => ProgramTypeOK
  BY DEF IInv
<1> QED
  BY Invariant, <1>1, PTL

\* rollback_stdin_tio_changes(): however far the program got and whichever call
\* failed, it leaves the terminal as it was; in the main loop the terminal is
\* raw, whatever became of the child that has a copy of TIO_CHANGED.
THEOREM PutBack == ProgramSpec => []TerminalIsPutBack
<1>1. IInv => TerminalIsPutBack
  <2> SUFFICES ASSUME IInv
               PROVE  TerminalIsPutBack
    OBVIOUS
  <2> USE DEF IInv
  <2>1. ASSUME proc["parent"] \in {"exited", "mplayer"}, Fault("parent", "tcsetattr") \notin faults
        PROVE  tio = "found"
    BY <2>1 DEF TerminalInv, ProgramTypeOK
  <2>2. ASSUME Started, tty, Fault("child", "dup2") \notin faults
        PROVE  tio = "raw"
    BY <2>2 DEF TerminalInv, Started, Late
  <2> QED
    BY <2>1, <2>2 DEF TerminalIsPutBack
<1> QED
  BY Invariant, <1>1, PTL

\* Mplayer::start(): for any number of descriptors each process has the ends of
\* the pipes it needs, nobody has the end that would hide the death of the
\* other, and no descriptor is closed twice.
THEOREM EndsSeen == ProgramSpec => []EndsAreSeen
<1>1. IInv => EndsAreSeen
  <2> SUFFICES ASSUME IInv
               PROVE  EndsAreSeen
    OBVIOUS
  <2> USE DEF IInv
  <2>1. Fault("parent", "wrong close") \notin faults
    BY DEF ParentInv
  <2>2. ASSUME Started
        PROVE  Held("parent") = {"in.w", "out.r"}
    <3>1. Lacks("in.r") /\ Holds("mplayer_stdin", "in.w") /\ Holds("mplayer_stdout", "out.r") /\ Lacks("out.w")
      BY <2>2 DEF ParentInv, Started
    <3>2. \A object \in Held("parent") : object = "in.w" \/ object = "out.r"
      BY <3>1 DEF Lacks, Held, PipeEnd
    <3>3. fds["parent"][holder["mplayer_stdin"]] = "in.w" /\ fds["parent"][holder["mplayer_stdout"]] = "out.r"
          /\ holder["mplayer_stdin"] \in Fd /\ holder["mplayer_stdout"] \in Fd
      BY <3>1 DEF Holds
    <3>4. "in.w" \in Held("parent") /\ "out.r" \in Held("parent")
      BY <3>3 DEF Held, PipeEnd
    <3> QED
      BY <3>2, <3>4
  <2>3. ASSUME proc["child"] = "mplayer"
        PROVE  /\ fds["child"][0] = "in.r" /\ fds["child"][1] = "out.w"
               /\ ~unlimited => Held("child") = {"in.r", "out.w"}
    <3>1. fds["child"][0] = "in.r" /\ fds["child"][1] = "out.w" /\ fds["child"][2] = Std
      BY <2>3 DEF ChildInv
    <3>2. ASSUME ~unlimited
          PROVE  Held("child") = {"in.r", "out.w"}
      <4>1. \A fd \in Fd : fd > 2 => fds["child"][fd] = Closed
        BY <2>3, <3>2 DEF ChildInv
      <4>2. ASSUME NEW fd \in Fd
            PROVE  fds["child"][fd] \in {"in.r", "out.w", Std, Closed}
        <5>1. fd = 0 \/ fd = 1 \/ fd = 2 \/ fd > 2
          BY ProgramAssumption DEF Fd
        <5> QED
          BY <5>1, <4>1, <3>1
      <4>3. 0 \in Fd /\ 1 \in Fd
        BY ProgramAssumption DEF Fd
      <4>4. "in.r" \in Held("child") /\ "out.w" \in Held("child")
        BY <3>1, <4>3 DEF Held, PipeEnd
      <4>5. \A object \in Held("child") : object = "in.r" \/ object = "out.w"
        BY <4>2 DEF Held, PipeEnd, Std, Closed
      <4> QED
        BY <4>4, <4>5
    <3> QED
      BY <3>1, <3>2
  <2>4. ASSUME proc["child"] \in Ended, Started
        PROVE  \A p \in Process : "out.w" \notin Held(p)
    <3>1. fds["child"] = NoFds
      BY <2>4 DEF ChildInv
    <3>2. "out.w" \notin Held("child")
      BY <3>1 DEF Held, NoFds, Closed
    <3> QED
      BY <2>2, <2>4, <3>2 DEF Process
  <2>5. ASSUME proc["parent"] \in Ended, proc["child"] = "mplayer", ~unlimited
        PROVE  "in.w" \notin Held("child")
    BY <2>3, <2>5
  <2> QED
    BY <2>1, <2>2, <2>3, <2>4, <2>5 DEF EndsAreSeen
<1> QED
  BY Invariant, <1>1, PTL
=============================================================================
