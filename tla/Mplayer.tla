------------------------------- MODULE Mplayer -------------------------------
(***************************************************************************)
(* Mplayer_impl (src/src/mplayer.cpp): the MPlayer child process, the two   *)
(* pipes to it, the worker thread that reads its output, and the           *)
(* Glib::Dispatcher pipe through which the worker notifies the GTK thread. *)
(*                                                                         *)
(* The bytes MPlayer prints are abstracted to tokens: a member of Offsets  *)
(* is the beginning of a status line "A: <offset> V: ...", Noise is any    *)
(* other run of bytes, Eol is a '\r' or a '\n'.  MainWindow.tla composes   *)
(* this module with the GTK thread.                                        *)
(***************************************************************************)
EXTENDS Naturals, Sequences

CONSTANTS
  Offsets,      \* playback positions MPlayer can report
  Zero,         \* the position an Mplayer starts from (mplayer.cpp:120)
  Noise, Eol,   \* the tokens that carry no position
  OutCap,       \* capacity of the pipe from MPlayer's stdout, in tokens
  InCap,        \* capacity of the pipe to MPlayer's stdin, in keys
  SigCap,       \* capacity of the Dispatcher's pipe, in notifications
  LineLimit,    \* PIPE_BUF: longest unterminated line the worker accepts
  MaxTokens,    \* bound: how much MPlayer prints
  JobControl    \* whether MPlayer may be stopped and continued (Ctrl-Z, fg)

ASSUME ZeroIsOffset == Zero \in Offsets
ASSUME TokensDiffer == Noise # Eol /\ Noise \notin Offsets /\ Eol \notin Offsets
ASSUME Capacities == /\ OutCap \in Nat \ {0}
                     /\ InCap \in Nat \ {0}
                     /\ SigCap \in Nat \ {0}
                     /\ LineLimit \in Nat \ {0}
                     /\ MaxTokens \in Nat
                     /\ JobControl \in BOOLEAN

VARIABLES
  mp,        \* the MPlayer process
  stream,    \* history: everything MPlayer has printed
  outPipe,   \* mplayer_stdout: printed and not read
  inPipe,    \* mplayer_stdin: number of keys written and not read
  wpc,       \* where the worker thread is in operator()
  output,    \* the worker's buffer of read and not processed tokens
  offset,    \* current_time_offset
  sigs,      \* notifications in the Dispatcher's pipe
  stuck,     \* threads inside wait(NULL) of sigchld_handler
  exit       \* "running", or how the submplayer process has ended

workerVars == <<wpc, output, offset>>
mplayerVars == <<mp, stream, outPipe, inPipe, wpc, output, offset, sigs, stuck, exit>>

Token == Offsets \cup {Noise, Eol}
Signal == {"offset_changed", "mplayer_quit"}
Thread == {"gtk", "worker"}

MplayerTypeOK ==
  /\ mp \in {"none", "running", "stopped", "exited"}
  /\ stream \in Seq(Token)
  /\ outPipe \in Seq(Token)
  /\ inPipe \in 0..InCap
  /\ wpc \in {"none", "read", "drain", "scan", "emit", "quit", "done"}
  /\ output \in Seq(Token)
  /\ offset \in Offsets
  /\ sigs \in Seq(Signal)
  /\ stuck \in SUBSET Thread
  /\ exit \in {"running", "success", "failure"}

MplayerInit ==
  /\ mp = "none"
  /\ stream = <<>>
  /\ outPipe = <<>>
  /\ inPipe = 0
  /\ wpc = "none"
  /\ output = <<>>
  /\ offset = Zero
  /\ sigs = <<>>
  /\ stuck = {}
  /\ exit = "running"

-----------------------------------------------------------------------------
(* The MPlayer process, seen through the pipes and SIGCHLD (external).      *)

MpAlive == mp \in {"running", "stopped"}

MpPrint(tok) ==
  /\ mp = "running"
  /\ exit = "running"
  /\ Len(outPipe) < OutCap
  /\ Len(stream) < MaxTokens
  /\ stream' = Append(stream, tok)
  /\ outPipe' = Append(outPipe, tok)
  /\ UNCHANGED <<mp, inPipe, sigs, stuck, exit, workerVars>>

MpReadKey ==
  /\ mp = "running"
  /\ exit = "running"
  /\ inPipe > 0
  /\ inPipe' = inPipe - 1
  /\ UNCHANGED <<mp, stream, outPipe, sigs, stuck, exit, workerVars>>

\* MPlayer ends, or never started because execvp failed: the child's
\* MLIB_W then leaves through exit_wrap().  Its end of both pipes is
\* closed, and a thread that waits for it in sigchld_handler returns.
MpExit ==
  /\ MpAlive
  /\ exit = "running"
  /\ mp' = "exited"
  /\ stuck' = {}
  /\ UNCHANGED <<stream, outPipe, inPipe, sigs, exit, workerVars>>

-----------------------------------------------------------------------------
\* The threads a SIGCHLD can be delivered to: those that exist and do not
\* already run the handler.
Interruptible == {"gtk"} \cup (IF wpc \in {"none", "done"} THEN {} ELSE {"worker"})

\* sigchld_handler: wait(NULL) does not return before MPlayer ends, and
\* SIGCHLD also comes when MPlayer stops or continues.
sigchld_handler ==
  IF Interruptible \subseteq stuck
    THEN UNCHANGED stuck
    ELSE \E t \in Interruptible \ stuck : stuck' = stuck \cup {t}

MpStopOrCont ==
  /\ JobControl
  /\ exit = "running"
  /\ \/ mp = "running" /\ mp' = "stopped"
     \/ mp = "stopped" /\ mp' = "running"
  /\ sigchld_handler
  /\ UNCHANGED <<stream, outPipe, inPipe, sigs, exit, workerVars>>

-----------------------------------------------------------------------------
(* The worker thread.                                                      *)

WorkerRuns == exit = "running" /\ "worker" \notin stuck

\* The last act of a thread whose m::Exception is reported by MLIB_W:
\* warning_function ends the whole process.
MLIB_W == exit' = "failure"

\* Writing what was read to our own stdout can fail, and ends the program.
EchoFails ==
  /\ WorkerRuns
  /\ wpc \in {"read", "drain"}
  /\ outPipe # <<>>
  /\ MLIB_W
  /\ UNCHANGED <<mp, stream, outPipe, inPipe, sigs, stuck, workerVars>>

\* Blocking read of one byte.
WorkerRead ==
  /\ WorkerRuns
  /\ wpc = "read"
  /\ outPipe # <<>>
  /\ output' = Append(output, Head(outPipe))
  /\ outPipe' = Tail(outPipe)
  /\ wpc' = "drain"
  /\ UNCHANGED <<mp, stream, inPipe, offset, sigs, stuck, exit>>

\* End of file: the read loop is left, an unterminated line is dropped.
WorkerEof ==
  /\ WorkerRuns
  /\ wpc = "read"
  /\ outPipe = <<>>
  /\ mp = "exited"
  /\ wpc' = "quit"
  /\ UNCHANGED <<mp, stream, outPipe, inPipe, output, offset, sigs, stuck, exit>>

\* Fault in WorkerDrain: an end of file met while draining ends the thread at
\* once, and the lines read just before it are not processed.
WorkerDrainQuitsAtEof ==
  /\ WorkerRuns
  /\ wpc = "drain"
  /\ output' = output \o outPipe
  /\ outPipe' = <<>>
  /\ wpc' = IF outPipe # <<>> THEN "drain"
            ELSE IF mp = "exited" THEN "quit" ELSE "scan"
  /\ UNCHANGED <<mp, stream, inPipe, offset, sigs, stuck, exit>>

\* Non-blocking reads, until there is nothing left for now.
WorkerDrain ==
  /\ WorkerRuns
  /\ wpc = "drain"
  /\ output' = output \o outPipe
  /\ outPipe' = <<>>
  /\ wpc' = IF outPipe = <<>> THEN "scan" ELSE "drain"
  /\ UNCHANGED <<mp, stream, inPipe, offset, sigs, stuck, exit>>

\* Position of the first line delimiter of a buffer.
FirstEol(buf, i) == buf[i] = Eol /\ \A j \in 1..(i - 1) : buf[j] # Eol
HasEol(buf) == \E i \in 1..Len(buf) : buf[i] = Eol

\* process_string(): what a line sets current_time_offset to.  Only a line
\* that begins with a position matches offset_regex.
OffsetAfter(line) ==
  IF line # <<>> /\ line[1] \in Offsets THEN line[1] ELSE offset

\* Fault in ProcessLine: the new position is stored before it is compared
\* with the old one, so no change is ever noticed.
ProcessLineStoresFirst ==
  /\ WorkerRuns
  /\ wpc = "scan"
  /\ \E i \in 1..Len(output) :
       /\ FirstEol(output, i)
       /\ offset' = OffsetAfter(SubSeq(output, 1, i - 1))
       /\ output' = SubSeq(output, i + 1, Len(output))
  /\ wpc' = "scan"
  /\ UNCHANGED <<mp, stream, outPipe, inPipe, sigs, stuck, exit>>

\* One logical line: parsed, current_time_offset compared and set under the
\* mutex; a change is left to be signalled outside of it.
ProcessLine ==
  /\ WorkerRuns
  /\ wpc = "scan"
  /\ \E i \in 1..Len(output) :
       /\ FirstEol(output, i)
       /\ offset' = OffsetAfter(SubSeq(output, 1, i - 1))
       /\ output' = SubSeq(output, i + 1, Len(output))
  /\ wpc' = IF offset' # offset THEN "emit" ELSE "scan"
  /\ UNCHANGED <<mp, stream, outPipe, inPipe, sigs, stuck, exit>>

\* offset_changed_signal(): blocks while the Dispatcher's pipe is full.
EmitOffsetChanged ==
  /\ WorkerRuns
  /\ wpc = "emit"
  /\ Len(sigs) < SigCap
  /\ sigs' = Append(sigs, "offset_changed")
  /\ wpc' = "scan"
  /\ UNCHANGED <<mp, stream, outPipe, inPipe, output, offset, stuck, exit>>

\* Fault in LinesDone: the whole buffer is cleared, not just what was processed.
LinesDoneClears ==
  /\ WorkerRuns
  /\ wpc = "scan"
  /\ ~HasEol(output)
  /\ wpc' = "read"
  /\ output' = <<>>
  /\ UNCHANGED <<mp, stream, outPipe, inPipe, offset, sigs, stuck, exit>>

\* No complete line is left: read again, or give up on an endless line.
LinesDone ==
  /\ WorkerRuns
  /\ wpc = "scan"
  /\ ~HasEol(output)
  /\ IF Len(output) > LineLimit
       THEN MLIB_W /\ UNCHANGED wpc
       ELSE wpc' = "read" /\ UNCHANGED exit
  /\ UNCHANGED <<mp, stream, outPipe, inPipe, output, offset, sigs, stuck>>

\* Fault in EmitMplayerQuit: the quit notification goes ahead of the others.
EmitMplayerQuitFirst ==
  /\ WorkerRuns
  /\ wpc = "quit"
  /\ sigs' = <<"mplayer_quit">> \o sigs
  /\ wpc' = "done"
  /\ UNCHANGED <<mp, stream, outPipe, inPipe, output, offset, stuck, exit>>

\* Fault in EmitMplayerQuit: a full Dispatcher pipe drops the notification.
EmitMplayerQuitDrops ==
  /\ WorkerRuns
  /\ wpc = "quit"
  /\ sigs' = IF Len(sigs) < SigCap THEN Append(sigs, "mplayer_quit") ELSE sigs
  /\ wpc' = "done"
  /\ UNCHANGED <<mp, stream, outPipe, inPipe, output, offset, stuck, exit>>

\* mplayer_quit_signal(): the thread's last act.
EmitMplayerQuit ==
  /\ WorkerRuns
  /\ wpc = "quit"
  /\ Len(sigs) < SigCap
  /\ sigs' = Append(sigs, "mplayer_quit")
  /\ wpc' = "done"
  /\ UNCHANGED <<mp, stream, outPipe, inPipe, output, offset, stuck, exit>>

Worker ==
  \/ WorkerRead \/ WorkerEof \/ WorkerDrain \/ ProcessLine
  \/ EmitOffsetChanged \/ LinesDone \/ EmitMplayerQuit

Environment ==
  \/ \E tok \in Token : MpPrint(tok)
  \/ MpReadKey \/ MpExit \/ MpStopOrCont
-----------------------------------------------------------------------------
(* What the stream means, stated on the whole of it.                       *)

\* The positions printed at the beginning of a line that ends by token n.
StatusLines(n) ==
  {i \in 1..n : /\ stream[i] \in Offsets
                /\ i = 1 \/ stream[i - 1] = Eol
                /\ \E j \in i..n : stream[j] = Eol}

\* The last of them.
PositionIn(n) ==
  IF StatusLines(n) = {}
    THEN Zero
    ELSE stream[CHOOSE i \in StatusLines(n) : \A j \in StatusLines(n) : j <= i]

\* However the output is cut into reads, the worker loses and duplicates
\* nothing of it, and current_time_offset is the position of the last
\* complete status line among what it has processed.
FramingCorrect ==
  LET processed == Len(stream) - Len(output) - Len(outPipe)
  IN  /\ stream = SubSeq(stream, 1, processed) \o output \o outPipe
      /\ offset = PositionIn(processed)
=============================================================================
