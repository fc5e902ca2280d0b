----------------------------- MODULE MainWindow -----------------------------
(***************************************************************************)
(* Main_window (src/src/main_window.cpp): the handlers that run on the GTK *)
(* thread, one at a time, composed with the MPlayer process and the worker *)
(* thread of Mplayer.tla, and ended by main() (src/src/main.cpp).          *)
(*                                                                         *)
(* The subtitle lists are abstracted to the position they were last        *)
(* scrolled to; SubtitlesControl.tla models scroll_to() itself.            *)
(***************************************************************************)
EXTENDS Mplayer

CONSTANTS
  MaxKeys,     \* bound: keys pressed in the window and in the terminal
  ReadSize     \* size of on_stdin_data's buffer, in keys

ASSUME KeyBounds == MaxKeys \in Nat /\ ReadSize \in 1..InCap

VARIABLES
  gpc,         \* where the GTK thread is
  time,        \* on_time_offset_changed_cb's local copy of the position
  shown,       \* the position the subtitle lists were last scrolled to
  connected,   \* time_offset_changed_connection is not disconnected
  quitting,    \* Gtk::Main::quit() was called
  chunk,       \* bytes write_to_stdio() is called with
  keys,        \* keys pressed so far
  tty,         \* keys typed in the terminal and not read
  hungup,      \* the terminal, or whatever stdin is, is at end of file
  listening,   \* the Glib::IOSource on stdin is attached
  eof          \* on_stdin_data's local of that name

windowVars ==
  <<gpc, time, shown, connected, quitting, chunk, keys, tty, hungup, listening, eof>>
vars == <<mplayerVars, windowVars>>

WindowTypeOK ==
  /\ gpc \in {"start", "listen", "loop", "offset_cb", "scroll", "key", "stdin",
              "join", "ended"}
  /\ time \in Offsets
  /\ shown \in Offsets
  /\ connected \in BOOLEAN
  /\ quitting \in BOOLEAN
  /\ chunk \in Nat
  /\ keys \in 0..MaxKeys
  /\ tty \in Nat
  /\ hungup \in BOOLEAN
  /\ listening \in BOOLEAN
  /\ eof \in BOOLEAN

TypeOK == MplayerTypeOK /\ WindowTypeOK

Init ==
  /\ MplayerInit
  /\ gpc = "start"
  /\ time = Zero
  /\ shown = Zero
  /\ connected = TRUE
  /\ quitting = FALSE
  /\ chunk = 0
  /\ keys = 0
  /\ tty = 0
  /\ hungup = FALSE
  /\ listening = FALSE
  /\ eof = FALSE

GtkRuns == exit = "running" /\ "gtk" \notin stuck

-----------------------------------------------------------------------------
(* The constructor.                                                        *)

\* Mplayer_impl::start(): pipes, fork, and the worker thread.  A pipe() or
\* fork() that fails is reported by MLIB_W.
Start ==
  /\ GtkRuns
  /\ gpc = "start"
  /\ \/ /\ mp' = "running"
        /\ wpc' = "read"
        /\ gpc' = "listen"
        /\ UNCHANGED exit
     \/ /\ MLIB_W
        /\ UNCHANGED <<mp, wpc, gpc>>
  /\ UNCHANGED <<stream, outPipe, inPipe, output, offset, sigs, stuck, time,
                 shown, connected, quitting, chunk, keys, tty, hungup,
                 listening, eof>>

\* dup(), fcntl() and the IOSource on stdin, then Gtk::Main::run().
ListenStdin ==
  /\ GtkRuns
  /\ gpc = "listen"
  /\ \/ listening' = TRUE /\ gpc' = "loop" /\ UNCHANGED exit
     \/ MLIB_W /\ UNCHANGED <<gpc, listening>>
  /\ UNCHANGED <<mp, stream, outPipe, inPipe, workerVars, sigs, stuck, time,
                 shown, connected, quitting, chunk, keys, tty, hungup, eof>>

-----------------------------------------------------------------------------
(* The main loop reads one notification and runs the slots connected to     *)
(* its signal.                                                             *)

\* offset_changed_signal: on_time_offset_changed_cb, unless disconnected.
NotifiedOffset ==
  /\ GtkRuns
  /\ gpc = "loop"
  /\ sigs # <<>>
  /\ Head(sigs) = "offset_changed"
  /\ sigs' = Tail(sigs)
  /\ gpc' = IF connected THEN "offset_cb" ELSE "loop"
  /\ UNCHANGED <<mp, stream, outPipe, inPipe, workerVars, stuck, exit, time,
                 shown, connected, quitting, chunk, keys, tty, hungup,
                 listening, eof>>

\* get_current_offset(), under the mutex.
GetCurrentOffset ==
  /\ GtkRuns
  /\ gpc = "offset_cb"
  /\ time' = offset
  /\ gpc' = "scroll"
  /\ UNCHANGED <<mplayerVars, shown, connected, quitting, chunk, keys, tty,
                 hungup, listening, eof>>

\* Fault in ScrollAll: notifications that came meanwhile are taken as served.
ScrollAllCompresses ==
  /\ GtkRuns
  /\ gpc = "scroll"
  /\ shown' = time
  /\ sigs' = IF \A i \in 1..Len(sigs) : sigs[i] = "offset_changed" THEN <<>> ELSE sigs
  /\ gpc' = "loop"
  /\ UNCHANGED <<mp, stream, outPipe, inPipe, workerVars, stuck, exit, time,
                 connected, quitting, chunk, keys, tty, hungup, listening, eof>>

\* scroll_to(time) on every control.
ScrollAll ==
  /\ GtkRuns
  /\ gpc = "scroll"
  /\ shown' = time
  /\ gpc' = "loop"
  /\ UNCHANGED <<mplayerVars, time, connected, quitting, chunk, keys, tty,
                 hungup, listening, eof>>

\* mplayer_quit_signal: on_player_closed_cb calls Gtk::Main::quit().
on_player_closed_cb ==
  /\ GtkRuns
  /\ gpc = "loop"
  /\ sigs # <<>>
  /\ Head(sigs) = "mplayer_quit"
  /\ sigs' = Tail(sigs)
  /\ quitting' = TRUE
  /\ UNCHANGED <<mp, stream, outPipe, inPipe, workerVars, stuck, exit, gpc,
                 time, shown, connected, chunk, keys, tty, hungup, listening,
                 eof>>

-----------------------------------------------------------------------------
(* The other handlers.                                                     *)

on_delete_cb ==
  /\ GtkRuns
  /\ gpc = "loop"
  /\ connected
  /\ connected' = FALSE
  /\ UNCHANGED <<mplayerVars, gpc, time, shown, quitting, chunk, keys, tty,
                 hungup, listening, eof>>

\* A key pressed in the window; a closed window gets none.
on_key_press_event_cb ==
  /\ GtkRuns
  /\ gpc = "loop"
  /\ connected
  /\ keys < MaxKeys
  /\ keys' = keys + 1
  /\ chunk' = 1
  /\ gpc' = "key"
  /\ UNCHANGED <<mplayerVars, time, shown, connected, quitting, tty, hungup,
                 listening, eof>>

\* A key typed in the terminal, or the end of stdin (external).
Type ==
  /\ exit = "running"
  /\ ~hungup
  /\ \/ keys < MaxKeys /\ keys' = keys + 1 /\ tty' = tty + 1 /\ UNCHANGED hungup
     \/ hungup' = TRUE /\ UNCHANGED <<keys, tty>>
  /\ UNCHANGED <<mplayerVars, gpc, time, shown, connected, quitting, chunk,
                 listening, eof>>

\* on_stdin_data's read.  unix_read() clears errno whenever read() succeeds,
\* so eof = !errno holds after data as well as at end of file; only a read
\* that would block (the source can be woken in vain) leaves it false.
on_stdin_data ==
  /\ GtkRuns
  /\ gpc = "loop"
  /\ listening
  /\ chunk' = IF tty < ReadSize THEN tty ELSE ReadSize
  /\ tty' = tty - chunk'
  /\ eof' = (tty > 0 \/ hungup)
  /\ gpc' = "stdin"
  /\ UNCHANGED <<mplayerVars, time, shown, connected, quitting, keys, hungup,
                 listening>>

\* The tail of a handler that writes: write_to_stdio() blocks while MPlayer's
\* stdin is full and fails with EPIPE when MPlayer is gone; on_stdin_data
\* then returns !eof, and FALSE detaches the source.
write_to_stdio ==
  /\ GtkRuns
  /\ gpc \in {"key", "stdin"}
  /\ IF chunk > 0 /\ ~MpAlive
       THEN MLIB_W /\ UNCHANGED <<inPipe, gpc, listening>>
       ELSE /\ inPipe + chunk <= InCap
            /\ inPipe' = inPipe + chunk
            /\ gpc' = "loop"
            /\ listening' = (listening /\ ~eof)
            /\ UNCHANGED exit
  /\ chunk' = 0
  /\ eof' = FALSE
  /\ UNCHANGED <<mp, stream, outPipe, workerVars, sigs, stuck, time, shown,
                 connected, quitting, keys, tty, hungup>>

-----------------------------------------------------------------------------
(* The end: Gtk::Main::run() returns once the iteration that called quit()  *)
(* is over, ~Mplayer_impl joins the worker, and main() calls exit_wrap().   *)

LeaveLoop ==
  /\ GtkRuns
  /\ gpc = "loop"
  /\ quitting
  /\ gpc' = "join"
  /\ UNCHANGED <<mplayerVars, time, shown, connected, quitting, chunk, keys,
                 tty, hungup, listening, eof>>

JoinAndExit ==
  /\ GtkRuns
  /\ gpc = "join"
  /\ wpc = "done"
  /\ gpc' = "ended"
  /\ exit' = "success"
  /\ UNCHANGED <<mp, stream, outPipe, inPipe, workerVars, sigs, stuck, time,
                 shown, connected, quitting, chunk, keys, tty, hungup,
                 listening, eof>>

-----------------------------------------------------------------------------
Gtk ==
  \/ Start \/ ListenStdin
  \/ NotifiedOffset \/ GetCurrentOffset \/ ScrollAll \/ on_player_closed_cb
  \/ on_delete_cb \/ on_key_press_event_cb \/ on_stdin_data \/ write_to_stdio
  \/ LeaveLoop \/ JoinAndExit

\* The program has ended; an MPlayer that outlives it is not modelled further.
Terminated ==
  /\ exit # "running"
  /\ UNCHANGED vars

Next ==
  \/ Gtk
  \/ Type
  \/ (Worker \/ EchoFails \/ Environment) /\ UNCHANGED windowVars
  \/ Terminated

Spec == Init /\ [][Next]_vars

-----------------------------------------------------------------------------
(* Safety.                                                                 *)

\* A change of the position that the open window does not show yet is on its
\* way: the worker is about to signal it, the signal is in the Dispatcher's
\* pipe, or on_time_offset_changed_cb runs and has not read an older value.
NoLostUpdate ==
  connected /\ shown # offset =>
    \/ wpc = "emit"
    \/ \E i \in 1..Len(sigs) : sigs[i] = "offset_changed"
    \/ gpc = "offset_cb"
    \/ gpc = "scroll" /\ time = offset

\* mplayer_quit_signal overtakes no other notification and is the worker's
\* last act, so a main loop that quits leaves nothing unread, and the join
\* in ~Mplayer_impl cannot wait for a worker that waits for the GTK thread.
QuitComesLast ==
  /\ \A i \in 1..Len(sigs) :
       sigs[i] = "mplayer_quit" => i = Len(sigs) /\ wpc = "done" /\ ~quitting
  /\ quitting => sigs = <<>> /\ wpc = "done"
  /\ gpc \in {"join", "ended"} => quitting

\* End to end: when the program ends normally with its window open, the
\* subtitles stand at the last position MPlayer printed.
LastPositionShown ==
  exit = "success" /\ connected => shown = PositionIn(Len(stream))

\* The position the user sees.  The handler has taken its effect when it has
\* read the position, before it scrolls.
V == INSTANCE Viewer WITH
       reported <- offset,
       shown <- IF gpc = "scroll" THEN time ELSE shown,
       watched <- connected,
       status <- exit

\* The threads implement what the program promises its user.
ViewerSpec == V!Spec

-----------------------------------------------------------------------------
(* Liveness.  Both threads are scheduled.  The main loop dispatches every   *)
(* source that is ready in an iteration, so a notification or typed key     *)
(* is not put off for ever by other sources (SF), and Gtk::Main::run()      *)
(* ends with the iteration that called quit().  Nothing is assumed of       *)
(* MPlayer, the user or the terminal.                                      *)

Fairness ==
  /\ WF_vars(Worker /\ UNCHANGED windowVars)
  /\ WF_vars(Start) /\ WF_vars(ListenStdin)
  /\ WF_vars(GetCurrentOffset) /\ WF_vars(ScrollAll)
  /\ WF_vars(write_to_stdio) /\ WF_vars(JoinAndExit)
  /\ SF_vars(NotifiedOffset) /\ SF_vars(on_player_closed_cb)
  /\ SF_vars(on_stdin_data) /\ SF_vars(LeaveLoop)

FairSpec == Spec /\ Fairness

\* When MPlayer ends, so does the program (on_player_closed_cb).
PlayerQuitEndsProgram == mp = "exited" ~> exit # "running"

\* A changed position is eventually shown (on_time_offset_changed_cb), unless
\* the window is closed or the program ends: as long as MPlayer reads its keys
\* and no SIGCHLD handler holds a thread.
PositionIsFollowed ==
  [](stuck = {}) /\ SF_vars(MpReadKey /\ UNCHANGED windowVars) => V!Liveness

\* The same of any MPlayer.  Not so after MPlayer was stopped.
ViewerLive == V!FairSpec

\* What is typed in the terminal is read as long as stdin is open.
StdinKeysAreRead ==
  tty > 0 ~> tty = 0 \/ exit # "running"
=============================================================================
