-------------------------- MODULE MainWindow_proofs --------------------------
(***************************************************************************)
(* For every set of positions, every pipe capacity and every bound, with   *)
(* and without job control: the threads of submplayer keep their types,    *)
(* lose no change of the position, deliver the end of MPlayer last, and    *)
(* implement Viewer.                                                       *)
(***************************************************************************)
EXTENDS MainWindow, SequenceTheorems, TLAPS

(* MPlayer and the worker thread keep the types of Mplayer's variables.    *)
LEMMA MplayerTyped ==
  ASSUME MplayerTypeOK, Worker \/ EchoFails \/ Environment
  PROVE  MplayerTypeOK'
<1> USE DEF MplayerTypeOK, Token, Signal, Thread
<1>1. CASE WorkerRead
  BY <1>1 DEF WorkerRead
<1>2. CASE WorkerEof
  BY <1>2 DEF WorkerEof
<1>3. CASE WorkerDrain
  BY <1>3 DEF WorkerDrain
<1>4. CASE ProcessLine
  <2>1. PICK i \in 1..Len(output) :
          /\ FirstEol(output, i)
          /\ offset' = OffsetAfter(SubSeq(output, 1, i - 1))
          /\ output' = SubSeq(output, i + 1, Len(output))
    BY <1>4 DEF ProcessLine
  <2>2. output' \in Seq(Token)
    BY <2>1, SubSeqProperties
  <2>3. offset' \in Offsets
    BY <2>1 DEF OffsetAfter
  <2> QED
    BY <1>4, <2>2, <2>3 DEF ProcessLine
<1>5. CASE EmitOffsetChanged
  BY <1>5 DEF EmitOffsetChanged
<1>6. CASE LinesDone
  BY <1>6 DEF LinesDone, MLIB_W
<1>7. CASE EmitMplayerQuit
  BY <1>7 DEF EmitMplayerQuit
<1>8. CASE EchoFails
  BY <1>8 DEF EchoFails, MLIB_W, workerVars
<1>9. CASE Environment
  <2>1. CASE \E tok \in Token : MpPrint(tok)
    BY <2>1 DEF MpPrint, workerVars
  <2>2. CASE MpReadKey
    BY <2>2, Capacities DEF MpReadKey, workerVars
  <2>3. CASE MpExit
    BY <2>3 DEF MpExit, workerVars
  <2>4. CASE MpStopOrCont
    BY <2>4 DEF MpStopOrCont, sigchld_handler, Interruptible, workerVars
  <2> QED
    BY <1>9, <2>1, <2>2, <2>3, <2>4 DEF Environment
<1> QED
  BY <1>1, <1>2, <1>3, <1>4, <1>5, <1>6, <1>7, <1>8, <1>9 DEF Worker

(* Every variable keeps its type.                                          *)
THEOREM TypeCorrect == Spec => []TypeOK
<1>1. Init => TypeOK
  <2> SUFFICES ASSUME Init
               PROVE  TypeOK
    OBVIOUS
  <2>1. MplayerTypeOK
    BY ZeroIsOffset, Capacities DEF Init, MplayerInit, MplayerTypeOK
  <2>2. WindowTypeOK
    <3>1. keys \in 0..MaxKeys /\ chunk \in Nat /\ tty \in Nat
      BY KeyBounds DEF Init
    <3>2. /\ connected \in BOOLEAN /\ quitting \in BOOLEAN
          /\ hungup \in BOOLEAN /\ listening \in BOOLEAN /\ eof \in BOOLEAN
      BY Zenon DEF Init
    <3> QED
      BY <3>1, <3>2, ZeroIsOffset DEF Init, WindowTypeOK
  <2> QED
    BY <2>1, <2>2 DEF TypeOK
<1>2. TypeOK /\ [Next]_vars => TypeOK'
  <2> SUFFICES ASSUME TypeOK, [Next]_vars
               PROVE  TypeOK'
    OBVIOUS
  <2> USE DEF TypeOK
  <2>1. CASE (Worker \/ EchoFails \/ Environment) /\ UNCHANGED windowVars
    BY <2>1, MplayerTyped DEF WindowTypeOK, windowVars
  <2>2. CASE Type
    <3>1. MplayerTypeOK'
      BY <2>2 DEF Type, MplayerTypeOK, mplayerVars
    <3>2. keys' \in 0..MaxKeys /\ tty' \in Nat
      BY <2>2, KeyBounds DEF Type, WindowTypeOK
    <3>3. hungup' \in BOOLEAN
      BY <2>2 DEF Type, WindowTypeOK
    <3> QED
      BY <2>2, <3>1, <3>2, <3>3 DEF Type, WindowTypeOK
  <2>3. CASE Gtk
    <3> USE DEF MplayerTypeOK, WindowTypeOK
    <3>1. CASE Start
      BY <3>1 DEF Start, MLIB_W
    <3>2. CASE ListenStdin
      BY <3>2 DEF ListenStdin, MLIB_W, workerVars
    <3>3. CASE NotifiedOffset
      BY <3>3 DEF NotifiedOffset, workerVars
    <3>4. CASE GetCurrentOffset
      BY <3>4 DEF GetCurrentOffset, mplayerVars
    <3>5. CASE ScrollAll
      BY <3>5 DEF ScrollAll, mplayerVars
    <3>6. CASE on_player_closed_cb
      BY <3>6 DEF on_player_closed_cb, workerVars
    <3>7. CASE on_delete_cb
      BY <3>7 DEF on_delete_cb, mplayerVars
    <3>8. CASE on_key_press_event_cb
      BY <3>8, KeyBounds DEF on_key_press_event_cb, mplayerVars
    <3>9. CASE on_stdin_data
      BY <3>9, KeyBounds, Capacities DEF on_stdin_data, mplayerVars
    <3>10. CASE write_to_stdio
      <4>1. inPipe' \in 0..InCap
        BY <3>10, Capacities DEF write_to_stdio
      <4>2. listening' \in BOOLEAN
        BY <3>10 DEF write_to_stdio
      <4> QED
        BY <3>10, <4>1, <4>2 DEF write_to_stdio, MLIB_W, workerVars
    <3>11. CASE LeaveLoop
      BY <3>11 DEF LeaveLoop, mplayerVars
    <3>12. CASE JoinAndExit
      BY <3>12 DEF JoinAndExit, workerVars
    <3> QED
      BY <2>3, <3>1, <3>2, <3>3, <3>4, <3>5, <3>6, <3>7, <3>8, <3>9, <3>10,
         <3>11, <3>12 DEF Gtk
  <2>4. CASE UNCHANGED vars
    BY <2>4 DEF vars, mplayerVars, windowVars, MplayerTypeOK, WindowTypeOK
  <2> QED
    BY <2>1, <2>2, <2>3, <2>4 DEF Next, Terminated
<1> QED
  BY <1>1, <1>2, PTL DEF Spec
-----------------------------------------------------------------------------
(* QuitComesLast is inductive once the thread is known not to exist before *)
(* Start: otherwise Start could take a worker that is done back to "read". *)
OrderInv ==
  /\ QuitComesLast
  /\ gpc = "start" => wpc = "none"

LEMMA WorkerKeepsOrder ==
  ASSUME TypeOK, OrderInv, Worker \/ EchoFails \/ Environment, UNCHANGED windowVars
  PROVE  OrderInv'
<1> USE DEF OrderInv, QuitComesLast, windowVars
<1>1. CASE UNCHANGED <<sigs, wpc>>
  BY <1>1
<1>2. CASE UNCHANGED sigs /\ wpc \notin {"none", "done"}
  BY <1>2
<1>3. CASE EmitOffsetChanged \/ EmitMplayerQuit
  <2>1. PICK s \in Signal :
          /\ sigs' = Append(sigs, s)
          /\ s = "mplayer_quit" => wpc' = "done"
          /\ wpc \in {"emit", "quit"}
    BY <1>3 DEF EmitOffsetChanged, EmitMplayerQuit, Signal
  <2>2. /\ Len(sigs') = Len(sigs) + 1
        /\ \A i \in 1..Len(sigs) : sigs'[i] = sigs[i]
        /\ sigs'[Len(sigs) + 1] = s
    BY <2>1 DEF TypeOK, MplayerTypeOK
  <2>3. \A i \in 1..Len(sigs) : sigs[i] # "mplayer_quit"
    BY <2>1
  <2>4. ~quitting /\ gpc # "start"
    BY <2>1
  <2> QED
    BY <2>1, <2>2, <2>3, <2>4 DEF TypeOK, MplayerTypeOK
<1> QED
  BY <1>1, <1>2, <1>3
     DEF Worker, EchoFails, Environment, WorkerRead, WorkerEof, WorkerDrain,
         ProcessLine, LinesDone, MpPrint, MpReadKey, MpExit, MpStopOrCont,
         workerVars

LEMMA GtkKeepsOrder ==
  ASSUME TypeOK, OrderInv, Gtk
  PROVE  OrderInv'
<1> USE DEF OrderInv, QuitComesLast
<1>1. CASE Start
  BY <1>1 DEF Start
<1>2. CASE NotifiedOffset
  <2>1. /\ Len(sigs) \in Nat \ {0}
        /\ Len(sigs') = Len(sigs) - 1
        /\ \A i \in 1..Len(sigs') : sigs'[i] = sigs[i + 1]
    BY <1>2 DEF NotifiedOffset, TypeOK, MplayerTypeOK
  <2>2. ~quitting /\ quitting' = quitting /\ wpc' = wpc
    BY <1>2 DEF NotifiedOffset, workerVars
  <2>3. gpc' \in {"loop", "offset_cb"}
    BY <1>2 DEF NotifiedOffset
  <2>4. ASSUME NEW i \in 1..Len(sigs'), sigs'[i] = "mplayer_quit"
        PROVE  i = Len(sigs') /\ wpc' = "done"
    <3>1. i + 1 \in 1..Len(sigs) /\ sigs[i + 1] = "mplayer_quit"
      BY <2>1, <2>4
    <3> QED
      BY <2>1, <2>2, <3>1
  <2> QED
    BY <2>2, <2>3, <2>4
<1>3. CASE on_player_closed_cb
  <2>1. Len(sigs) \in Nat \ {0} /\ sigs[1] = "mplayer_quit"
    BY <1>3 DEF on_player_closed_cb, TypeOK, MplayerTypeOK
  <2>2. Len(sigs) = 1 /\ wpc = "done"
    <3>1. 1 \in 1..Len(sigs)
      BY <2>1
    <3> QED
      BY <2>1, <3>1
  <2>3. sigs' = <<>>
    BY <1>3, <2>2 DEF on_player_closed_cb, TypeOK, MplayerTypeOK
  <2>4. wpc' = wpc /\ gpc' = "loop" /\ gpc = "loop" /\ quitting'
    BY <1>3 DEF on_player_closed_cb, workerVars
  <2> QED
    BY <2>2, <2>3, <2>4
<1>4. CASE LeaveLoop \/ JoinAndExit
  BY <1>4 DEF LeaveLoop, JoinAndExit, mplayerVars, workerVars
<1>5. CASE ListenStdin \/ GetCurrentOffset \/ ScrollAll \/ on_delete_cb
  BY <1>5 DEF ListenStdin, GetCurrentOffset, ScrollAll, on_delete_cb,
              mplayerVars, workerVars
<1>6. CASE on_key_press_event_cb \/ on_stdin_data \/ write_to_stdio
  BY <1>6 DEF on_key_press_event_cb, on_stdin_data, write_to_stdio,
              mplayerVars, workerVars
<1> QED
  BY <1>1, <1>2, <1>3, <1>4, <1>5, <1>6 DEF Gtk

LEMMA OrderInvariant == Spec => []OrderInv
<1>1. Init => OrderInv
  BY DEF Init, MplayerInit, OrderInv, QuitComesLast
<1>2. TypeOK /\ OrderInv /\ [Next]_vars => OrderInv'
  <2> SUFFICES ASSUME TypeOK, OrderInv, [Next]_vars
               PROVE  OrderInv'
    OBVIOUS
  <2>1. CASE (Worker \/ EchoFails \/ Environment) /\ UNCHANGED windowVars
    BY <2>1, WorkerKeepsOrder
  <2>2. CASE Gtk
    BY <2>2, GtkKeepsOrder
  <2>3. CASE Type \/ UNCHANGED vars
    BY <2>3 DEF Type, vars, mplayerVars, windowVars, OrderInv, QuitComesLast
  <2> QED
    BY <2>1, <2>2, <2>3 DEF Next, Terminated
<1> QED
  BY <1>1, <1>2, TypeCorrect, PTL DEF Spec

(* The quit notification is the last thing the worker does and the last     *)
(* thing the GTK thread reads, so the join in ~Mplayer_impl never blocks.   *)
THEOREM QuitOrder == Spec => []QuitComesLast
<1>1. OrderInv => QuitComesLast
  BY DEF OrderInv
<1> QED
  BY <1>1, OrderInvariant, PTL
-----------------------------------------------------------------------------
(* The position the user sees, as Viewer is told (definition V).           *)
Seen == IF gpc = "scroll" THEN time ELSE shown

\* A notification of a change has been or is about to be sent.
Coming == wpc = "emit" \/ \E i \in 1..Len(sigs) : sigs[i] = "offset_changed"

(* NoLostUpdate alone is not inductive: between reading the position and    *)
(* scrolling, the lists can stand by chance at the newest position while   *)
(* time is an older one, and scrolling then makes them differ.  What is    *)
(* inductive speaks of the position already read.                          *)
SeenInv ==
  /\ gpc \in {"offset_cb", "scroll"} => connected
  /\ connected /\ Seen # offset => Coming \/ gpc = "offset_cb"

LEMMA WorkerKeepsSeen ==
  ASSUME TypeOK, SeenInv, Worker \/ EchoFails \/ Environment, UNCHANGED windowVars
  PROVE  SeenInv'
<1> USE DEF SeenInv, Seen, Coming, windowVars
<1>1. CASE ProcessLine
  BY <1>1 DEF ProcessLine
<1>2. CASE EmitOffsetChanged
  <2>1. /\ Len(sigs) + 1 \in 1..Len(sigs')
        /\ sigs'[Len(sigs) + 1] = "offset_changed"
    BY <1>2 DEF EmitOffsetChanged, TypeOK, MplayerTypeOK
  <2> QED
    BY <2>1
<1>3. CASE EmitMplayerQuit
  <2>1. /\ 1..Len(sigs) \subseteq 1..Len(sigs')
        /\ \A i \in 1..Len(sigs) : sigs'[i] = sigs[i]
        /\ offset' = offset /\ wpc # "emit"
    BY <1>3 DEF EmitMplayerQuit, TypeOK, MplayerTypeOK
  <2> QED
    BY <2>1
<1>4. CASE UNCHANGED <<sigs, offset>> /\ (wpc = "emit" => wpc' = "emit")
  BY <1>4
<1> QED
  BY <1>1, <1>2, <1>3, <1>4
     DEF Worker, EchoFails, Environment, WorkerRead, WorkerEof, WorkerDrain,
         LinesDone, MpPrint, MpReadKey, MpExit, MpStopOrCont, workerVars

LEMMA GtkKeepsSeen ==
  ASSUME TypeOK, OrderInv, SeenInv, Gtk
  PROVE  SeenInv'
<1> USE DEF SeenInv, Seen, Coming
<1>1. CASE Start
  BY <1>1 DEF Start, OrderInv
<1>2. CASE NotifiedOffset
  BY <1>2 DEF NotifiedOffset, workerVars
<1>3. CASE GetCurrentOffset
  BY <1>3 DEF GetCurrentOffset, mplayerVars
<1>4. CASE ScrollAll
  BY <1>4 DEF ScrollAll, mplayerVars
<1>5. CASE on_player_closed_cb
  <2>1. \A i \in 1..Len(sigs) : sigs[i] = "offset_changed" =>
          i - 1 \in 1..Len(sigs') /\ sigs'[i - 1] = sigs[i]
    BY <1>5 DEF on_player_closed_cb, TypeOK, MplayerTypeOK
  <2> QED
    BY <1>5, <2>1 DEF on_player_closed_cb, workerVars
<1>6. CASE on_delete_cb
  BY <1>6 DEF on_delete_cb, mplayerVars
<1>7. CASE ListenStdin \/ on_key_press_event_cb \/ on_stdin_data
  BY <1>7 DEF ListenStdin, on_key_press_event_cb, on_stdin_data, mplayerVars,
              workerVars
<1>8. CASE write_to_stdio \/ LeaveLoop \/ JoinAndExit
  BY <1>8 DEF write_to_stdio, LeaveLoop, JoinAndExit, mplayerVars, workerVars
<1> QED
  BY <1>1, <1>2, <1>3, <1>4, <1>5, <1>6, <1>7, <1>8 DEF Gtk

LEMMA SeenInvariant == Spec => []SeenInv
<1>1. Init => SeenInv
  BY DEF Init, MplayerInit, SeenInv, Seen
<1>2. TypeOK /\ OrderInv /\ SeenInv /\ [Next]_vars => SeenInv'
  <2> SUFFICES ASSUME TypeOK, OrderInv, SeenInv, [Next]_vars
               PROVE  SeenInv'
    OBVIOUS
  <2>1. CASE (Worker \/ EchoFails \/ Environment) /\ UNCHANGED windowVars
    BY <2>1, WorkerKeepsSeen
  <2>2. CASE Gtk
    BY <2>2, GtkKeepsSeen
  <2>3. CASE Type \/ UNCHANGED vars
    BY <2>3 DEF Type, vars, mplayerVars, windowVars, SeenInv, Seen, Coming
  <2> QED
    BY <2>1, <2>2, <2>3 DEF Next, Terminated
<1> QED
  BY <1>1, <1>2, TypeCorrect, OrderInvariant, PTL DEF Spec

(* No change of the position is lost between the worker and the window.    *)
THEOREM NoUpdateLost == Spec => []NoLostUpdate
<1>1. SeenInv => NoLostUpdate
  BY DEF SeenInv, Seen, Coming, NoLostUpdate
<1> QED
  BY <1>1, SeenInvariant, PTL
-----------------------------------------------------------------------------
(* Every step of the threads is a step of Viewer or invisible in it.       *)
LEMMA StepImplementsViewer ==
  ASSUME TypeOK, TypeOK', OrderInv, SeenInv, [Next]_vars
  PROVE  [V!Next]_(V!vars)
<1> DEFINE seen == IF gpc = "scroll" THEN time ELSE shown
<1> USE DEF V!vars
<1>1. CASE (Worker \/ EchoFails \/ Environment) /\ UNCHANGED windowVars
  <2>1. seen' = seen /\ connected' = connected
    BY <1>1 DEF windowVars
  <2>2. CASE ProcessLine
    <3>1. V!Report
      BY <2>1, <2>2 DEF ProcessLine, WorkerRuns, V!Report, TypeOK, MplayerTypeOK
    <3> QED
      BY <3>1 DEF V!Next
  <2>3. CASE EchoFails \/ LinesDone
    <3>1. exit = "running" /\ offset' = offset /\ exit' \in {exit, "failure"}
      BY <2>3 DEF EchoFails, LinesDone, WorkerRuns, MLIB_W, workerVars
    <3> QED
      BY <2>1, <3>1 DEF V!Next, V!Fail
  <2>4. CASE UNCHANGED <<offset, exit>>
    BY <2>1, <2>4
  <2> QED
    BY <1>1, <2>2, <2>3, <2>4
       DEF Worker, Environment, WorkerRead, WorkerEof, WorkerDrain,
           EmitOffsetChanged, EmitMplayerQuit, MpPrint, MpReadKey, MpExit,
           MpStopOrCont, workerVars
<1>2. CASE GetCurrentOffset
  <2>1. V!Show
    BY <1>2 DEF GetCurrentOffset, GtkRuns, mplayerVars, SeenInv, V!Show
  <2> QED
    BY <2>1 DEF V!Next
<1>3. CASE on_delete_cb
  <2>1. V!CloseWindow
    BY <1>3 DEF on_delete_cb, GtkRuns, mplayerVars, V!CloseWindow
  <2> QED
    BY <2>1 DEF V!Next
<1>4. CASE JoinAndExit
  <2>1. sigs = <<>> /\ wpc = "done" /\ gpc = "join"
    BY <1>4 DEF JoinAndExit, OrderInv, QuitComesLast
  <2>2. connected => seen = offset
    BY <2>1 DEF SeenInv, Seen, Coming
  <2>3. V!Finish
    BY <1>4, <2>2 DEF JoinAndExit, GtkRuns, workerVars, V!Finish
  <2> QED
    BY <2>3 DEF V!Next
<1>5. CASE Start \/ ListenStdin \/ write_to_stdio
  <2>1. /\ exit = "running" /\ exit' \in {exit, "failure"}
        /\ seen' = seen /\ connected' = connected /\ offset' = offset
    BY <1>5 DEF Start, ListenStdin, write_to_stdio, GtkRuns, MLIB_W, workerVars
  <2> QED
    BY <2>1 DEF V!Next, V!Fail
<1>6. CASE NotifiedOffset \/ ScrollAll \/ on_player_closed_cb
  BY <1>6 DEF NotifiedOffset, ScrollAll, on_player_closed_cb, mplayerVars,
              workerVars
<1>7. CASE on_key_press_event_cb \/ on_stdin_data \/ LeaveLoop \/ Type
  BY <1>7 DEF on_key_press_event_cb, on_stdin_data, LeaveLoop, Type, mplayerVars
<1>8. CASE UNCHANGED vars
  BY <1>8 DEF vars, mplayerVars, windowVars
<1> QED
  BY <1>1, <1>2, <1>3, <1>4, <1>5, <1>6, <1>7, <1>8 DEF Next, Gtk, Terminated

(* The threads implement what the program promises its user: the window     *)
(* only ever moves to MPlayer's current position, and is left at the last  *)
(* one when the program ends normally.                                     *)
THEOREM ImplementsViewer == Spec => ViewerSpec
<1>1. Init => V!Init
  BY DEF Init, MplayerInit, V!Init
<1>2. TypeOK /\ TypeOK' /\ OrderInv /\ SeenInv /\ [Next]_vars => [V!Next]_(V!vars)
  BY StepImplementsViewer
<1> QED
  BY <1>1, <1>2, TypeCorrect, OrderInvariant, SeenInvariant, PTL
     DEF Spec, ViewerSpec, V!Spec
-----------------------------------------------------------------------------
(* How much of what MPlayer printed the worker has processed.              *)
Processed == Len(stream) - Len(output) - Len(outPipe)

\* The last status line of the first n tokens, if there is one.
IsLastLine(n, m) == m \in StatusLines(n) /\ \A i \in StatusLines(n) : i <= m
IsPosition(n) ==
  IF StatusLines(n) = {} THEN offset = Zero ELSE \E m \in 1..n : IsLastLine(n, m) /\ offset = stream[m]

(* FramingCorrect is not inductive: that the next line sets the position   *)
(* as it should needs that the worker stands behind an Eol, and that the   *)
(* end of the output holds no further line needs what is left when it      *)
(* reads.  Where the output is in the stream is said index by index.       *)
FrameInv ==
  /\ Processed \in Nat
  /\ \A i \in 1..Len(output) : stream[Processed + i] = output[i]
  /\ \A i \in 1..Len(outPipe) : stream[Processed + Len(output) + i] = outPipe[i]
  /\ IsPosition(Processed)
  /\ Processed = 0 \/ stream[Processed] = Eol
  /\ wpc \in {"none", "read", "quit", "done"} => ~HasEol(output)
  /\ wpc \in {"quit", "done"} => outPipe = <<>> /\ mp = "exited"

(* The CHOOSE of PositionIn picks the last status line.                    *)
LEMMA PositionKnown ==
  ASSUME NEW n \in Nat, IsPosition(n)
  PROVE  offset = PositionIn(n)
<1>1. CASE StatusLines(n) = {}
  BY <1>1 DEF IsPosition, PositionIn
<1>2. CASE StatusLines(n) # {}
  <2>1. PICK m \in 1..n : IsLastLine(n, m) /\ offset = stream[m]
    BY <1>2 DEF IsPosition
  <2>2. \A i \in StatusLines(n) : i \in Nat
    BY DEF StatusLines
  <2> DEFINE c == CHOOSE i \in StatusLines(n) : \A j \in StatusLines(n) : j <= i
  <2>3. c \in StatusLines(n) /\ \A j \in StatusLines(n) : j <= c
    BY <2>1 DEF IsLastLine
  <2> HIDE DEF c
  <2>4. m = c
    BY <2>1, <2>2, <2>3 DEF IsLastLine
  <2> QED
    BY <1>2, <2>1, <2>4 DEF PositionIn, c
<1> QED
  BY <1>1, <1>2

(* What is printed later makes no line of what was printed before.         *)
LEMMA LinesStable ==
  ASSUME NEW n \in Nat, \A i \in 1..n : stream'[i] = stream[i]
  PROVE  StatusLines(n)' = StatusLines(n)
<1>1. \A i \in 1..n : i = 1 \/ i - 1 \in 1..n
  OBVIOUS
<1>2. \A i \in 1..n : (\E j \in i..n : stream'[j] = Eol) <=> (\E j \in i..n : stream[j] = Eol)
  OBVIOUS
<1> QED
  BY <1>1, <1>2 DEF StatusLines

LEMMA PositionStable ==
  ASSUME NEW n \in Nat, \A i \in 1..n : stream'[i] = stream[i],
         IsPosition(n), offset' = offset
  PROVE  IsPosition(n)'
<1>1. StatusLines(n)' = StatusLines(n)
  BY LinesStable
<1> QED
  BY <1>1 DEF IsPosition, IsLastLine

(* Behind an Eol and up to the next one there is no status line.           *)
LEMMA NoMoreLines ==
  ASSUME NEW n \in Nat, n = 0 \/ stream[n] = Eol,
         NEW k \in Nat, \A j \in 1..k : stream[n + j] # Eol
  PROVE  StatusLines(n + k) = StatusLines(n)
<1>1. \A j \in (n + 1)..(n + k) : stream[j] # Eol
  <2> SUFFICES ASSUME NEW j \in (n + 1)..(n + k) PROVE stream[j] # Eol
    OBVIOUS
  <2>1. j - n \in 1..k /\ n + (j - n) = j
    OBVIOUS
  <2> QED
    BY <2>1
<1>2. ASSUME NEW i \in StatusLines(n + k) PROVE i \in StatusLines(n)
  <2>1. PICK j \in i..(n + k) : stream[j] = Eol
    BY <1>2 DEF StatusLines
  <2>2. i \in 1..n /\ j \in i..n
    BY <1>1, <1>2, <2>1 DEF StatusLines
  <2> QED
    BY <1>2, <2>1, <2>2 DEF StatusLines
<1>3. ASSUME NEW i \in StatusLines(n) PROVE i \in StatusLines(n + k)
  BY <1>3 DEF StatusLines
<1> QED
  BY <1>2, <1>3

(* The line that the next Eol ends is one more status line if it begins    *)
(* with a position.                                                        *)
LEMMA NextLine ==
  ASSUME NEW n \in Nat, n = 0 \/ stream[n] = Eol,
         NEW k \in Nat \ {0}, stream[n + k] = Eol,
         \A j \in 1..(k - 1) : stream[n + j] # Eol
  PROVE  StatusLines(n + k) =
           StatusLines(n) \cup (IF stream[n + 1] \in Offsets THEN {n + 1} ELSE {})
<1>1. \A j \in (n + 1)..(n + k - 1) : stream[j] # Eol
  <2> SUFFICES ASSUME NEW j \in (n + 1)..(n + k - 1) PROVE stream[j] # Eol
    OBVIOUS
  <2>1. j - n \in 1..(k - 1) /\ n + (j - n) = j
    OBVIOUS
  <2> QED
    BY <2>1
<1>2. ASSUME NEW i \in StatusLines(n + k), i <= n PROVE i \in StatusLines(n)
  BY <1>2 DEF StatusLines
<1>3. ASSUME NEW i \in StatusLines(n + k), i > n
      PROVE  i = n + 1 /\ stream[n + 1] \in Offsets
  <2>1. i \in 1..(n + k) /\ stream[i] \in Offsets /\ (i = 1 \/ stream[i - 1] = Eol)
    BY <1>3 DEF StatusLines
  <2>2. i = n + 1
    BY <1>1, <1>3, <2>1
  <2> QED
    BY <2>1, <2>2
<1>4. ASSUME NEW i \in StatusLines(n) PROVE i \in StatusLines(n + k)
  BY <1>4 DEF StatusLines
<1>5. ASSUME stream[n + 1] \in Offsets PROVE n + 1 \in StatusLines(n + k)
  BY <1>5 DEF StatusLines
<1> QED
  BY <1>2, <1>3, <1>4, <1>5 DEF StatusLines

LEMMA LineKeepsFrame ==
  ASSUME TypeOK, FrameInv, ProcessLine
  PROVE  FrameInv'
<1>0. PICK p \in Nat : p = Processed
  BY DEF FrameInv
<1>1. /\ stream \in Seq(Token) /\ output \in Seq(Token) /\ outPipe \in Seq(Token)
      /\ stream' = stream /\ outPipe' = outPipe /\ mp' = mp
      /\ wpc = "scan" /\ wpc' \in {"emit", "scan"}
  BY DEF TypeOK, MplayerTypeOK, ProcessLine
<1>2. PICK i \in 1..Len(output) :
        /\ FirstEol(output, i)
        /\ offset' = OffsetAfter(SubSeq(output, 1, i - 1))
        /\ output' = SubSeq(output, i + 1, Len(output))
  BY DEF ProcessLine
<1>3. /\ p \in Nat /\ p + Len(output) + Len(outPipe) = Len(stream)
      /\ Len(output) \in Nat /\ Len(outPipe) \in Nat /\ Len(stream) \in Nat
  BY <1>0, <1>1 DEF Processed
<1>4. /\ Len(output') = Len(output) - i
      /\ \A j \in 1..Len(output') : output'[j] = output[i + j]
  BY <1>1, <1>2, <1>3
<1>5. Processed' = p + i
  BY <1>0, <1>1, <1>3, <1>4 DEF Processed
<1>6. \A j \in 1..Len(output') : stream'[Processed' + j] = output'[j]
  <2> SUFFICES ASSUME NEW j \in 1..Len(output')
               PROVE  stream[p + i + j] = output[i + j]
    BY <1>1, <1>4, <1>5
  <2>1. i + j \in 1..Len(output) /\ p + i + j = p + (i + j)
    BY <1>3, <1>4
  <2> QED
    BY <1>0, <2>1 DEF FrameInv
<1>7. \A j \in 1..Len(outPipe') : stream'[Processed' + Len(output') + j] = outPipe'[j]
  <2>1. Processed' + Len(output') = p + Len(output)
    BY <1>3, <1>4, <1>5
  <2> QED
    BY <1>0, <1>1, <2>1 DEF FrameInv
<1>8. stream[p + i] = Eol /\ \A j \in 1..(i - 1) : stream[p + j] # Eol
  <2>1. \A j \in 1..Len(output) : stream[p + j] = output[j]
    BY <1>0 DEF FrameInv
  <2>2. \A j \in 1..(i - 1) : j \in 1..Len(output)
    BY <1>3
  <2> QED
    BY <1>2, <2>1, <2>2 DEF FirstEol
<1>9. StatusLines(p + i) =
        StatusLines(p) \cup (IF stream[p + 1] \in Offsets THEN {p + 1} ELSE {})
  <2>1. p = 0 \/ stream[p] = Eol
    BY <1>0 DEF FrameInv
  <2>2. i \in Nat \ {0}
    BY <1>3
  <2> QED
    BY <1>8, <2>1, <2>2, NextLine
<1>10. offset' = IF stream[p + 1] \in Offsets THEN stream[p + 1] ELSE offset
  <2>1. stream[p + 1] = output[1]
    <3>1. \A j \in 1..Len(output) : stream[p + j] = output[j]
      BY <1>0 DEF FrameInv
    <3>2. 1 \in 1..Len(output)
      BY <1>3
    <3> QED
      BY <3>1, <3>2
  <2>2. CASE i = 1
    BY <1>2, <2>1, <2>2, TokensDiffer DEF FirstEol, OffsetAfter
  <2>3. CASE i > 1
    <3>1. SubSeq(output, 1, i - 1) # <<>> /\ SubSeq(output, 1, i - 1)[1] = output[1]
      BY <1>1, <2>3
    <3> QED
      BY <1>2, <2>1, <3>1 DEF OffsetAfter
  <2> QED
    BY <2>2, <2>3
<1>11. IsPosition(Processed)'
  <2>1. StatusLines(p + i)' = StatusLines(p + i)
    BY <1>1, <1>3, LinesStable
  <2>2. IsPosition(p) /\ \A m \in StatusLines(p) : m \in 1..p
    BY <1>0 DEF FrameInv, StatusLines
  <2>3. CASE stream[p + 1] \in Offsets
    <3>1. IsLastLine(p + i, p + 1) /\ StatusLines(p + i) # {}
      BY <1>3, <1>9, <2>2, <2>3 DEF IsLastLine
    <3>2. p + 1 \in 1..(p + i) /\ offset' = stream'[p + 1]
      BY <1>1, <1>3, <1>10, <2>3
    <3> QED
      BY <1>5, <2>1, <3>1, <3>2 DEF IsPosition, IsLastLine
  <2>4. CASE stream[p + 1] \notin Offsets
    <3>1. StatusLines(p + i) = StatusLines(p) /\ offset' = offset
      BY <1>9, <1>10, <2>4
    <3>2. 1..p \subseteq 1..(p + i)
      BY <1>3
    <3> QED
      BY <1>1, <1>5, <2>1, <2>2, <3>1, <3>2 DEF IsPosition, IsLastLine
  <2> QED
    BY <2>3, <2>4
<1> QED
  BY <1>1, <1>3, <1>5, <1>6, <1>7, <1>8, <1>11 DEF FrameInv

(* FrameInv with the number of processed tokens named.                     *)
FrameAt(p) ==
  /\ p + Len(output) + Len(outPipe) = Len(stream)
  /\ \A i \in 1..Len(output) : stream[p + i] = output[i]
  /\ \A i \in 1..Len(outPipe) : stream[p + Len(output) + i] = outPipe[i]
  /\ IsPosition(p)
  /\ p = 0 \/ stream[p] = Eol

LEMMA FrameNamed ==
  ASSUME TypeOK, FrameInv
  PROVE  \E p \in Nat : p = Processed /\ FrameAt(p)
<1>1. stream \in Seq(Token) /\ output \in Seq(Token) /\ outPipe \in Seq(Token)
  BY DEF TypeOK, MplayerTypeOK
<1>2. PICK p \in Nat : p = Processed
  BY DEF FrameInv
<1>3. p + Len(output) + Len(outPipe) = Len(stream)
  BY <1>1, <1>2 DEF Processed
<1>4. FrameAt(p)
  BY <1>2, <1>3 DEF FrameInv, FrameAt
<1> QED
  BY <1>2, <1>4

LEMMA FrameFound ==
  ASSUME TypeOK', NEW p \in Nat, FrameAt(p)',
         wpc' \in {"none", "read", "quit", "done"} => ~HasEol(output)',
         wpc' \in {"quit", "done"} => outPipe' = <<>> /\ mp' = "exited"
  PROVE  FrameInv'
<1>1. p = Processed'
  BY DEF FrameAt, Processed, TypeOK, MplayerTypeOK
<1> QED
  BY <1>1 DEF FrameAt, FrameInv

LEMMA MplayerKeepsFrame ==
  ASSUME TypeOK, TypeOK', FrameInv, Worker \/ EchoFails \/ Environment
  PROVE  FrameInv'
<1>1. PICK p \in Nat : p = Processed /\ FrameAt(p)
  BY FrameNamed
<1>2. /\ stream \in Seq(Token) /\ output \in Seq(Token) /\ outPipe \in Seq(Token)
      /\ p + Len(output) + Len(outPipe) = Len(stream)
      /\ Len(output) \in Nat /\ Len(outPipe) \in Nat /\ Len(stream) \in Nat
  BY <1>1 DEF TypeOK, MplayerTypeOK, FrameAt
<1>3. ASSUME \A i \in 1..p : stream'[i] = stream[i], offset' = offset
      PROVE  IsPosition(p)'
  BY <1>1, <1>3, PositionStable DEF FrameAt
<1>4. ASSUME NEW tok \in Token, MpPrint(tok) PROVE FrameInv'
  <2>1. /\ Len(stream') = Len(stream) + 1 /\ Len(outPipe') = Len(outPipe) + 1
        /\ output' = output /\ wpc' = wpc /\ offset' = offset /\ mp = "running"
        /\ \A i \in 1..Len(stream) : stream'[i] = stream[i]
        /\ \A i \in 1..Len(outPipe) : outPipe'[i] = outPipe[i]
        /\ stream'[Len(stream) + 1] = tok /\ outPipe'[Len(outPipe) + 1] = tok
    BY <1>2, <1>4 DEF MpPrint, workerVars
  <2>2. ASSUME NEW i \in 1..Len(output') PROVE stream'[p + i] = output'[i]
    <3>1. i \in 1..Len(output) /\ p + i \in 1..Len(stream)
      BY <1>2, <2>1
    <3> QED
      BY <1>1, <2>1, <3>1 DEF FrameAt
  <2>3. ASSUME NEW i \in 1..Len(outPipe') PROVE stream'[p + Len(output') + i] = outPipe'[i]
    <3>1. CASE i \in 1..Len(outPipe)
      <4>1. p + Len(output) + i \in 1..Len(stream)
        BY <1>2, <3>1
      <4> QED
        BY <1>1, <2>1, <3>1, <4>1 DEF FrameAt
    <3>2. CASE i = Len(outPipe) + 1
      BY <1>2, <2>1, <3>2
    <3> QED
      BY <1>2, <2>1, <3>1, <3>2
  <2>4. IsPosition(p)'
    BY <1>2, <1>3, <2>1
  <2>5. p = 0 \/ stream'[p] = Eol
    <3>1. p = 0 \/ p \in 1..Len(stream)
      BY <1>2
    <3> QED
      BY <1>1, <2>1, <3>1 DEF FrameAt
  <2>6. p + Len(output') + Len(outPipe') = Len(stream')
    <3>1. p + Len(output) + Len(outPipe) = Len(stream) /\ Len(output) \in Nat /\ Len(outPipe) \in Nat
      BY <1>2
    <3>2. /\ output' = output
          /\ Len(stream') = Len(stream) + 1 /\ Len(outPipe') = Len(outPipe) + 1
      BY <2>1
    <3> QED
      BY <3>1, <3>2
  <2>7. FrameAt(p)'
    BY <2>2, <2>3, <2>4, <2>5, <2>6 DEF FrameAt
  <2> QED
    BY <2>1, <2>7, FrameFound DEF FrameInv, HasEol
<1>5. CASE WorkerRead
  <2>1. /\ Len(outPipe) > 0 /\ Len(outPipe') = Len(outPipe) - 1
        /\ \A i \in 1..Len(outPipe') : outPipe'[i] = outPipe[i + 1]
        /\ Len(output') = Len(output) + 1 /\ output'[Len(output) + 1] = outPipe[1]
        /\ \A i \in 1..Len(output) : output'[i] = output[i]
        /\ stream' = stream /\ wpc' = "drain" /\ offset' = offset
    BY <1>2, <1>5 DEF WorkerRead
  <2>2. ASSUME NEW i \in 1..Len(output') PROVE stream'[p + i] = output'[i]
    <3>1. CASE i \in 1..Len(output)
      BY <1>1, <2>1, <3>1 DEF FrameAt
    <3>2. CASE i = Len(output) + 1
      <4>1. 1 \in 1..Len(outPipe) /\ p + i = p + Len(output) + 1
        BY <1>2, <2>1, <3>2
      <4> QED
        BY <1>1, <2>1, <3>2, <4>1 DEF FrameAt
    <3> QED
      BY <1>2, <2>1, <3>1, <3>2
  <2>3. ASSUME NEW i \in 1..Len(outPipe') PROVE stream'[p + Len(output') + i] = outPipe'[i]
    <3>1. i + 1 \in 1..Len(outPipe) /\ p + Len(output') + i = p + Len(output) + (i + 1)
      BY <1>2, <2>1
    <3> QED
      BY <1>1, <2>1, <3>1 DEF FrameAt
  <2>4. IsPosition(p)'
    BY <1>3, <2>1
  <2>5. p + Len(output') + Len(outPipe') = Len(stream')
    <3>1. p + Len(output) + Len(outPipe) = Len(stream) /\ Len(output) \in Nat /\ Len(outPipe) \in Nat
      BY <1>2
    <3>2. stream' = stream /\ Len(output') = Len(output) + 1 /\ Len(outPipe') = Len(outPipe) - 1
      BY <2>1
    <3> QED
      BY <3>1, <3>2
  <2>6. p = 0 \/ stream'[p] = Eol
    BY <1>1, <2>1 DEF FrameAt
  <2>7. FrameAt(p)'
    BY <2>2, <2>3, <2>4, <2>5, <2>6 DEF FrameAt
  <2> QED
    BY <2>1, <2>7, FrameFound
<1>6. CASE WorkerDrain
  <2>1. /\ outPipe' = <<>> /\ Len(outPipe') = 0
        /\ Len(output') = Len(output) + Len(outPipe)
        /\ \A i \in 1..Len(output) : output'[i] = output[i]
        /\ \A i \in 1..Len(outPipe) : output'[Len(output) + i] = outPipe[i]
        /\ stream' = stream /\ wpc' \in {"drain", "scan"} /\ offset' = offset
    BY <1>2, <1>6 DEF WorkerDrain
  <2>2. ASSUME NEW i \in 1..Len(output') PROVE stream'[p + i] = output'[i]
    <3>1. CASE i \in 1..Len(output)
      BY <1>1, <2>1, <3>1 DEF FrameAt
    <3>2. CASE i > Len(output)
      <4>1. PICK k \in 1..Len(outPipe) : i = Len(output) + k
        <5>1. i - Len(output) \in 1..Len(outPipe) /\ i = Len(output) + (i - Len(output))
          BY <1>2, <2>1, <3>2
        <5> QED
          BY <5>1
      <4>2. p + i = p + Len(output) + k
        BY <1>2, <4>1
      <4> QED
        BY <1>1, <2>1, <4>1, <4>2 DEF FrameAt
    <3> QED
      BY <1>2, <2>1, <3>1, <3>2
  <2>3. IsPosition(p)'
    BY <1>3, <2>1
  <2>4. p + Len(output') + Len(outPipe') = Len(stream')
    <3>1. p + Len(output) + Len(outPipe) = Len(stream) /\ Len(output) \in Nat /\ Len(outPipe) \in Nat
      BY <1>2
    <3>2. stream' = stream /\ Len(output') = Len(output) + Len(outPipe) /\ Len(outPipe') = 0
      BY <2>1
    <3> QED
      BY <3>1, <3>2
  <2>5. \A i \in 1..Len(outPipe') : stream'[p + Len(output') + i] = outPipe'[i]
    BY <2>1
  <2>6. p = 0 \/ stream'[p] = Eol
    BY <1>1, <2>1 DEF FrameAt
  <2>7. FrameAt(p)'
    BY <2>2, <2>3, <2>4, <2>5, <2>6 DEF FrameAt
  <2> QED
    BY <2>1, <2>7, FrameFound
<1>7. ASSUME UNCHANGED <<stream, output, outPipe, offset>>,
             wpc' \in {"none", "read", "quit", "done"} => ~HasEol(output),
             wpc' \in {"quit", "done"} => outPipe = <<>> /\ mp' = "exited"
      PROVE  FrameInv'
  <2>1. IsPosition(p)'
    BY <1>3, <1>7
  <2>2. FrameAt(p)'
    BY <1>1, <1>7, <2>1 DEF FrameAt
  <2> QED
    BY <1>7, <2>2, FrameFound DEF HasEol
<1>8. CASE WorkerEof \/ EmitOffsetChanged \/ LinesDone \/ EmitMplayerQuit
  <2>1. UNCHANGED <<stream, output, outPipe, offset, mp>>
    BY <1>8 DEF WorkerEof, EmitOffsetChanged, LinesDone, EmitMplayerQuit
  <2>2. wpc' \in {"none", "read", "quit", "done"} => ~HasEol(output)
    BY <1>8 DEF WorkerEof, EmitOffsetChanged, LinesDone, EmitMplayerQuit, FrameInv
  <2>3. wpc' \in {"quit", "done"} => outPipe = <<>> /\ mp' = "exited"
    BY <1>8, <2>1 DEF WorkerEof, EmitOffsetChanged, LinesDone, EmitMplayerQuit, FrameInv
  <2> QED
    BY <1>7, <2>1, <2>2, <2>3
<1>9. CASE EchoFails \/ MpReadKey \/ MpExit \/ MpStopOrCont
  <2>1. UNCHANGED <<stream, output, outPipe, offset, wpc>> /\ (mp = "exited" => mp' = "exited")
    BY <1>9 DEF EchoFails, MpReadKey, MpExit, MpStopOrCont, MpAlive, workerVars
  <2> QED
    BY <1>7, <2>1 DEF FrameInv
<1>10. CASE ProcessLine
  BY <1>10, LineKeepsFrame
<1> QED
  BY <1>4, <1>5, <1>6, <1>8, <1>9, <1>10 DEF Worker, Environment

LEMMA FrameInvariant == Spec => []FrameInv
<1>1. Init => FrameInv
  <2> SUFFICES ASSUME Init
               PROVE  FrameInv
    OBVIOUS
  <2>1. Processed = 0 /\ Len(output) = 0 /\ Len(outPipe) = 0
    <3>1. stream = <<>> /\ output = <<>> /\ outPipe = <<>>
      BY DEF Init, MplayerInit
    <3>2. Len(stream) = 0 /\ Len(output) = 0 /\ Len(outPipe) = 0
      BY <3>1
    <3> QED
      BY <3>2 DEF Processed
  <2>2. StatusLines(0) = {}
    BY DEF StatusLines
  <2> QED
    BY <2>1, <2>2 DEF Init, MplayerInit, FrameInv, IsPosition, HasEol
<1>2. TypeOK /\ TypeOK' /\ OrderInv /\ FrameInv /\ [Next]_vars => FrameInv'
  <2> SUFFICES ASSUME TypeOK, TypeOK', OrderInv, FrameInv, [Next]_vars
               PROVE  FrameInv'
    OBVIOUS
  <2>1. CASE Worker \/ EchoFails \/ Environment
    BY <2>1, MplayerKeepsFrame
  <2>2. PICK p \in Nat : p = Processed /\ FrameAt(p)
    BY FrameNamed
  <2>3. ASSUME UNCHANGED <<stream, outPipe, output, offset>>,
               wpc' \in {"none", "read", "quit", "done"} => ~HasEol(output),
               wpc' \in {"quit", "done"} => outPipe = <<>> /\ mp' = "exited"
        PROVE  FrameInv'
    <3>1. IsPosition(p)'
      BY <2>2, <2>3, PositionStable DEF FrameAt
    <3>2. FrameAt(p)'
      BY <2>2, <2>3, <3>1 DEF FrameAt
    <3> QED
      BY <2>3, <3>2, FrameFound DEF HasEol
  <2>4. CASE Start
    <3>1. wpc = "none" /\ wpc' \in {"none", "read"} /\ UNCHANGED <<stream, outPipe, output, offset>>
      BY <2>4 DEF Start, OrderInv
    <3> QED
      BY <2>3, <3>1 DEF FrameInv
  <2>5. CASE UNCHANGED <<stream, outPipe, output, offset, wpc, mp>>
    BY <2>3, <2>5 DEF FrameInv
  <2> QED
    BY <2>1, <2>4, <2>5
       DEF Next, Gtk, Terminated, vars, mplayerVars, workerVars, ListenStdin, NotifiedOffset,
           GetCurrentOffset, ScrollAll, on_player_closed_cb, on_delete_cb,
           on_key_press_event_cb, on_stdin_data, write_to_stdio, LeaveLoop, JoinAndExit, Type
<1> QED
  BY <1>1, <1>2, TypeCorrect, OrderInvariant, PTL DEF Spec

LEMMA ConcatAt ==
  ASSUME NEW S, NEW s \in Seq(S), NEW r \in Seq(S)
  PROVE  /\ \A i \in 1..Len(s) : (s \o r)[i] = s[i]
         /\ \A i \in 1..Len(r) : (s \o r)[Len(s) + i] = r[i]
OBVIOUS

(* However the output is cut into reads, nothing of it is lost or doubled,  *)
(* and the position is that of the last complete status line processed.    *)
THEOREM FramedCorrectly == Spec => []FramingCorrect
<1>1. TypeOK /\ FrameInv => FramingCorrect
  <2> SUFFICES ASSUME TypeOK, FrameInv
               PROVE  FramingCorrect
    OBVIOUS
  <2>1. PICK p \in Nat : p = Processed /\ FrameAt(p)
    BY FrameNamed
  <2>2. stream \in Seq(Token) /\ output \in Seq(Token) /\ outPipe \in Seq(Token)
    BY DEF TypeOK, MplayerTypeOK
  <2>3. /\ p + Len(output) + Len(outPipe) = Len(stream)
        /\ Len(output) \in Nat /\ Len(outPipe) \in Nat /\ Len(stream) \in Nat
    BY <2>1, <2>2 DEF FrameAt
  <2> DEFINE parts == SubSeq(stream, 1, p) \o output \o outPipe
  <2>4. /\ SubSeq(stream, 1, p) \in Seq(Token) /\ Len(SubSeq(stream, 1, p)) = p
        /\ \A i \in 1..p : SubSeq(stream, 1, p)[i] = stream[i]
    BY <2>2, <2>3, SubSeqProperties
  <2>5. /\ parts \in Seq(Token) /\ Len(parts) = Len(stream)
        /\ \A i \in 1..p : parts[i] = stream[i]
        /\ \A i \in 1..Len(output) : parts[p + i] = output[i]
        /\ \A i \in 1..Len(outPipe) : parts[p + Len(output) + i] = outPipe[i]
    <3>1. SubSeq(stream, 1, p) \o output \in Seq(Token) /\ Len(SubSeq(stream, 1, p) \o output) = p + Len(output)
      BY <2>2, <2>3, <2>4
    <3>2. /\ \A i \in 1..p : (SubSeq(stream, 1, p) \o output)[i] = stream[i]
          /\ \A i \in 1..Len(output) : (SubSeq(stream, 1, p) \o output)[p + i] = output[i]
      BY <2>2, <2>3, <2>4
    <3>3. parts \in Seq(Token) /\ Len(parts) = Len(stream)
      BY <2>2, <2>3, <3>1
    <3>4. /\ \A i \in 1..(p + Len(output)) : parts[i] = (SubSeq(stream, 1, p) \o output)[i]
          /\ \A i \in 1..Len(outPipe) : parts[p + Len(output) + i] = outPipe[i]
      <4> DEFINE front == SubSeq(stream, 1, p) \o output
      <4>1. front \in Seq(Token) /\ Len(front) = p + Len(output)
        BY <3>1
      <4> HIDE DEF front
      <4>2. /\ \A i \in 1..Len(front) : (front \o outPipe)[i] = front[i]
            /\ \A i \in 1..Len(outPipe) : (front \o outPipe)[Len(front) + i] = outPipe[i]
        BY <2>2, <4>1, ConcatAt
      <4> QED
        BY <4>1, <4>2 DEF front
    <3>5. /\ \A i \in 1..p : i \in 1..(p + Len(output))
          /\ \A i \in 1..Len(output) : p + i \in 1..(p + Len(output))
      BY <2>3
    <3> HIDE DEF parts
    <3> QED
      BY <3>2, <3>3, <3>4, <3>5
  <2> HIDE DEF parts
  <2>6. ASSUME NEW i \in 1..Len(stream) PROVE parts[i] = stream[i]
    <3>1. CASE i <= p
      BY <2>5, <3>1
    <3>2. CASE i > p /\ i <= p + Len(output)
      <4>1. PICK k \in 1..Len(output) : i = p + k
        <5>1. i - p \in 1..Len(output) /\ i = p + (i - p)
          BY <2>3, <3>2
        <5> QED
          BY <5>1
      <4> QED
        BY <2>1, <2>5, <4>1 DEF FrameAt
    <3>3. CASE i > p + Len(output)
      <4>1. PICK k \in 1..Len(outPipe) : i = p + Len(output) + k
        <5>1. i - p - Len(output) \in 1..Len(outPipe) /\ i = p + Len(output) + (i - p - Len(output))
          BY <2>3, <3>3
        <5> QED
          BY <5>1
      <4> QED
        BY <2>1, <2>5, <4>1 DEF FrameAt
    <3> QED
      BY <2>3, <3>1, <3>2, <3>3
  <2>7. parts = stream
    BY <2>2, <2>5, <2>6, SeqEqual
  <2>8. offset = PositionIn(p)
    BY <2>1, PositionKnown DEF FrameAt
  <2> QED
    BY <2>1, <2>7, <2>8 DEF FramingCorrect, Processed, parts
<1> QED
  BY <1>1, TypeCorrect, FrameInvariant, PTL

(* The program ends normally only when the window has been told of the end. *)
EndInv == exit = "success" => gpc = "ended"

LEMMA EndInvariant == Spec => []EndInv
<1>1. Init => EndInv
  BY DEF Init, MplayerInit, EndInv
<1>2. EndInv /\ [Next]_vars => EndInv'
  <2> SUFFICES ASSUME EndInv, [Next]_vars
               PROVE  EndInv'
    OBVIOUS
  <2> USE DEF EndInv, WorkerRuns, GtkRuns, MLIB_W
  <2>1. CASE (Worker \/ EchoFails \/ Environment) /\ UNCHANGED windowVars
    BY <2>1 DEF Worker, EchoFails, Environment, WorkerRead, WorkerEof, WorkerDrain, ProcessLine,
                EmitOffsetChanged, LinesDone, EmitMplayerQuit, MpPrint, MpReadKey, MpExit,
                MpStopOrCont, workerVars, windowVars
  <2>2. CASE Gtk \/ Type
    BY <2>2 DEF Gtk, Type, Start, ListenStdin, NotifiedOffset, GetCurrentOffset, ScrollAll,
                on_player_closed_cb, on_delete_cb, on_key_press_event_cb, on_stdin_data,
                write_to_stdio, LeaveLoop, JoinAndExit, mplayerVars
  <2>3. CASE UNCHANGED vars
    BY <2>3 DEF vars, mplayerVars, windowVars
  <2> QED
    BY <2>1, <2>2, <2>3 DEF Next, Terminated
<1> QED
  BY <1>1, <1>2, PTL DEF Spec

(* When the program ends normally with its window open, the subtitles stand *)
(* at the last position MPlayer printed: the worker has met the end of the *)
(* output with no complete line left, and no update is under way.          *)
THEOREM LastShown == Spec => []LastPositionShown
<1>1. TypeOK /\ OrderInv /\ SeenInv /\ FrameInv /\ EndInv => LastPositionShown
  <2> SUFFICES ASSUME TypeOK, OrderInv, SeenInv, FrameInv, EndInv,
                      exit = "success", connected
               PROVE  shown = PositionIn(Len(stream))
    BY DEF LastPositionShown
  <2>1. gpc = "ended" /\ sigs = <<>> /\ wpc = "done"
    BY DEF EndInv, OrderInv, QuitComesLast
  <2>2. shown = offset
    BY <2>1 DEF SeenInv, Seen, Coming
  <2>3. outPipe = <<>> /\ ~HasEol(output)
    BY <2>1 DEF FrameInv
  <2>4. PICK p \in Nat : p = Processed /\ FrameAt(p)
    BY FrameNamed
  <2>5. Len(output) \in Nat /\ Len(stream) = p + Len(output)
    BY <2>3, <2>4 DEF FrameAt, TypeOK, MplayerTypeOK
  <2>6. \A j \in 1..Len(output) : stream[p + j] # Eol
    BY <2>3, <2>4 DEF FrameAt, HasEol
  <2>7. StatusLines(Len(stream)) = StatusLines(p)
    BY <2>4, <2>5, <2>6, NoMoreLines DEF FrameAt
  <2>8. offset = PositionIn(p)
    BY <2>4, PositionKnown DEF FrameAt
  <2>9. PositionIn(Len(stream)) = PositionIn(p)
    BY <2>7 DEF PositionIn
  <2> QED
    BY <2>2, <2>8, <2>9
<1> QED
  BY <1>1, TypeCorrect, OrderInvariant, SeenInvariant, FrameInvariant, EndInvariant, PTL
=============================================================================
