------------------------------- MODULE Viewer -------------------------------
(***************************************************************************)
(* What the program promises its user about the playback position, with    *)
(* no threads, pipes or notifications: the subtitle lists only ever move   *)
(* to the position MPlayer is at, they do follow it, and if the program    *)
(* ends in the normal way they were left at MPlayer's last position.       *)
(***************************************************************************)
CONSTANTS Offsets, Zero

VARIABLES
  reported,   \* MPlayer's position
  shown,      \* the position the subtitle lists were last moved to
  watched,    \* the window is open
  status      \* "running", or how the program ended

vars == <<reported, shown, watched, status>>

Init ==
  /\ reported = Zero
  /\ shown = Zero
  /\ watched = TRUE
  /\ status = "running"

Report ==
  /\ status = "running"
  /\ reported' \in Offsets
  /\ UNCHANGED <<shown, watched, status>>

Show ==
  /\ status = "running"
  /\ watched
  /\ shown' = reported
  /\ UNCHANGED <<reported, watched, status>>

CloseWindow ==
  /\ status = "running"
  /\ watched
  /\ watched' = FALSE
  /\ UNCHANGED <<reported, shown, status>>

\* The player was closed: nothing is left to show.
Finish ==
  /\ status = "running"
  /\ watched => shown = reported
  /\ status' = "success"
  /\ UNCHANGED <<reported, shown, watched>>

\* A fatal error.
Fail ==
  /\ status = "running"
  /\ status' = "failure"
  /\ UNCHANGED <<reported, shown, watched>>

Next == Report \/ Show \/ CloseWindow \/ Finish \/ Fail

Spec == Init /\ [][Next]_vars

\* The lists do follow the position.
Liveness == WF_vars(Show)

FairSpec == Spec /\ Liveness
=============================================================================
