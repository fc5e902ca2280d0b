--------------------------- MODULE SubtitlesControl ---------------------------
(***************************************************************************)
(* Subtitles_control (src/src/main_window.cpp): the list of one file's     *)
(* subtitles, with the one that corresponds to MPlayer's position          *)
(* highlighted.  main() (src/src/main.cpp) builds a control only for a     *)
(* file that loaded.                                                       *)
(***************************************************************************)
EXTENDS SubtitlesLoad, FiniteSetsExt

CONSTANT MaxTime   \* bound: positions MPlayer reports are 0..MaxTime

ASSUME MaxTimeIsNat == MaxTime \in Nat

VARIABLES
  cur_id,       \* the current subtitle, counted from 1; 0 before the control is built
  highlighted,  \* the subtitles that tag_current is applied to
  shownTime     \* the argument of the last scroll_to(), -1 before the first

controlVars == <<cur_id, highlighted, shownTime>>
vars == <<loadVars, controlVars>>

Ids == 1..Len(subtitles)
TimeOf(id) == subtitles[id].time

\* Fault in set_current: the new subtitle is made current before the old one
\* loses its highlighting.
set_current_early(id) ==
  /\ cur_id' = id
  /\ highlighted' = (highlighted \ {id}) \cup {id}

\* The highlighting goes from the current subtitle to id.
set_current(id) ==
  /\ cur_id' = id
  /\ highlighted' = (highlighted \ {cur_id}) \cup {id}

\* Subtitles_control::Subtitles_control(), unless main() dropped the file.
Build ==
  /\ result = "ok"
  /\ cur_id = 0
  /\ set_current(1)
  /\ UNCHANGED <<loadVars, shownTime>>

\* Fault in Forward: the subtitle after the right one.
ForwardTooFar(t) == Min({id \in Ids : id > cur_id /\ TimeOf(id) > t} \cup {Len(subtitles)})

\* From a current subtitle that began before t: up to the last subtitle
\* before the first later one that begins after t.
Forward(t) ==
  Min({id \in Ids : id > cur_id /\ TimeOf(id) > t} \cup {Len(subtitles) + 1}) - 1

\* Fault in Backward: one subtitle too many is skipped.
BackwardTooFar(t) == Max({id \in Ids : id < cur_id /\ TimeOf(id) < t} \cup {1})

\* Otherwise: down to the subtitle after the first earlier one that began
\* before t.
Backward(t) == Max({id \in Ids : id < cur_id /\ TimeOf(id) < t} \cup {0}) + 1

scroll_to(t) ==
  /\ cur_id # 0
  /\ LET id == IF TimeOf(cur_id) < t THEN Forward(t) ELSE Backward(t)
     IN  IF id # cur_id THEN set_current(id) ELSE UNCHANGED <<cur_id, highlighted>>
  /\ shownTime' = t
  /\ UNCHANGED loadVars

Init ==
  /\ LoadInit
  /\ cur_id = 0
  /\ highlighted = {}
  /\ shownTime = -1

\* A file that does not load is dropped by main().
Dropped == result = "error" /\ UNCHANGED vars

Next ==
  \/ LoadNext /\ UNCHANGED controlVars
  \/ Build
  \/ \E t \in 0..MaxTime : scroll_to(t)
  \/ Dropped

Spec == Init /\ [][Next]_vars

-----------------------------------------------------------------------------
\* Types of the reader's state and of the control's.
TypeOK ==
  /\ LoadTypeOK
  /\ cur_id \in 0..Len(subtitles)
  /\ highlighted \subseteq Ids
  /\ shownTime \in -1..MaxTime

\* A control never indexes outside its list, and highlights its current
\* subtitle and no other.
OneHighlighted ==
  cur_id # 0 => cur_id \in Ids /\ highlighted = {cur_id}

\* However the position jumps, scroll_to(), which searches the list in one
\* direction only, does not stop too early or run too far: no subtitle begins
\* between the beginning of the current one and the position.  When the position
\* goes back, the current one may be the next to begin, where main_window.cpp
\* speaks of the one that corresponds to the time (see SubtitleAt).
NoneBetween ==
  shownTime >= 0 =>
    ~ \E id \in Ids :
        \/ TimeOf(cur_id) < TimeOf(id) /\ TimeOf(id) <= shownTime
        \/ shownTime <= TimeOf(id) /\ TimeOf(id) < TimeOf(cur_id)

\* The subtitle that corresponds to position t: the last one that has begun.
SubtitleAt(t) == Max({id \in Ids : TimeOf(id) <= t} \cup {1})

\* Played forward, the list shows the subtitle that corresponds to the time.
ForwardIsExact ==
  [][shownTime' # shownTime /\ TimeOf(cur_id) < shownTime'
       => cur_id' = SubtitleAt(shownTime')]_vars
=============================================================================
