--------------------------- MODULE Subtitles_proofs ---------------------------
(***************************************************************************)
(* For files of any length with any times, and any sequence of positions.  *)
(* The list that was loaded is in time order, a control highlights one     *)
(* subtitle of it, and scroll_to() stops at the right place.  load() keeps *)
(* its types, a line holds at most a byte order mark and one content, a    *)
(* file that ends by '\n' leaves no text behind, each delimiter ends one   *)
(* line, and every text that was read is in one place.                     *)
(***************************************************************************)
EXTENDS SubtitlesControl, SequenceTheorems, FiniteSetTheorems, Induction

(* Every non-empty set of naturals has a smallest element.                 *)
LEMMA MinOfNats ==
  ASSUME NEW S \in SUBSET Nat, S # {}
  PROVE  /\ Min(S) \in S
         /\ \A y \in S : Min(S) <= y
BY Least DEF Min

(* Every non-empty set of naturals with a bound has a greatest element.    *)
LEMMA MaxOfNats ==
  ASSUME NEW n \in Nat, NEW S \in SUBSET (0..n), S # {}
  PROVE  /\ Max(S) \in S
         /\ \A y \in S : y <= Max(S)
<1> DEFINE mirror == {n - y : y \in S}
<1>1. mirror \in SUBSET Nat /\ mirror # {}
  <2>1. \A y \in S : n - y \in Nat
    OBVIOUS
  <2>2. PICK y \in S : TRUE
    OBVIOUS
  <2>3. n - y \in mirror
    OBVIOUS
  <2> QED
    BY <2>1, <2>3
<1>2. PICK m \in mirror : \A y \in mirror : m <= y
  <2> HIDE DEF mirror
  <2>1. Min(mirror) \in mirror /\ \A y \in mirror : Min(mirror) <= y
    BY <1>1, MinOfNats
  <2> QED
    BY <2>1
<1>3. PICK x \in S : m = n - x
  OBVIOUS
<1>4. ASSUME NEW y \in S
      PROVE  x >= y
  <2>1. n - x <= n - y
    BY <1>2, <1>3
  <2> QED
    BY <2>1
<1> QED
  BY <1>4 DEF Max

-----------------------------------------------------------------------------
(* The list that load() builds.                                            *)

Word == ContentKind \cup {"bom", "newline"}
AnyToken == [k : ContentKind \cup {"bom"}, t : Nat]
Entry == [time : Nat, text : Seq(Word)]

(* What keeps the list ordered: the local `time` is not smaller than any   *)
(* time in it, nor than the time line that is read next.                   *)
ListInv ==
  /\ buf \in Seq(AnyToken)
  /\ text \in Seq(Word)
  /\ time \in Nat
  /\ subtitles \in Seq(Entry)
  /\ \A i \in 1..Len(subtitles) : subtitles[i].time <= time
  /\ TimesSorted
  /\ result = "ok" => subtitles # <<>>

(* What the reader puts into its buffer has the buffer's type.             *)
LEMMA TokensTyped == Token \cup {Bom} \subseteq AnyToken
<1>1. Bom \in AnyToken
  BY DEF Bom, AnyToken
<1>2. ASSUME NEW tok \in Token
      PROVE  tok \in AnyToken
  <2>1. CASE tok \in [k : Contents \ {"time"}, t : {0}]
    BY <2>1, LoadConstants DEF AnyToken
  <2>2. CASE "time" \in Contents /\ tok \in [k : {"time"}, t : Times]
    BY <2>2, LoadConstants DEF AnyToken
  <2> QED
    BY <2>1, <2>2 DEF Token
<1> QED
  BY <1>1, <1>2

(* A line changes the list by its parser state's rule.                     *)
LEMMA ParseKeepsList ==
  ASSUME ListInv, result = "loading", NEW line \in Seq(AnyToken), Parse(line)
  PROVE  ListInv'
<1> USE DEF ListInv
<1>0. \A i \in 1..Len(subtitles) : subtitles[i].time \in Nat
  <2> SUFFICES ASSUME NEW i \in 1..Len(subtitles)
               PROVE  subtitles[i].time \in Nat
    OBVIOUS
  <2>1. subtitles[i] \in Entry
    BY ElementOfSeq
  <2> QED
    BY <2>1 DEF Entry
<1>1. buf' = <<>> /\ buf' \in Seq(AnyToken)
  BY DEF Parse
<1>2. ASSUME TimeLine(line)
      PROVE  ListInv'
  <2>1. CASE ~IsTime(line) \/ line[1].k = "bad"
    BY <1>1, <1>2, <2>1 DEF TimeLine, Invalid, TimesSorted
  <2>2. CASE ~(~IsTime(line) \/ line[1].k = "bad")
    <3>1. line[1] \in AnyToken
      BY <2>2, ElementOfSeq DEF IsTime
    <3>2. time' \in Nat /\ time <= time'
      BY <1>2, <2>2, <3>1 DEF TimeLine, AnyToken
    <3>3. UNCHANGED <<text, subtitles, result>>
      BY <1>2, <2>2 DEF TimeLine
    <3>4. \A i \in 1..Len(subtitles) : subtitles[i].time <= time'
      BY <1>0, <3>2
    <3>5. TimesSorted'
      BY <3>3 DEF TimesSorted
    <3> QED
      BY <1>1, <3>2, <3>3, <3>4, <3>5
  <2> QED
    BY <2>1, <2>2
<1>3. CASE GetSubtitle(line)
  <2>1. CASE TimeLine(line)
    BY <1>2, <2>1
  <2>2. CASE Invalid
    BY <1>1, <2>2 DEF Invalid, TimesSorted
  <2>3. CASE UNCHANGED <<time, text, subtitles, result>>
    BY <1>1, <2>3 DEF TimesSorted
  <2> QED
    BY <1>3, <2>1, <2>2, <2>3 DEF GetSubtitle
<1>4. CASE GetTime(line)
  BY <1>2, <1>4 DEF GetTime
<1>5. CASE GetText(line)
  <2>1. CASE IsBlank(line)
    <3>1. CASE text = <<>>
      BY <1>1, <1>5, <2>1, <3>1 DEF GetText, TimesSorted
    <3>2. CASE text # <<>>
      <4> DEFINE entry == [time |-> time, text |-> text]
      <4>1. /\ subtitles' = Append(subtitles, entry)
            /\ text' = <<>> /\ time' = time /\ result' = result
        BY <1>5, <2>1, <3>2 DEF GetText
      <4>2. entry \in Entry
        BY DEF Entry
      <4> HIDE DEF entry
      <4>3. /\ subtitles' \in Seq(Entry)
            /\ Len(subtitles') = Len(subtitles) + 1
            /\ \A i \in 1..Len(subtitles) : subtitles'[i] = subtitles[i]
            /\ subtitles'[Len(subtitles) + 1] = entry
            /\ subtitles' # <<>>
        BY <4>1, <4>2, AppendProperties
      <4>4. entry.time = time
        BY DEF entry
      <4>5. Len(subtitles) \in Nat
        BY LenProperties
      <4>6. \A i \in 1..Len(subtitles') : subtitles'[i].time <= time
        BY <4>3, <4>4, <4>5
      <4>7. TimesSorted'
        <5> SUFFICES ASSUME NEW i \in 1..Len(subtitles'), NEW j \in 1..Len(subtitles'), i < j
                     PROVE  subtitles'[i].time <= subtitles'[j].time
          BY DEF TimesSorted
        <5>1. CASE j = Len(subtitles) + 1
          BY <4>3, <4>4, <4>6, <5>1
        <5>2. CASE j # Len(subtitles) + 1
          <6>1. Len(subtitles') = Len(subtitles) + 1
            BY <4>3
          <6>2. i \in 1..Len(subtitles) /\ j \in 1..Len(subtitles)
            BY <4>5, <5>2, <6>1
          <6>3. subtitles[i].time <= subtitles[j].time
            BY <6>2 DEF TimesSorted
          <6> QED
            BY <4>3, <6>2, <6>3
        <5> QED
          BY <5>1, <5>2
      <4>8. text' \in Seq(Word)
        BY <4>1, EmptySeq
      <4>9. \A i \in 1..Len(subtitles') : subtitles'[i].time <= time'
        BY <4>1, <4>6
      <4>10. time' \in Nat /\ subtitles' # <<>> /\ subtitles' \in Seq(Entry)
        BY <4>1, <4>3
      <4> QED
        BY <1>1, <4>7, <4>8, <4>9, <4>10
    <3> QED
      BY <3>1, <3>2
  <2>2. CASE ~IsBlank(line)
    <3>1. line[1] \in AnyToken
      BY <2>2, ElementOfSeq DEF IsBlank
    <3>2. AddLine(line) \in Seq(Word)
      <4>1. line[1].k \in Word /\ "newline" \in Word
        BY <3>1 DEF AnyToken, Word
      <4> HIDE DEF Word
      <4> QED
        BY <4>1 DEF AddLine
    <3>3. /\ text' = AddLine(line)
          /\ UNCHANGED <<state, time, subtitles, result>>
      BY <1>5, <2>2 DEF GetText
    <3>4. TimesSorted'
      BY <3>3 DEF TimesSorted
    <3> QED
      BY <1>1, <3>2, <3>3, <3>4
  <2> QED
    BY <2>1, <2>2
<1> QED
  BY <1>3, <1>4, <1>5 DEF Parse

(* The reader hands complete lines to the parser, and changes the list in  *)
(* no other way.                                                           *)
LEMMA LoadKeepsList == ASSUME ListInv, LoadNext PROVE ListInv'
<1> USE DEF ListInv
<1>1. CASE Extend
  BY <1>1 DEF Extend, TimesSorted
<1>2. CASE GetContent
  <2>1. NextToken \in AnyToken
    BY <1>2, TokensTyped DEF GetContent
  <2>2. buf' \in Seq(AnyToken)
    BY <1>2, <2>1 DEF GetContent
  <2>3. UNCHANGED <<time, text, subtitles>> /\ result' \in {result, "error"}
    BY <1>2 DEF GetContent
  <2> QED
    BY <2>2, <2>3 DEF TimesSorted
<1>3. Line \in Seq(AnyToken)
  BY DEF Line
<1>4. CASE GetLf
  BY <1>3, <1>4, ParseKeepsList DEF GetLf, Reading
<1>5. CASE GetCr
  BY <1>3, <1>5, ParseKeepsList DEF GetCr, Reading
<1>6. CASE GetEof
  BY <1>6, ParseKeepsList DEF GetEof, Reading
<1>7. CASE Loaded
  BY <1>7 DEF Loaded, TimesSorted
<1> QED
  BY <1>1, <1>2, <1>4, <1>5, <1>6, <1>7 DEF LoadNext

(* The list of a control does not change any more.                         *)
LEMMA LoadedIsFinal == ASSUME LoadNext PROVE result # "ok"
BY DEF LoadNext, Extend, GetContent, GetLf, GetCr, GetEof, Loaded, Reading

-----------------------------------------------------------------------------
(* The control.                                                            *)

ControlInv ==
  /\ ListInv
  /\ cur_id = 0 => highlighted = {} /\ shownTime = -1
  /\ cur_id # 0 => result = "ok"
  /\ shownTime \in -1..MaxTime
  /\ OneHighlighted
  /\ NoneBetween

LEMMA TimesAreNats ==
  ASSUME ListInv
  PROVE  Len(subtitles) \in Nat /\ \A id \in Ids : TimeOf(id) \in Nat
<1>1. Len(subtitles) \in Nat
  BY LenProperties DEF ListInv
<1>2. ASSUME NEW id \in Ids
      PROVE  TimeOf(id) \in Nat
  <2>1. subtitles[id] \in Entry
    BY ElementOfSeq DEF ListInv, Ids
  <2> QED
    BY <2>1 DEF Entry, TimeOf
<1> QED
  BY <1>1, <1>2

(* Searching forward: what is passed has begun, what is not has not.       *)
LEMMA ForwardStops ==
  ASSUME ListInv, cur_id \in Ids, NEW t \in Nat, TimeOf(cur_id) < t
  PROVE  /\ Forward(t) \in Ids
         /\ TimeOf(Forward(t)) <= t
         /\ \A id \in Ids : id > Forward(t) => TimeOf(id) > t
<1> DEFINE later == {id \in Ids : id > cur_id /\ TimeOf(id) > t} \cup {Len(subtitles) + 1}
           m == Min(later)
<1>1. Len(subtitles) \in Nat /\ \A id \in Ids : TimeOf(id) \in Nat
  BY TimesAreNats
<1>2. later \in SUBSET Nat /\ later # {}
  BY <1>1 DEF Ids
<1>3. m \in later /\ \A y \in later : m <= y
  <2> HIDE DEF later
  <2> QED
    BY <1>2, MinOfNats
<1> HIDE DEF m
<1>4. Forward(t) = m - 1
  BY DEF Forward, m
<1>5. m \in Nat /\ cur_id < m /\ m <= Len(subtitles) + 1
  BY <1>1, <1>3 DEF Ids
<1>6. m - 1 \in Ids
  BY <1>1, <1>5 DEF Ids
<1>7. TimeOf(m - 1) <= t
  <2>1. CASE m - 1 = cur_id
    BY <1>1, <2>1
  <2>2. CASE m - 1 > cur_id
    <3>1. m - 1 \notin later
      BY <1>3, <1>5
    <3> QED
      BY <1>1, <1>6, <2>2, <3>1
  <2> QED
    BY <1>1, <1>5, <2>1, <2>2 DEF Ids
<1>8. ASSUME NEW id \in Ids, id > m - 1
      PROVE  TimeOf(id) > t
  <2>1. m \in Ids /\ TimeOf(m) > t
    BY <1>1, <1>3, <1>5, <1>8 DEF Ids
  <2>2. TimeOf(m) <= TimeOf(id)
    BY <1>1, <1>5, <1>8, <2>1 DEF ListInv, TimesSorted, TimeOf, Ids
  <2> QED
    BY <1>1, <2>1, <2>2
<1> QED
  BY <1>4, <1>6, <1>7, <1>8

(* Searching backward: what is passed began at the position or later, what *)
(* is not began before it.                                                 *)
LEMMA BackwardStops ==
  ASSUME ListInv, cur_id \in Ids, NEW t \in Nat, ~(TimeOf(cur_id) < t)
  PROVE  /\ Backward(t) \in Ids
         /\ TimeOf(Backward(t)) >= t
         /\ \A id \in Ids : id < Backward(t) => TimeOf(id) < t
<1> DEFINE earlier == {id \in Ids : id < cur_id /\ TimeOf(id) < t} \cup {0}
           m == Max(earlier)
<1>1. Len(subtitles) \in Nat /\ \A id \in Ids : TimeOf(id) \in Nat
  BY TimesAreNats
<1>2. earlier \in SUBSET (0..Len(subtitles)) /\ earlier # {}
  BY <1>1 DEF Ids
<1>3. m \in earlier /\ \A y \in earlier : y <= m
  <2> HIDE DEF earlier
  <2> QED
    BY <1>1, <1>2, MaxOfNats
<1> HIDE DEF m
<1>4. Backward(t) = m + 1
  BY DEF Backward, m
<1>5. m \in Nat /\ m < cur_id
  BY <1>1, <1>3 DEF Ids
<1>6. m + 1 \in Ids
  BY <1>1, <1>5 DEF Ids
<1>7. TimeOf(m + 1) >= t
  <2>1. CASE m + 1 = cur_id
    BY <1>1, <2>1
  <2>2. CASE m + 1 < cur_id
    <3>1. m + 1 \notin earlier
      BY <1>3, <1>5
    <3> QED
      BY <1>1, <1>6, <2>2, <3>1
  <2> QED
    BY <1>1, <1>5, <2>1, <2>2 DEF Ids
<1>8. ASSUME NEW id \in Ids, id < m + 1
      PROVE  TimeOf(id) < t
  <2>1. m \in Ids /\ TimeOf(m) < t
    BY <1>1, <1>3, <1>5, <1>8 DEF Ids
  <2>2. TimeOf(id) <= TimeOf(m)
    BY <1>1, <1>5, <1>8, <2>1 DEF ListInv, TimesSorted, TimeOf, Ids
  <2> QED
    BY <1>1, <2>1, <2>2
<1> QED
  BY <1>4, <1>6, <1>7, <1>8

(* scroll_to() keeps all of it.                                            *)
LEMMA ScrollKeeps ==
  ASSUME ControlInv, NEW t \in 0..MaxTime, scroll_to(t)
  PROVE  ControlInv'
<1> DEFINE id == IF TimeOf(cur_id) < t THEN Forward(t) ELSE Backward(t)
<1>1. /\ ListInv
      /\ cur_id \in Ids /\ highlighted = {cur_id} /\ result = "ok"
      /\ Len(subtitles) \in Nat
      /\ \A i \in Ids : TimeOf(i) \in Nat
  BY TimesAreNats DEF ControlInv, OneHighlighted, scroll_to
<1>2. t \in Nat /\ t \in -1..MaxTime /\ t >= 0
  BY MaxTimeIsNat
<1>3. \/ /\ id \in Ids
         /\ TimeOf(id) <= t
         /\ \A i \in Ids : i > id => TimeOf(i) > t
      \/ /\ id \in Ids
         /\ TimeOf(id) >= t
         /\ \A i \in Ids : i < id => TimeOf(i) < t
  BY <1>1, <1>2, ForwardStops, BackwardStops
<1>4. cur_id' = id /\ highlighted' = {id} /\ shownTime' = t
  BY <1>1 DEF scroll_to, set_current
<1> HIDE DEF id
<1>5. UNCHANGED loadVars
  BY DEF scroll_to
<1>6. ListInv'
  BY <1>1, <1>5 DEF ListInv, TimesSorted, loadVars
<1>7. Ids' = Ids /\ \A i : TimeOf(i)' = TimeOf(i)
  BY <1>5 DEF Ids, TimeOf, loadVars
<1>8. id \in Ids /\ id # 0
  BY <1>3 DEF Ids
<1>9. \A i, j \in Ids : i <= j => TimeOf(i) <= TimeOf(j)
  <2> SUFFICES ASSUME NEW i \in Ids, NEW j \in Ids, i <= j
               PROVE  TimeOf(i) <= TimeOf(j)
    OBVIOUS
  <2>1. CASE i = j
    BY <1>1, <2>1
  <2>2. CASE i < j
    BY <1>1, <2>2 DEF ListInv, TimesSorted, TimeOf, Ids
  <2> QED
    BY <1>1, <2>1, <2>2 DEF Ids
<1>10. NoneBetween'
  <2> SUFFICES ASSUME NEW i \in Ids,
                      \/ TimeOf(id) < TimeOf(i) /\ TimeOf(i) <= t
                      \/ t <= TimeOf(i) /\ TimeOf(i) < TimeOf(id)
               PROVE  FALSE
    BY <1>4, <1>5 DEF NoneBetween, Ids, TimeOf, loadVars
  <2>1. CASE i <= id
    BY <1>1, <1>2, <1>3, <1>8, <1>9, <2>1 DEF Ids
  <2>2. CASE i > id
    BY <1>1, <1>2, <1>3, <1>8, <1>9, <2>2 DEF Ids
  <2> QED
    BY <1>1, <1>8, <2>1, <2>2 DEF Ids
<1>11. OneHighlighted'
  BY <1>4, <1>7, <1>8 DEF OneHighlighted
<1> QED
  BY <1>1, <1>2, <1>4, <1>5, <1>6, <1>8, <1>10, <1>11 DEF ControlInv, loadVars

LEMMA Invariant == Spec => []ControlInv
<1>1. Init => ControlInv
  <2> SUFFICES ASSUME Init
               PROVE  ControlInv
    OBVIOUS
  <2>1. ListInv
    BY EmptySeq DEF Init, LoadInit, ListInv, TimesSorted
  <2>2. -1 \in -1..MaxTime
    BY MaxTimeIsNat
  <2> QED
    BY <2>1, <2>2 DEF Init, ControlInv, OneHighlighted, NoneBetween
<1>2. ControlInv /\ [Next]_vars => ControlInv'
  <2> SUFFICES ASSUME ControlInv, [Next]_vars
               PROVE  ControlInv'
    OBVIOUS
  <2>1. CASE LoadNext /\ UNCHANGED controlVars
    <3>1. ListInv'
      BY <2>1, LoadKeepsList DEF ControlInv
    <3>2. cur_id = 0 /\ shownTime = -1 /\ highlighted = {}
      BY <2>1, LoadedIsFinal DEF ControlInv
    <3> QED
      BY <2>1, <3>1, <3>2 DEF ControlInv, controlVars, OneHighlighted, NoneBetween
  <2>2. CASE Build
    <3>1. ListInv'
      BY <2>2 DEF Build, ControlInv, ListInv, TimesSorted, loadVars
    <3>2. 1 \in Ids /\ Ids' = Ids
      <4>1. Len(subtitles) \in Nat \ {0}
        BY <2>2, EmptySeq DEF Build, ControlInv, ListInv
      <4> QED
        BY <2>2, <4>1 DEF Build, Ids, loadVars
    <3>3. /\ cur_id' = 1 /\ highlighted' = {1}
          /\ shownTime' = -1 /\ result' = "ok"
      BY <2>2 DEF Build, set_current, ControlInv, loadVars
    <3>4. -1 \in -1..MaxTime
      BY MaxTimeIsNat
    <3> QED
      BY <3>1, <3>2, <3>3, <3>4 DEF ControlInv, OneHighlighted, NoneBetween
  <2>3. ASSUME NEW t \in 0..MaxTime, scroll_to(t)
        PROVE  ControlInv'
    BY <2>3, ScrollKeeps
  <2>4. CASE UNCHANGED vars
    BY <2>4 DEF vars, loadVars, controlVars, ControlInv, ListInv, TimesSorted,
                OneHighlighted, NoneBetween, Ids, TimeOf
  <2> QED
    BY <2>1, <2>2, <2>3, <2>4 DEF Next, Dropped
<1> QED
  BY <1>1, <1>2, PTL DEF Spec

(* Whatever times a file has, the list is in time order.                   *)
THEOREM ListIsSorted == Spec => []TimesSorted
BY Invariant, PTL DEF ControlInv, ListInv

(* set_current() is called with a subtitle of the list, and only its       *)
(* highlighting stays.                                                     *)
THEOREM HighlightsOne == Spec => []OneHighlighted
BY Invariant, PTL DEF ControlInv

(* scroll_to() stops at the right place from either side, whatever the     *)
(* positions before.                                                       *)
THEOREM StopsAtThePosition == Spec => []NoneBetween
BY Invariant, PTL DEF ControlInv

(* Played forward, scroll_to() finds the last subtitle that has begun.     *)
THEOREM ForwardExact == Spec => ForwardIsExact
<1> DEFINE Exact == shownTime' # shownTime /\ TimeOf(cur_id) < shownTime'
                      => cur_id' = SubtitleAt(shownTime')
<1>1. ControlInv /\ [Next]_vars => [Exact]_vars
  <2> SUFFICES ASSUME ControlInv, Next, shownTime' # shownTime,
                      TimeOf(cur_id) < shownTime'
               PROVE  cur_id' = SubtitleAt(shownTime')
    OBVIOUS
  <2>1. PICK t \in 0..MaxTime : scroll_to(t)
    BY DEF Next, Build, Dropped, vars, controlVars
  <2>2. /\ ListInv
        /\ cur_id \in Ids
        /\ Len(subtitles) \in Nat
        /\ \A i \in Ids : TimeOf(i) \in Nat
    BY <2>1, TimesAreNats DEF ControlInv, OneHighlighted, scroll_to
  <2>3. t \in Nat /\ shownTime' = t
    BY <2>1, MaxTimeIsNat DEF scroll_to
  <2>4. cur_id' = Forward(t)
    BY <2>1, <2>3 DEF scroll_to, set_current
  <2>5. /\ Forward(t) \in Ids
        /\ TimeOf(Forward(t)) <= t
        /\ \A id \in Ids : id > Forward(t) => TimeOf(id) > t
    BY <2>2, <2>3, ForwardStops
  <2> DEFINE begun == {id \in Ids : TimeOf(id) <= t} \cup {1}
  <2>6. begun \in SUBSET (0..Len(subtitles)) /\ Forward(t) \in begun
    BY <2>2, <2>5 DEF Ids
  <2>7. Max(begun) \in begun /\ Forward(t) <= Max(begun)
    <3> HIDE DEF begun
    <3> QED
      BY <2>2, <2>6, MaxOfNats
  <2>8. \A i \in begun : i <= Forward(t)
    BY <2>2, <2>3, <2>5 DEF Ids
  <2>9. SubtitleAt(t) = Max(begun)
    BY DEF SubtitleAt
  <2> HIDE DEF begun
  <2>10. Max(begun) = Forward(t)
    <3>1. Max(begun) <= Forward(t)
      BY <2>7, <2>8
    <3>2. Max(begun) \in 0..Len(subtitles)
      BY <2>6, <2>7
    <3>3. Forward(t) \in 1..Len(subtitles)
      BY <2>5 DEF Ids
    <3> QED
      BY <2>2, <2>7, <3>1, <3>2, <3>3
  <2> QED
    BY <2>3, <2>4, <2>9, <2>10
<1> QED
  BY <1>1, Invariant, PTL DEF Spec, ForwardIsExact

-----------------------------------------------------------------------------
(* What a file can be, and what the reader has of it.                      *)

FileToken == Token \cup Delimiter \cup {Bom, Eof}

(* The kinds of the tokens tell them apart.                                *)
LEMMA KindsDiffer ==
  /\ \A tok \in Token : tok.k \notin {"cr", "lf", "eof", "bom"}
  /\ \A tok \in Delimiter : tok.k \in {"cr", "lf"}
  /\ Bom.k = "bom" /\ Eof.k = "eof"
<1>1. ASSUME NEW tok \in Token
      PROVE  tok.k \notin {"cr", "lf", "eof", "bom"}
  <2>1. tok.k \in ContentKind
    BY LoadConstants DEF Token
  <2> QED
    BY <2>1 DEF ContentKind
<1>2. ASSUME NEW tok \in Delimiter
      PROVE  tok.k \in {"cr", "lf"}
  BY <1>2, LoadConstants DEF Delimiter
<1> QED
  BY <1>1, <1>2 DEF Bom, Eof

(* What can follow, by the kind of the last token.                         *)
LEMMA SuccessorsAre ==
  /\ LastKind = "eof" => Successors = {}
  /\ LastKind \in ContentKind => Successors = Delimiter \cup {Eof}
  /\ LastKind # "none" => Successors \subseteq Token \cup Delimiter \cup {Eof}
<1>1. LastKind = "eof" => Successors = {}
  BY LoadConstants DEF Successors
<1>2. LastKind \in ContentKind => Successors = Delimiter \cup {Eof}
  <2> SUFFICES ASSUME LastKind \in ContentKind
               PROVE  Successors = Delimiter \cup {Eof}
    OBVIOUS
  <2>1. LastKind \notin {"eof", "none", "cr", "lf", "bom"}
    BY DEF ContentKind
  <2>2. LastKind \notin Delimiters \cup {"bom"}
    BY <2>1, LoadConstants
  <2> QED
    BY <2>1, <2>2 DEF Successors
<1>3. LastKind # "none" => Successors \subseteq Token \cup Delimiter \cup {Eof}
  <2>1. CASE LastKind = "eof"
    BY <1>1, <2>1
  <2>2. CASE LastKind \in Delimiters \cup {"bom"} /\ LastKind # "eof"
    BY <2>2 DEF Successors
  <2>3. CASE LastKind \notin Delimiters \cup {"bom"} /\ LastKind # "eof"
    BY <2>3 DEF Successors
  <2> QED
    BY <2>1, <2>2, <2>3
<1> QED
  BY <1>1, <1>2, <1>3

(* A file in which content stands alone on its line, as far as it is read. *)
FileInv ==
  /\ file \in Seq(FileToken)
  /\ Len(file) <= MaxFile
  /\ Len(file) = MaxFile => file[Len(file)] = Eof
  /\ \A i \in 1..Len(file) : i < Len(file) =>
       /\ file[i] # Eof
       /\ file[i] \in Token => file[i + 1] \in Delimiter \cup {Eof}
       /\ file[i + 1] # Bom

(* What Extend adds keeps it so, and leaves what is there.                 *)
LEMMA ExtendKeepsFile ==
  ASSUME FileInv, Extend
  PROVE  /\ FileInv'
         /\ Len(file') = Len(file) + 1
         /\ \A i \in 1..Len(file) : file'[i] = file[i]
<1> USE DEF FileInv
<1>1. PICK tok \in Successors : /\ tok = Eof \/ Len(file) + 1 < MaxFile
                                /\ file' = Append(file, tok)
  BY DEF Extend
<1>2. tok \in FileToken
  BY <1>1 DEF Successors, FileToken
<1>3. /\ file' \in Seq(FileToken)
      /\ Len(file') = Len(file) + 1
      /\ \A i \in 1..Len(file) : file'[i] = file[i]
      /\ file'[Len(file) + 1] = tok
  BY <1>1, <1>2, AppendProperties
<1>4. Len(file) \in Nat
  BY LenProperties
<1>5. MaxFile \in Nat \ {0}
  BY LoadConstants
<1>6. CASE file = <<>>
  <2>1. Len(file) = 0 /\ Len(file') = 1
    BY <1>3, <1>6, EmptySeq
  <2>2. file'[1] = tok
    BY <1>3, <2>1
  <2>3. Len(file') <= MaxFile /\ (Len(file') = MaxFile => tok = Eof)
    BY <1>1, <1>5, <2>1
  <2> QED
    BY <1>3, <2>1, <2>2, <2>3
<1>7. CASE file # <<>>
  <2> DEFINE end == file[Len(file)]
  <2>1. Len(file) \in Nat \ {0} /\ end \in FileToken
    BY <1>4, <1>7, EmptySeq, ElementOfSeq
  <2>2. LastKind = end.k
    BY <1>7 DEF LastKind, Last
  <2>3. end # Eof
    BY <1>1, <2>2, KindsDiffer, SuccessorsAre
  <2>4. end \in Token => tok \in Delimiter \cup {Eof}
    <3>1. end \in Token => end.k \in ContentKind
      BY LoadConstants DEF Token
    <3> QED
      BY <1>1, <2>2, <3>1, SuccessorsAre
  <2>5. tok # Bom
    <3>1. end.k # "none"
      <4>1. end.k \in ContentKind \cup {"cr", "lf", "bom", "eof"}
        <5>1. CASE end \in Token
          BY <5>1, LoadConstants DEF Token
        <5>2. CASE end \in Delimiter \cup {Bom, Eof}
          BY <5>2, KindsDiffer
        <5> QED
          BY <2>1, <5>1, <5>2 DEF FileToken
      <4> QED
        BY <4>1 DEF ContentKind
    <3> QED
      BY <1>1, <2>2, <3>1, SuccessorsAre, KindsDiffer
  <2>6. Len(file) < MaxFile
    BY <1>4, <1>5, <2>1, <2>3
  <2>7. Len(file') <= MaxFile /\ (Len(file') = MaxFile => tok = Eof)
    BY <1>1, <1>3, <1>4, <1>5, <2>6
  <2>8. ASSUME NEW i \in 1..Len(file'), i < Len(file')
        PROVE  /\ file'[i] # Eof
               /\ file'[i] \in Token => file'[i + 1] \in Delimiter \cup {Eof}
               /\ file'[i + 1] # Bom
    <3>1. i \in 1..Len(file)
      BY <1>3, <1>4, <2>8
    <3>2. CASE i = Len(file)
      BY <1>3, <2>3, <2>4, <2>5, <3>1, <3>2
    <3>3. CASE i < Len(file)
      <4>1. i + 1 \in 1..Len(file)
        BY <1>4, <3>1, <3>3
      <4>2. file'[i] = file[i] /\ file'[i + 1] = file[i + 1]
        BY <1>3, <3>1, <4>1
      <4> QED
        BY <3>1, <3>3, <4>2
    <3> QED
      BY <1>4, <3>1, <3>2, <3>3
  <2> QED
    BY <1>3, <2>7, <2>8
<1> QED
  BY <1>3, <1>6, <1>7

-----------------------------------------------------------------------------
(* The parser.                                                             *)

ParserInv ==
  /\ state \in {"GET_SUBTITLE", "GET_TIME", "GET_TEXT"}
  /\ time \in Times \cup {0}
  /\ text # <<>> => state = "GET_TEXT"

(* Text is held in one state only, and an empty line puts it away.         *)
LEMMA ParseKeepsParser ==
  ASSUME ParserInv, result = "loading", NEW line \in Seq(Token \cup {Bom}), Parse(line)
  PROVE  /\ ParserInv'
         /\ result' \in {"loading", "error"}
         /\ line_num' = line_num + 1
         /\ buf' = <<>>
         /\ line = <<>> /\ result' # "error" => text' = <<>>
<1> USE DEF ParserInv
<1>1. line_num' = line_num + 1 /\ buf' = <<>>
  BY DEF Parse
<1>2. Len(line) \in Nat
  BY LenProperties
<1>3. ASSUME Invalid
      PROVE  ParserInv' /\ result' = "error"
  BY <1>3 DEF Invalid
<1>4. ASSUME TimeLine(line), text = <<>>
      PROVE  ParserInv' /\ result' \in {"loading", "error"} /\ (result' # "error" => line # <<>>)
  <2>1. CASE ~IsTime(line) \/ line[1].k = "bad"
    BY <1>3, <1>4, <2>1 DEF TimeLine
  <2>2. CASE ~(~IsTime(line) \/ line[1].k = "bad")
    <3>1. Len(line) = 1 /\ line[1].k = "time"
      BY <2>2 DEF IsTime
    <3>2. line[1] \in Token \cup {Bom}
      BY <1>2, <3>1, ElementOfSeq
    <3>3. line[1] \in Token
      BY <3>1, <3>2, KindsDiffer
    <3>4. line[1].t \in Times
      BY <3>1, <3>3 DEF Token
    <3>5. /\ time' \in {time, line[1].t}
          /\ state' = "GET_TEXT" /\ text' = text /\ result' = result
      BY <1>4, <2>2 DEF TimeLine
    <3> QED
      BY <3>1, <3>4, <3>5
  <2> QED
    BY <2>1, <2>2
<1>5. CASE GetSubtitle(line)
  <2>1. text = <<>>
    BY <1>5 DEF GetSubtitle
  <2>2. CASE TimeLine(line)
    BY <1>1, <1>4, <2>1, <2>2
  <2>3. CASE Invalid
    BY <1>1, <1>3, <2>3
  <2>4. CASE state' \in {state, "GET_TIME"} /\ UNCHANGED <<time, text, subtitles, result>>
    BY <1>1, <2>1, <2>4
  <2> QED
    BY <1>5, <2>2, <2>3, <2>4 DEF GetSubtitle
<1>6. CASE GetTime(line)
  <2>1. text = <<>> /\ TimeLine(line)
    BY <1>6 DEF GetTime
  <2> QED
    BY <1>1, <1>4, <2>1
<1>7. CASE GetText(line)
  <2>1. CASE IsBlank(line)
    BY <1>1, <1>7, <2>1 DEF GetText
  <2>2. CASE ~IsBlank(line)
    <3>1. line # <<>>
      BY <2>2 DEF IsBlank
    <3> QED
      BY <1>1, <1>7, <2>2, <3>1 DEF GetText
  <2> QED
    BY <2>1, <2>2
<1> QED
  BY <1>5, <1>6, <1>7 DEF Parse

-----------------------------------------------------------------------------
(* The reader.                                                             *)

(* What is in the buffer is what was read since the last delimiter.        *)
BufferInv ==
  /\ buf \in Seq(Token \cup {Bom})
  /\ Len(buf) <= 2
  /\ result = "loading" /\ buf # <<>> =>
       /\ pos # 0
       /\ file[pos] \in Token \cup {Bom}
       /\ file[pos] = Bom => Len(buf) = 1

(* Where the file has ended, and with '\n', no text is left.               *)
EndInv ==
  /\ result = "loading" /\ pos = Len(file) /\ pos > 1
       /\ file[pos] = Eof /\ file[pos - 1].k = "lf" => text = <<>>
  /\ result = "ok" => TerminatedFileIsComplete

ReaderInv ==
  /\ FileInv
  /\ ParserInv
  /\ BufferInv
  /\ EndInv
  /\ pos \in 0..Len(file)
  /\ line_num \in 1..(pos + 1)
  /\ result \in {"loading", "ok", "error"}

LEMMA ExtendKeepsReader == ASSUME ReaderInv, Extend PROVE ReaderInv'
<1> USE DEF ReaderInv
<1>1. /\ FileInv'
      /\ Len(file') = Len(file) + 1
      /\ \A i \in 1..Len(file) : file'[i] = file[i]
  BY ExtendKeepsFile
<1>2. Len(file) \in Nat
  BY LenProperties DEF FileInv
<1>3. /\ result = "loading"
      /\ UNCHANGED <<pos, buf, line_num, state, time, text, subtitles, result>>
  BY DEF Extend
<1>4. ParserInv'
  BY <1>3 DEF ParserInv
<1>5. BufferInv'
  BY <1>1, <1>2, <1>3 DEF BufferInv
<1>6. EndInv'
  BY <1>1, <1>2, <1>3 DEF EndInv
<1>7. pos' \in 0..Len(file') /\ line_num' \in 1..(pos' + 1)
  BY <1>1, <1>2, <1>3
<1> QED
  BY <1>1, <1>3, <1>4, <1>5, <1>6, <1>7

LEMMA ContentKeepsReader == ASSUME ReaderInv, GetContent PROVE ReaderInv'
<1> USE DEF ReaderInv
<1>1. Len(file) \in Nat /\ Len(buf) \in Nat
  BY LenProperties DEF FileInv, BufferInv
<1>2. /\ result = "loading" /\ pos < Len(file) /\ pos' = pos + 1
      /\ file[pos + 1] \in Token \cup {Bom}
      /\ UNCHANGED <<file, line_num, state, time, text, subtitles>>
  BY DEF GetContent, Reading, NextToken
<1>3. FileInv' /\ ParserInv'
  BY <1>2 DEF FileInv, ParserInv
<1>4. pos' \in 0..Len(file') /\ line_num' \in 1..(pos' + 1)
  BY <1>1, <1>2
<1>5. file[pos + 1] # Eof
  BY <1>2, KindsDiffer
<1>6. pos' # 0 /\ file'[pos'] = file[pos + 1]
  BY <1>1, <1>2
<1>7. CASE result' = "error" /\ UNCHANGED buf
  <2>1. BufferInv'
    BY <1>7 DEF BufferInv
  <2>2. EndInv'
    BY <1>7 DEF EndInv
  <2> QED
    BY <1>3, <1>4, <1>7, <2>1, <2>2
<1>8. CASE buf' = Append(buf, file[pos + 1]) /\ UNCHANGED result
  <2>1. /\ buf' \in Seq(Token \cup {Bom})
        /\ Len(buf') = Len(buf) + 1
    BY <1>2, <1>8, AppendProperties DEF BufferInv
  <2>2. ASSUME buf = <<>>
        PROVE  BufferInv'
    <3>1. Len(buf') = 1
      BY <2>1, <2>2, EmptySeq
    <3> QED
      BY <1>2, <1>6, <2>1, <3>1 DEF BufferInv
  <2>3. ASSUME buf # <<>>
        PROVE  BufferInv'
    <3>1. pos \in 1..Len(file) /\ file[pos] \in Token \cup {Bom}
      BY <1>1, <1>2, <2>3 DEF BufferInv
    <3>2. file[pos + 1] # Bom
      BY <1>2, <3>1 DEF FileInv
    <3>3. file[pos + 1] \notin Delimiter \cup {Eof}
      BY <1>2, KindsDiffer
    <3>4. file[pos] = Bom
      BY <1>2, <3>1, <3>3 DEF FileInv
    <3>5. Len(buf') = 2
      <4>1. Len(buf) = 1
        BY <1>2, <2>3, <3>4 DEF BufferInv
      <4> QED
        BY <2>1, <4>1
    <3> QED
      BY <1>2, <1>6, <2>1, <3>2, <3>5 DEF BufferInv
  <2>4. EndInv'
    BY <1>2, <1>5, <1>8 DEF EndInv
  <2> QED
    BY <1>2, <1>3, <1>4, <1>8, <2>2, <2>3, <2>4
<1> QED
  BY <1>7, <1>8 DEF GetContent, NextToken

(* After a delimiter the buffer is empty.                                  *)
LEMMA LineKeepsReader == ASSUME ReaderInv, GetLf \/ GetCr PROVE ReaderInv'
<1> USE DEF ReaderInv
<1>1. Len(file) \in Nat
  BY LenProperties DEF FileInv
<1>2. /\ result = "loading" /\ file' = file
      /\ pos' \in {pos + 1, pos + 2} /\ pos' <= Len(file)
      /\ file[pos'].k \in {"cr", "lf"}
      /\ Parse(Line)
  <2>1. CASE GetLf
    BY <1>1, <2>1 DEF GetLf, Reading, NextToken
  <2>2. CASE GetCr /\ file[pos + 2].k = "lf"
    BY <1>1, <2>2 DEF GetCr, Reading, NextToken
  <2>3. CASE GetCr /\ file[pos + 2].k # "lf"
    BY <1>1, <2>3 DEF GetCr, Reading, NextToken
  <2> QED
    BY <2>1, <2>2, <2>3
<1>3. Line \in Seq(Token \cup {Bom})
  BY DEF Line, BufferInv
<1>4. /\ ParserInv'
      /\ result' \in {"loading", "error"}
      /\ line_num' = line_num + 1
      /\ buf' = <<>>
  BY <1>2, <1>3, ParseKeepsParser
<1>5. FileInv'
  BY <1>2 DEF FileInv
<1>6. BufferInv'
  BY <1>4, EmptySeq DEF BufferInv
<1>7. EndInv'
  <2>1. file'[pos'] # Eof
    BY <1>2, KindsDiffer
  <2> QED
    BY <1>4, <2>1 DEF EndInv
<1>8. pos' \in 0..Len(file') /\ line_num' \in 1..(pos' + 1)
  <2>1. pos \in Nat /\ line_num \in Nat
    BY <1>1
  <2>2. pos' \in Nat /\ pos + 1 <= pos' /\ pos' <= Len(file')
    BY <1>2, <2>1
  <2>3. pos' \in 0..Len(file')
    BY <1>1, <1>2, <2>2
  <2>4. line_num' \in 1..(pos' + 1)
    <3>1. \A l, p, q \in Nat : l \in 1..(p + 1) /\ p + 1 <= q => l + 1 \in 1..(q + 1)
      OBVIOUS
    <3>2. line_num' = line_num + 1
      BY <1>4
    <3> QED
      BY <2>1, <2>2, <3>1, <3>2
  <2> QED
    BY <2>3, <2>4
<1> QED
  BY <1>4, <1>5, <1>6, <1>7, <1>8

(* At the end of the file, what is left of the last line.                  *)
LEMMA EofKeepsReader == ASSUME ReaderInv, GetEof PROVE ReaderInv'
<1> USE DEF ReaderInv
<1>1. Len(file) \in Nat
  BY LenProperties DEF FileInv
<1>2. /\ result = "loading" /\ file' = file /\ pos' = Len(file)
      /\ pos < Len(file) /\ Parse(buf)
  BY <1>1 DEF GetEof, Reading
<1>3. buf \in Seq(Token \cup {Bom})
  BY DEF BufferInv
<1>4. /\ ParserInv'
      /\ result' \in {"loading", "error"}
      /\ line_num' = line_num + 1
      /\ buf' = <<>>
      /\ buf = <<>> /\ result' # "error" => text' = <<>>
  BY <1>2, <1>3, ParseKeepsParser
<1>5. FileInv'
  BY <1>2 DEF FileInv
<1>6. BufferInv'
  BY <1>4, EmptySeq DEF BufferInv
<1>7. EndInv'
  <2> SUFFICES ASSUME result' = "loading", pos' > 1, file[pos' - 1].k = "lf"
               PROVE  text' = <<>>
    BY <1>2, <1>4 DEF EndInv
  <2>1. CASE NextToken = Eof
    <3>1. pos + 1 = Len(file)
      BY <1>1, <1>2, <2>1 DEF NextToken, FileInv
    <3>2. file[pos].k = "lf"
      BY <1>2, <3>1
    <3>3. file[pos] \notin Token \cup {Bom}
      BY <3>2, KindsDiffer
    <3>4. buf = <<>>
      BY <1>2, <3>3 DEF BufferInv
    <3> QED
      BY <1>4, <3>4
  <2>2. CASE pos + 1 < Len(file) /\ NextToken.k = "cr" /\ file[pos + 2] = Eof
    <3>1. pos + 2 = Len(file)
      BY <1>1, <2>2 DEF FileInv
    <3>2. file[pos' - 1].k = "cr"
      BY <1>2, <2>2, <3>1 DEF NextToken
    <3> QED
      BY <3>2
  <2> QED
    BY <2>1, <2>2 DEF GetEof
<1>8. pos' \in 0..Len(file') /\ line_num' \in 1..(pos' + 1)
  BY <1>1, <1>2, <1>4
<1> QED
  BY <1>4, <1>5, <1>6, <1>7, <1>8

LEMMA LoadedKeepsReader == ASSUME ReaderInv, Loaded PROVE ReaderInv'
<1> USE DEF ReaderInv
<1>1. Len(file) \in Nat
  BY LenProperties DEF FileInv
<1>2. /\ result = "loading" /\ pos = Len(file) /\ LastKind = "eof"
      /\ result' \in {"ok", "error"}
      /\ UNCHANGED <<file, pos, buf, line_num, state, time, text, subtitles>>
  BY DEF Loaded, Reading
<1>3. file # <<>> /\ file[Len(file)].k = "eof"
  BY <1>2 DEF LastKind, Last
<1>4. file[Len(file)] = Eof
  <2>1. Len(file) \in 1..Len(file)
    BY <1>1, <1>3, EmptySeq DEF FileInv
  <2>2. file[Len(file)] \in FileToken
    BY <2>1, ElementOfSeq DEF FileInv
  <2> QED
    BY <1>3, <2>2, KindsDiffer DEF FileToken
<1>5. FileInv' /\ ParserInv'
  BY <1>2 DEF FileInv, ParserInv
<1>6. BufferInv'
  BY <1>2 DEF BufferInv
<1>7. EndInv'
  <2>1. Len(file) > 1 /\ file[Len(file) - 1].k = "lf" => text = <<>>
    BY <1>2, <1>4 DEF EndInv
  <2>2. TerminatedFileIsComplete'
    BY <1>2, <2>1 DEF TerminatedFileIsComplete
  <2> QED
    BY <1>2, <2>2 DEF EndInv
<1>8. pos' \in 0..Len(file') /\ line_num' \in 1..(pos' + 1)
  BY <1>2
<1> QED
  BY <1>2, <1>5, <1>6, <1>7, <1>8

LEMMA ReaderInvariant == Spec => []ReaderInv
<1>1. Init => ReaderInv
  <2> SUFFICES ASSUME Init
               PROVE  ReaderInv
    OBVIOUS
  <2>1. Len(file) = 0 /\ file \in Seq(FileToken) /\ buf \in Seq(Token \cup {Bom})
    BY EmptySeq DEF Init, LoadInit
  <2>2. FileInv
    BY <2>1, LoadConstants DEF FileInv
  <2>3. ParserInv
    BY DEF Init, LoadInit, ParserInv
  <2>4. BufferInv /\ EndInv
    BY <2>1, EmptySeq DEF Init, LoadInit, BufferInv, EndInv
  <2> QED
    BY <2>1, <2>2, <2>3, <2>4 DEF Init, LoadInit, ReaderInv
<1>2. ReaderInv /\ [Next]_vars => ReaderInv'
  <2> SUFFICES ASSUME ReaderInv, [Next]_vars
               PROVE  ReaderInv'
    OBVIOUS
  <2>1. CASE LoadNext
    BY <2>1, ExtendKeepsReader, ContentKeepsReader, LineKeepsReader,
       EofKeepsReader, LoadedKeepsReader DEF LoadNext
  <2>2. CASE UNCHANGED loadVars
    BY <2>2 DEF loadVars, ReaderInv, FileInv, ParserInv, BufferInv, EndInv,
                TerminatedFileIsComplete
  <2> QED
    BY <2>1, <2>2 DEF Next, Build, scroll_to, Dropped, vars
<1> QED
  BY <1>1, <1>2, PTL DEF Spec

(* The reader, the parser and the control keep their types.                *)
THEOREM TypeCorrect == Spec => []TypeOK
<1>1. ReaderInv /\ ControlInv => TypeOK
  <2> SUFFICES ASSUME ReaderInv, ControlInv
               PROVE  TypeOK
    OBVIOUS
  <2>1. Len(file) \in Nat /\ \A i \in 1..Len(file) : file[i] \in FileToken
    BY LenProperties, ElementOfSeq DEF ReaderInv, FileInv
  <2>2. LoadTypeOK
    BY <2>1, LoadConstants DEF ReaderInv, FileInv, ParserInv, BufferInv, LoadTypeOK, FileToken
  <2>3. cur_id \in 0..Len(subtitles) /\ highlighted \subseteq Ids
    BY TimesAreNats DEF ControlInv, OneHighlighted, Ids
  <2> QED
    BY <2>2, <2>3 DEF TypeOK, ControlInv
<1> QED
  BY <1>1, ReaderInvariant, Invariant, PTL

(* A file that ends by '\n' needs no empty line after its last subtitle.   *)
THEOREM TerminatedIsComplete == Spec => []TerminatedFileIsComplete
<1>1. ReaderInv => TerminatedFileIsComplete
  BY DEF ReaderInv, EndInv, TerminatedFileIsComplete
<1> QED
  BY <1>1, ReaderInvariant, PTL

-----------------------------------------------------------------------------
(* Counting.  A part of the places up to n is finite, and gets one larger  *)
(* or stays when the next place is looked at.                              *)

LEMMA PlacesFinite ==
  ASSUME NEW n \in Nat, NEW S, S \subseteq 1..n
  PROVE  IsFiniteSet(S) /\ Cardinality(S) \in Nat
<1>1. IsFiniteSet(1..n)
  BY FS_Interval
<1> QED
  BY <1>1, FS_Subset, FS_CardinalityType

LEMMA OneMore ==
  ASSUME NEW S, IsFiniteSet(S), NEW x, x \notin S
  PROVE  IsFiniteSet(S \cup {x}) /\ Cardinality(S \cup {x}) = Cardinality(S) + 1
BY FS_AddElement

Ends == {i \in 1..pos : EndsLine(i)}

(* The tokens behind a '\r' that was read are known: it was looked behind. *)
LineInv ==
  result # "error" =>
    /\ line_num = 1 + Cardinality(Ends)
    /\ result = "loading" /\ pos # 0 /\ file[pos].k = "cr" =>
         pos < Len(file) /\ file[pos + 1].k \notin {"lf", "eof"}

(* What a step of the reader does to the delimiters that were counted.     *)
LEMMA EndsGrow ==
  ASSUME ReaderInv, file' = file, pos' \in {pos + 1, pos + 2}, pos' <= Len(file),
         EndsLine(pos + 1), pos' = pos + 2 => ~EndsLine(pos + 2)
  PROVE  Cardinality(Ends') = Cardinality(Ends) + 1
<1>1. pos \in Nat
  BY DEF ReaderInv
<1>2. Ends' = Ends \cup {pos + 1}
  <2>1. \A i \in 1..pos' : EndsLine(i)' <=> EndsLine(i)
    BY DEF EndsLine
  <2>2. Ends' = {i \in 1..pos' : EndsLine(i)}
    BY <2>1 DEF Ends
  <2>3. CASE pos' = pos + 1
    BY <1>1, <2>2, <2>3 DEF Ends
  <2>4. CASE pos' = pos + 2
    <3>1. 1..(pos + 2) = 1..pos \cup {pos + 1, pos + 2}
      BY <1>1
    <3> QED
      BY <1>1, <2>2, <2>4, <3>1 DEF Ends
  <2> QED
    BY <2>3, <2>4
<1>3. pos + 1 \notin Ends
  BY <1>1 DEF Ends
<1>4. IsFiniteSet(Ends)
  BY <1>1, PlacesFinite DEF Ends
<1> QED
  BY <1>2, <1>3, <1>4, OneMore

LEMMA LinesCounted ==
  ASSUME ReaderInv, LineInv, LoadNext
  PROVE  LineInv'
<1>1. /\ Len(file) \in Nat /\ pos \in 0..Len(file) /\ line_num \in Nat
      /\ \A i \in 1..Len(file) : file[i] \in FileToken
  BY LenProperties, ElementOfSeq DEF ReaderInv, FileInv
<1>2. Cardinality(Ends) \in Nat
  BY <1>1, PlacesFinite DEF Ends
<1>3. CASE Extend
  <2>1. /\ Len(file') = Len(file) + 1
        /\ \A i \in 1..Len(file) : file'[i] = file[i]
    BY <1>3, ExtendKeepsFile DEF ReaderInv
  <2>2. UNCHANGED <<pos, line_num, result>>
    BY <1>3 DEF Extend
  <2>3. \A i \in 1..pos : EndsLine(i)' <=> EndsLine(i)
    <3> SUFFICES ASSUME NEW i \in 1..pos
                 PROVE  EndsLine(i)' <=> EndsLine(i)
      OBVIOUS
    <3>1. i \in 1..Len(file) /\ (i # 1 => i - 1 \in 1..Len(file))
      BY <1>1
    <3>2. file'[i] = file[i] /\ (i # 1 => file'[i - 1] = file[i - 1])
      BY <2>1, <3>1
    <3> QED
      BY <3>2 DEF EndsLine
  <2>4. Ends' = Ends
    BY <2>2, <2>3 DEF Ends
  <2>5. ASSUME pos # 0, pos < Len(file)
        PROVE  file'[pos] = file[pos] /\ file'[pos + 1] = file[pos + 1]
    BY <1>1, <2>1, <2>5
  <2>6. ASSUME pos # 0
        PROVE  file'[pos] = file[pos]
    BY <1>1, <2>1, <2>6
  <2> QED
    BY <1>1, <2>1, <2>2, <2>4, <2>5, <2>6 DEF LineInv
<1>4. CASE GetContent
  <2>1. /\ result = "loading" /\ pos < Len(file) /\ pos' = pos + 1
        /\ file[pos + 1] \in Token \cup {Bom}
        /\ UNCHANGED <<file, line_num>>
    BY <1>4 DEF GetContent, Reading, NextToken
  <2>2. file[pos + 1].k \notin {"cr", "lf", "eof"}
    BY <2>1, KindsDiffer
  <2>3. Ends' = Ends
    <3>1. ~EndsLine(pos + 1)
      BY <2>2 DEF EndsLine
    <3>2. 1..(pos + 1) = 1..pos \cup {pos + 1}
      BY <1>1
    <3>3. Ends' = {i \in 1..(pos + 1) : EndsLine(i)}
      BY <2>1 DEF Ends, EndsLine
    <3> QED
      BY <3>1, <3>2, <3>3 DEF Ends
  <2> QED
    BY <2>1, <2>2, <2>3 DEF LineInv
<1>5. ASSUME GetLf \/ GetCr \/ GetEof, result' # "error"
      PROVE  LineInv'
  <2>1. /\ result = "loading" /\ pos < Len(file) /\ file' = file
        /\ line_num' = line_num + 1
    BY <1>1, <1>5 DEF GetLf, GetCr, GetEof, Reading, Parse
  <2>2. /\ pos' \in {pos + 1, pos + 2} /\ pos' <= Len(file)
        /\ EndsLine(pos + 1)
        /\ pos' = pos + 2 => ~EndsLine(pos + 2)
        /\ file[pos'].k = "cr" => pos' < Len(file) /\ file[pos' + 1].k \notin {"lf", "eof"}
    <3>1. ASSUME file[pos + 1].k \in {"lf", "eof"}
          PROVE  EndsLine(pos + 1)
      <4>1. pos # 0 => file[pos].k # "cr"
        BY <2>1, <3>1 DEF LineInv
      <4>2. pos + 1 = 1 \/ file[(pos + 1) - 1].k # "cr"
        BY <1>1, <4>1
      <4> QED
        BY <3>1, <4>2 DEF EndsLine
    <3>2. ASSUME file[pos + 1].k = "cr"
          PROVE  EndsLine(pos + 1) /\ (file[pos + 2].k \in {"lf", "eof"} => ~EndsLine(pos + 2))
      <4>1. pos + 2 # 1 /\ (pos + 2) - 1 = pos + 1
        BY <1>1
      <4> QED
        BY <3>2, <4>1 DEF EndsLine
    <3>3. CASE GetLf
      BY <1>1, <3>1, <3>3 DEF GetLf, NextToken
    <3>4. CASE GetCr
      <4>1. pos + 1 < Len(file) /\ file[pos + 1].k = "cr" /\ file[pos + 2] # Eof
        BY <3>4 DEF GetCr, NextToken
      <4>2. CASE file[pos + 2].k = "lf"
        <5>1. pos' = pos + 2
          BY <3>4, <4>2 DEF GetCr
        <5> QED
          BY <1>1, <3>2, <4>1, <4>2, <5>1
      <4>3. CASE file[pos + 2].k # "lf"
        <5>1. pos' = pos + 1
          BY <3>4, <4>3 DEF GetCr
        <5>2. pos + 2 \in 1..Len(file) /\ (pos + 1) + 1 = pos + 2
          BY <1>1, <4>1
        <5>3. file[pos + 2].k # "eof"
          <6>1. file[pos + 2] \in FileToken
            BY <1>1, <5>2
          <6> QED
            BY <4>1, <6>1, KindsDiffer DEF FileToken
        <5> QED
          BY <1>1, <3>2, <4>1, <4>3, <5>1, <5>2, <5>3
      <4> QED
        BY <4>2, <4>3
    <3>5. CASE GetEof /\ NextToken = Eof
      <4>1. file[pos + 1] = Eof /\ pos' = Len(file)
        BY <3>5 DEF GetEof, NextToken
      <4>2. pos + 1 = Len(file)
        BY <1>1, <2>1, <4>1 DEF ReaderInv, FileInv
      <4>3. file[pos + 1].k = "eof"
        BY <4>1, KindsDiffer
      <4> QED
        BY <1>1, <3>1, <4>1, <4>2, <4>3
    <3>6. CASE GetEof /\ pos + 1 < Len(file) /\ NextToken.k = "cr" /\ file[pos + 2] = Eof
      <4>1. file[pos + 1].k = "cr" /\ pos' = Len(file)
        BY <3>6 DEF GetEof, NextToken
      <4>2. pos + 2 = Len(file)
        BY <1>1, <3>6 DEF ReaderInv, FileInv
      <4>3. file[pos + 2].k = "eof"
        BY <3>6, KindsDiffer
      <4> QED
        BY <1>1, <3>2, <4>1, <4>2, <4>3
    <3> QED
      BY <1>5, <3>3, <3>4, <3>5, <3>6 DEF GetEof
  <2>3. Cardinality(Ends') = Cardinality(Ends) + 1
    BY <2>1, <2>2, EndsGrow
  <2>4. line_num = 1 + Cardinality(Ends)
    BY <2>1 DEF LineInv
  <2>5. line_num' = 1 + Cardinality(Ends')
    BY <1>2, <2>1, <2>3, <2>4
  <2> QED
    BY <2>1, <2>2, <2>5 DEF LineInv
<1>6. CASE Loaded
  <2>1. result = "loading" /\ result' \in {"ok", "error"} /\ UNCHANGED <<file, pos, line_num>>
    BY <1>6 DEF Loaded, Reading
  <2>2. Ends' = Ends
    BY <2>1 DEF Ends, EndsLine
  <2> QED
    BY <2>1, <2>2 DEF LineInv
<1>7. result' = "error" => LineInv'
  BY DEF LineInv
<1> QED
  BY <1>3, <1>4, <1>5, <1>6, <1>7 DEF LoadNext

-----------------------------------------------------------------------------
(* Text.  A line of a subtitle is its one token, without a byte order mark. *)

PlainInv ==
  result = "loading" =>
    /\ state # "GET_SUBTITLE" => line_num # 1
    /\ buf # <<>> => buf[Len(buf)] = file[pos]
    /\ \A i \in 1..Len(buf) : buf[i] = Bom => line_num = 1
    /\ Len(buf) = 2 => buf[1] = Bom

LEMMA ParseLeavesPlain ==
  ASSUME ReaderInv, result = "loading", NEW line, Parse(line)
  PROVE  PlainInv'
<1>1. buf' = <<>> /\ line_num' = line_num + 1 /\ line_num \in Nat \ {0}
  BY DEF Parse, ReaderInv
<1>2. Len(buf') = 0
  BY <1>1, EmptySeq
<1>3. line_num' # 1
  BY <1>1
<1> QED
  BY <1>1, <1>2, <1>3 DEF PlainInv

LEMMA PlainKept == ASSUME ReaderInv, PlainInv, LoadNext PROVE PlainInv'
<1>1. /\ Len(file) \in Nat /\ pos \in 0..Len(file) /\ buf \in Seq(Token \cup {Bom})
      /\ Len(buf) \in Nat /\ Len(buf) <= 2 /\ line_num \in 1..(pos + 1)
  BY LenProperties DEF ReaderInv, FileInv, BufferInv
<1>2. CASE Extend
  <2>1. /\ \A i \in 1..Len(file) : file'[i] = file[i]
        /\ UNCHANGED <<pos, buf, line_num, state, result>>
    BY <1>2, ExtendKeepsFile DEF Extend, ReaderInv
  <2>2. result = "loading" /\ buf # <<>> => pos \in 1..Len(file)
    BY <1>1 DEF ReaderInv, BufferInv
  <2> QED
    BY <2>1, <2>2 DEF PlainInv
<1>3. ASSUME GetContent, result' = "loading"
      PROVE  PlainInv'
  <2>1. /\ result = "loading" /\ pos < Len(file) /\ pos' = pos + 1
        /\ file[pos + 1] \in Token \cup {Bom}
        /\ buf' = Append(buf, file[pos + 1])
        /\ UNCHANGED <<file, line_num, state>>
    BY <1>3 DEF GetContent, Reading, NextToken
  <2>2. /\ Len(buf') = Len(buf) + 1
        /\ \A i \in 1..Len(buf) : buf'[i] = buf[i]
        /\ buf'[Len(buf) + 1] = file[pos + 1]
    BY <1>1, <2>1, AppendProperties
  <2>3. buf'[Len(buf')] = file'[pos']
    BY <2>1, <2>2
  <2>4. file[pos + 1] = Bom => pos = 0
    <3> SUFFICES ASSUME pos # 0
                 PROVE  file[pos + 1] # Bom
      OBVIOUS
    <3>1. pos \in 1..Len(file)
      BY <1>1
    <3> QED
      BY <2>1, <3>1 DEF ReaderInv, FileInv
  <2>5. ASSUME NEW i \in 1..Len(buf'), buf'[i] = Bom
        PROVE  line_num' = 1
    <3>1. CASE i = Len(buf) + 1
      <4>1. pos = 0
        BY <2>2, <2>4, <2>5, <3>1
      <4> QED
        BY <1>1, <2>1, <4>1
    <3>2. CASE i # Len(buf) + 1
      <4>1. i \in 1..Len(buf) /\ buf[i] = Bom
        BY <1>1, <2>2, <2>5, <3>2
      <4> QED
        BY <2>1, <4>1 DEF PlainInv
    <3> QED
      BY <3>1, <3>2
  <2>6. ASSUME Len(buf') = 2
        PROVE  buf'[1] = Bom
    <3>1. Len(buf) = 1
      <4>1. \A n \in Nat : n + 1 = 2 => n = 1
        OBVIOUS
      <4> QED
        BY <1>1, <2>2, <2>6, <4>1
    <3>2. buf # <<>> /\ buf'[1] = buf[1] /\ buf[1] = file[pos]
      BY <2>1, <2>2, <3>1, EmptySeq DEF PlainInv
    <3>3. pos \in 1..Len(file) /\ file[pos] \in Token \cup {Bom}
      BY <1>1, <2>1, <3>2 DEF ReaderInv, BufferInv
    <3>4. file[pos + 1] \notin Delimiter \cup {Eof}
      BY <2>1, KindsDiffer
    <3>5. file[pos] = Bom
      BY <2>1, <3>3, <3>4 DEF ReaderInv, FileInv
    <3> QED
      BY <3>2, <3>5
  <2>7. state' # "GET_SUBTITLE" => line_num' # 1
    BY <2>1 DEF PlainInv
  <2> QED
    BY <2>3, <2>5, <2>6, <2>7 DEF PlainInv
<1>4. CASE GetLf \/ GetCr \/ GetEof
  BY <1>4, ParseLeavesPlain DEF GetLf, GetCr, GetEof, Reading
<1>5. CASE Loaded
  BY <1>5 DEF Loaded, PlainInv
<1>6. result' # "loading" => PlainInv'
  BY DEF PlainInv
<1> QED
  BY <1>2, <1>3, <1>4, <1>5, <1>6 DEF LoadNext

(* What a stored line can be, and a stored subtitle.                       *)
Piece == ContentKind \cup {"newline"}
Stored == [time : Times \cup {0}, text : Seq(Piece)]

TextTypes == text \in Seq(Piece) /\ subtitles \in Seq(Stored)

(* A line without text.                                                    *)
LEMMA NoText ==
  ASSUME ReaderInv, NEW line \in {buf, Line}, IsBlank(line) \/ IsId(line) \/ IsTime(line)
  PROVE  TextInLine = {}
<1>1. buf \in Seq(Token \cup {Bom}) /\ Len(buf) \in Nat
  BY LenProperties DEF ReaderInv, BufferInv
<1> SUFFICES ASSUME NEW i \in 1..Len(buf)
             PROVE  buf[i].k # "text"
  BY DEF TextInLine
<1>2. CASE line = buf
  <2>1. CASE IsBlank(line)
    BY <1>2, <2>1 DEF IsBlank
  <2>2. CASE IsId(line) \/ IsTime(line)
    <3>1. Len(buf) = 1
      BY <1>2, <2>2 DEF IsId, IsTime
    <3>2. i = 1
      BY <3>1
    <3> QED
      BY <1>2, <2>2, <3>2 DEF IsId, IsTime
  <2> QED
    BY <2>1, <2>2
<1>3. CASE line = Tail(buf) /\ buf # <<>> /\ buf[1] = Bom
  <2>1. /\ Len(line) = Len(buf) - 1
        /\ \A j \in 1..Len(line) : line[j] = buf[j + 1]
    BY <1>1, <1>3, HeadTailProperties
  <2>2. CASE i = 1
    BY <1>3, <2>2, KindsDiffer
  <2>3. CASE i # 1
    <3>1. i - 1 \in 1..Len(line) /\ (i - 1) + 1 = i
      BY <1>1, <2>1, <2>3
    <3>2. line[i - 1] = buf[i]
      BY <2>1, <3>1
    <3>3. CASE IsBlank(line)
      BY <3>1, <3>2, <3>3 DEF IsBlank
    <3>4. CASE IsId(line) \/ IsTime(line)
      <4>0. Len(line) = 1
        BY <3>4 DEF IsId, IsTime
      <4>1. i - 1 = 1
        BY <3>1, <4>0
      <4> QED
        BY <3>2, <3>4, <4>1 DEF IsId, IsTime
    <3> QED
      BY <3>3, <3>4
  <2> QED
    BY <2>2, <2>3
<1> QED
  BY <1>2, <1>3 DEF Line

LEMMA PlacesAppend ==
  ASSUME NEW lines \in Seq(Piece), NEW p \in Piece
  PROVE  /\ Append(lines, p) \in Seq(Piece)
         /\ p = "text" => Places(Append(lines, p)) = Places(lines) \cup {Len(lines) + 1}
         /\ p # "text" => Places(Append(lines, p)) = Places(lines)
<1>1. /\ Append(lines, p) \in Seq(Piece)
      /\ Len(Append(lines, p)) = Len(lines) + 1
      /\ \A i \in 1..Len(lines) : Append(lines, p)[i] = lines[i]
      /\ Append(lines, p)[Len(lines) + 1] = p
  BY AppendProperties
<1> DEFINE new == Append(lines, p)
<1> HIDE DEF new
<1>2. Len(lines) \in Nat
  BY LenProperties
<1>3. 1..(Len(lines) + 1) = 1..Len(lines) \cup {Len(lines) + 1}
  BY <1>2
<1>4. /\ Len(new) = Len(lines) + 1
      /\ \A i \in 1..Len(lines) : new[i] = lines[i]
      /\ new[Len(lines) + 1] = p
  BY <1>1 DEF new
<1>5. Places(new) = {i \in 1..Len(lines) \cup {Len(lines) + 1} : new[i] = "text"}
  BY <1>3, <1>4 DEF Places
<1>6. /\ p = "text" => Places(new) = Places(lines) \cup {Len(lines) + 1}
      /\ p # "text" => Places(new) = Places(lines)
  BY <1>4, <1>5 DEF Places
<1> QED
  BY <1>1, <1>6 DEF new

(* A line of text, and a line that holds none.                             *)
LineAdded ==
  \/ TextInLine = {} /\ Places(text') = Places(text)
  \/ /\ \E b : TextInLine = {b}
     /\ \E n \in Nat : n \notin Places(text) /\ Places(text') = Places(text) \cup {n}

LEMMA AddLineIs ==
  ASSUME ReaderInv, TextTypes, buf \in Seq(Token), Len(buf) = 1, text' = AddLine(buf)
  PROVE  text' \in Seq(Piece) /\ LineAdded
<1> DEFINE base == IF text = <<>> THEN <<>> ELSE Append(text, "newline")
           k == buf[1].k
<1>1. buf[1] \in Token
  BY ElementOfSeq
<1>2. k \in ContentKind
  BY <1>1, LoadConstants DEF Token
<1>3. text \in Seq(Piece) /\ "newline" \in Piece /\ k \in Piece
  BY <1>2 DEF TextTypes, Piece
<1>4. base \in Seq(Piece) /\ Places(base) = Places(text)
  <2>1. CASE text = <<>>
    BY <1>3, <2>1
  <2>2. CASE text # <<>>
    BY <1>3, <2>2, PlacesAppend
  <2> QED
    BY <2>1, <2>2
<1>5. text' = base \o (IF k = "tag" THEN <<>> ELSE <<k>>)
  BY DEF AddLine
<1> HIDE DEF base, k
<1>6. TextInLine = IF k = "text" THEN {1} ELSE {}
  BY DEF TextInLine, k
<1>7. CASE k = "tag"
  <2>1. text' = base
    BY <1>4, <1>5, <1>7, ConcatEmptySeq
  <2>2. TextInLine = {}
    BY <1>6, <1>7
  <2> QED
    BY <1>4, <2>1, <2>2 DEF LineAdded
<1>8. CASE k # "tag"
  <2>1. text' = Append(base, k)
    BY <1>3, <1>4, <1>5, <1>8, AppendIsConcat
  <2>2. CASE k = "text"
    <3>1. text' \in Seq(Piece) /\ Places(text') = Places(text) \cup {Len(base) + 1}
      BY <1>3, <1>4, <2>1, <2>2, PlacesAppend
    <3>2. Len(base) + 1 \in Nat /\ Len(base) + 1 \notin Places(base)
      BY <1>4, LenProperties DEF Places
    <3>3. TextInLine = {1}
      BY <1>6, <2>2
    <3> QED
      BY <1>4, <3>1, <3>2, <3>3 DEF LineAdded
  <2>3. CASE k # "text"
    <3>1. text' \in Seq(Piece) /\ Places(text') = Places(text)
      BY <1>3, <1>4, <2>1, <2>3, PlacesAppend
    <3>2. TextInLine = {}
      BY <1>6, <2>3
    <3> QED
      BY <3>1, <3>2 DEF LineAdded
  <2> QED
    BY <2>2, <2>3
<1> QED
  BY <1>7, <1>8

LEMMA FunctionIsLine ==
  ASSUME NEW n \in Nat, NEW S, NEW f \in [1..n -> S]
  PROVE  f \in Seq(S)
BY SeqDef

(* Where a line's text goes: to the subtitle being read; and the text of a *)
(* subtitle goes to the stored ones when a blank line comes.               *)
LEMMA ParseMoves ==
  ASSUME ReaderInv, PlainInv, TextTypes, result = "loading",
         NEW line \in {buf, Line}, Parse(line), result' # "error"
  PROVE  /\ TextTypes'
         /\ \/ TextInLine = {} /\ UNCHANGED <<text, subtitles>>
            \/ /\ TextInLine = {} /\ text' = <<>>
               /\ subtitles' = Append(subtitles, [time |-> time, text |-> text])
            \/ LineAdded /\ UNCHANGED subtitles
<1>1. ASSUME UNCHANGED <<text, subtitles>>
      PROVE  TextTypes'
  BY <1>1 DEF TextTypes
<1>2. ASSUME TimeLine(line)
      PROVE  IsTime(line) /\ UNCHANGED <<text, subtitles>>
  BY <1>2 DEF TimeLine, Invalid
<1>3. CASE GetSubtitle(line)
  <2>1. (IsBlank(line) \/ IsId(line) \/ IsTime(line)) /\ UNCHANGED <<text, subtitles>>
    BY <1>2, <1>3 DEF GetSubtitle, Invalid
  <2> QED
    BY <1>1, <2>1, NoText
<1>4. CASE GetTime(line)
  <2>1. IsTime(line) /\ UNCHANGED <<text, subtitles>>
    BY <1>2, <1>4 DEF GetTime
  <2> QED
    BY <1>1, <2>1, NoText
<1>5. CASE GetText(line) /\ IsBlank(line)
  <2>1. TextInLine = {}
    BY <1>5, NoText
  <2>2. /\ text' = <<>>
        /\ subtitles' = IF text = <<>> THEN subtitles
                        ELSE Append(subtitles, [time |-> time, text |-> text])
    BY <1>5 DEF GetText
  <2>3. [time |-> time, text |-> text] \in Stored
    BY DEF ReaderInv, ParserInv, TextTypes, Stored
  <2>4. CASE text = <<>>
    BY <1>1, <2>1, <2>2, <2>4
  <2>5. CASE text # <<>>
    <3>1. subtitles' = Append(subtitles, [time |-> time, text |-> text])
      BY <2>2, <2>5
    <3>2. TextTypes'
      BY <2>2, <2>3, <3>1, AppendProperties, EmptySeq DEF TextTypes
    <3> QED
      BY <2>1, <2>2, <3>1, <3>2
  <2> QED
    BY <2>4, <2>5
<1>6. CASE GetText(line) /\ ~IsBlank(line)
  <2>1. line_num # 1
    BY <1>6 DEF GetText, PlainInv
  <2>2. line = buf
    BY <2>1 DEF Line
  <2>3. /\ buf \in Seq(Token \cup {Bom}) /\ Len(buf) \in Nat /\ Len(buf) <= 2
    BY LenProperties DEF ReaderInv, BufferInv
  <2>4. \A i \in 1..Len(buf) : buf[i] # Bom
    BY <2>1 DEF PlainInv
  <2>5. Len(buf) # 0
    BY <1>6, <2>2 DEF IsBlank
  <2>6. Len(buf) # 2
    <3>1. Len(buf) = 2 => buf[1] = Bom
      BY DEF PlainInv
    <3>2. Len(buf) = 2 => 1 \in 1..Len(buf)
      OBVIOUS
    <3> QED
      BY <2>4, <3>1, <3>2
  <2>7. Len(buf) = 1
    <3>1. \A n \in Nat : n <= 2 /\ n # 0 /\ n # 2 => n = 1
      OBVIOUS
    <3> QED
      BY <2>3, <2>5, <2>6, <3>1
  <2>8. buf \in Seq(Token)
    <3>1. buf \in [1..1 -> Token \cup {Bom}]
      BY <2>3, <2>7, LenProperties
    <3>2. buf \in [1..1 -> Token]
      BY <2>4, <2>7, <3>1
    <3> QED
      BY <3>2, FunctionIsLine
  <2>9. text' = AddLine(buf) /\ UNCHANGED subtitles
    BY <1>6, <2>2 DEF GetText
  <2>10. text' \in Seq(Piece) /\ LineAdded
    BY <2>7, <2>8, <2>9, AddLineIs
  <2> QED
    BY <2>9, <2>10 DEF TextTypes
<1> QED
  BY <1>3, <1>4, <1>5, <1>6 DEF Parse

(* The places in a text, numbered by its subtitle, are as many.            *)
LEMMA Numbered ==
  ASSUME NEW S, IsFiniteSet(S), NEW n
  PROVE  /\ IsFiniteSet({<<n, i>> : i \in S})
         /\ Cardinality({<<n, i>> : i \in S}) = Cardinality(S)
<1> DEFINE T == {<<n, i>> : i \in S}
           f == [i \in S |-> <<n, i>>]
<1>1. f \in [S -> T]
  OBVIOUS
<1>2. \A i, j \in S : f[i] = f[j] => i = j
  OBVIOUS
<1>3. \A t \in T : \E i \in S : f[i] = t
  OBVIOUS
<1>4. f \in Bijection(S, T)
  BY <1>1, <1>2, <1>3 DEF Bijection, Injection, Surjection, IsInjective
<1>5. ExistsBijection(S, T)
  BY <1>4 DEF ExistsBijection
<1> QED
  BY <1>5, FS_Bijection

LEMMA StoredGrows ==
  ASSUME TextTypes, IsFiniteSet(TextStored), NEW s \in Stored,
         subtitles' = Append(subtitles, s)
  PROVE  /\ IsFiniteSet(TextStored')
         /\ Cardinality(TextStored') = Cardinality(TextStored) + Cardinality(Places(s.text))
<1>1. /\ Len(subtitles) \in Nat
      /\ Len(subtitles') = Len(subtitles) + 1
      /\ \A m \in 1..Len(subtitles) : subtitles'[m] = subtitles[m]
      /\ subtitles'[Len(subtitles) + 1] = s
  BY AppendProperties, LenProperties DEF TextTypes
<1>2. PICK k : k = Len(subtitles) + 1
  OBVIOUS
<1> DEFINE new == {<<k, i>> : i \in Places(s.text)}
<1>3. 1..Len(subtitles') = 1..Len(subtitles) \cup {k} /\ k \notin 1..Len(subtitles)
  BY <1>1, <1>2
<1>4. TextStored' = TextStored \cup new
  <2>1. ASSUME NEW m \in 1..Len(subtitles), NEW i
        PROVE  i \in Places(subtitles'[m].text) <=> i \in Places(subtitles[m].text)
    BY <1>1
  <2>2. ASSUME NEW i
        PROVE  i \in Places(subtitles'[k].text) <=> i \in Places(s.text)
    BY <1>1, <1>2
  <2>3. ASSUME NEW x
        PROVE  x \in TextStored' <=>
                 \E m \in 1..Len(subtitles') : \E i : i \in Places(subtitles'[m].text) /\ x = <<m, i>>
    BY DEF TextStored, Places
  <2>4. ASSUME NEW x
        PROVE  x \in TextStored <=>
                 \E m \in 1..Len(subtitles) : \E i : i \in Places(subtitles[m].text) /\ x = <<m, i>>
    BY DEF TextStored
  <2>5. ASSUME NEW x
        PROVE  x \in new <=> \E i : i \in Places(s.text) /\ x = <<k, i>>
    OBVIOUS
  <2> HIDE DEF new
  <2>6. ASSUME NEW x
        PROVE  x \in TextStored' <=> x \in TextStored \/ x \in new
    BY <1>3, <2>1, <2>2, <2>3, <2>4, <2>5
  <2> QED
    BY <2>6
<1>5. TextStored \cap new = {}
  BY <1>3 DEF TextStored
<1>6. IsFiniteSet(Places(s.text))
  <2>1. s.text \in Seq(Piece)
    BY DEF Stored
  <2>2. Len(s.text) \in Nat
    BY <2>1, LenProperties
  <2> QED
    BY <2>2, PlacesFinite DEF Places
<1>7. IsFiniteSet(new) /\ Cardinality(new) = Cardinality(Places(s.text))
  BY <1>6, Numbered
<1> HIDE DEF new
<1>8. /\ IsFiniteSet(TextStored \cup new)
      /\ Cardinality(TextStored \cup new)
           = Cardinality(TextStored) + Cardinality(new) - Cardinality(TextStored \cap new)
  BY <1>7, FS_Union
<1>9. Cardinality(TextStored \cap new) = 0
  BY <1>5, FS_EmptySet
<1>10. Cardinality(TextStored) \in Nat /\ Cardinality(new) \in Nat
  BY <1>7, FS_CardinalityType
<1> QED
  BY <1>4, <1>7, <1>8, <1>9, <1>10

TextInv == result # "error" => TextTypes /\ IsFiniteSet(TextStored) /\ TextConserved

(* Nothing is counted twice, and nothing is left out.                      *)
LEMMA CountsAreNats ==
  ASSUME ReaderInv, TextTypes, IsFiniteSet(TextStored)
  PROVE  /\ IsFiniteSet(TextRead) /\ Cardinality(TextRead) \in Nat
         /\ IsFiniteSet(Places(text)) /\ Cardinality(Places(text)) \in Nat
         /\ IsFiniteSet(TextInLine) /\ Cardinality(TextInLine) \in Nat
         /\ Cardinality(TextStored) \in Nat
<1>1. pos \in Nat /\ Len(text) \in Nat /\ Len(buf) \in Nat
  BY LenProperties DEF ReaderInv, BufferInv, TextTypes
<1>2. IsFiniteSet(TextRead) /\ Cardinality(TextRead) \in Nat
  BY <1>1, PlacesFinite DEF TextRead
<1>3. IsFiniteSet(Places(text)) /\ Cardinality(Places(text)) \in Nat
  BY <1>1, PlacesFinite DEF Places
<1>4. IsFiniteSet(TextInLine) /\ Cardinality(TextInLine) \in Nat
  BY <1>1, PlacesFinite DEF TextInLine
<1>5. Cardinality(TextStored) \in Nat
  BY FS_CardinalityType
<1> QED
  BY <1>2, <1>3, <1>4, <1>5

LEMMA ParseKeepsText ==
  ASSUME ReaderInv, PlainInv, TextInv, result = "loading",
         NEW line \in {buf, Line}, Parse(line), TextRead' = TextRead
  PROVE  TextInv'
<1> SUFFICES ASSUME result' # "error"
             PROVE  TextTypes' /\ IsFiniteSet(TextStored') /\ TextConserved'
  BY DEF TextInv
<1>1. TextTypes /\ IsFiniteSet(TextStored)
  BY DEF TextInv
<1>2. Cardinality(TextRead)
        = Cardinality(TextStored) + Cardinality(Places(text)) + Cardinality(TextInLine)
  BY DEF TextInv, TextConserved
<1>3. /\ Cardinality(TextRead) \in Nat /\ Cardinality(TextStored) \in Nat
      /\ IsFiniteSet(Places(text)) /\ Cardinality(Places(text)) \in Nat
      /\ Cardinality(TextInLine) \in Nat
  BY <1>1, CountsAreNats
<1>4. TextTypes'
  BY <1>1, ParseMoves
<1>5. TextInLine' = {}
  <2>1. buf' = <<>>
    BY DEF Parse
  <2>2. Len(buf') = 0
    BY <2>1
  <2> QED
    BY <2>2 DEF TextInLine
<1>6. Cardinality(TextInLine') = 0
  BY <1>5, FS_EmptySet
<1>7. ASSUME IsFiniteSet(TextStored'),
             Cardinality(TextRead) = Cardinality(TextStored') + Cardinality(Places(text'))
      PROVE  IsFiniteSet(TextStored') /\ TextConserved'
  <2>1. Cardinality(TextStored') \in Nat
    BY <1>7, FS_CardinalityType
  <2>2. Cardinality(Places(text')) \in Nat
    <3>1. Len(text') \in Nat
      BY <1>4, LenProperties DEF TextTypes
    <3> QED
      BY <3>1, PlacesFinite DEF Places
  <2>3. Cardinality(TextRead')
          = Cardinality(TextStored') + Cardinality(Places(text')) + Cardinality(TextInLine')
    BY <1>6, <1>7, <2>1, <2>2
  <2> QED
    BY <1>7, <2>3 DEF TextConserved
<1>8. CASE TextInLine = {} /\ UNCHANGED <<text, subtitles>>
  <2>1. TextStored' = TextStored
    BY <1>8 DEF TextStored
  <2>2. Cardinality(TextInLine) = 0
    BY <1>8, FS_EmptySet
  <2> QED
    BY <1>1, <1>2, <1>3, <1>4, <1>7, <1>8, <2>1, <2>2
<1>9. CASE /\ TextInLine = {} /\ text' = <<>>
           /\ subtitles' = Append(subtitles, [time |-> time, text |-> text])
  <2> DEFINE s == [time |-> time, text |-> text]
  <2>1. s \in Stored /\ s.text = text
    BY <1>1 DEF ReaderInv, ParserInv, TextTypes, Stored
  <2>2. subtitles' = Append(subtitles, s)
    BY <1>9
  <2> HIDE DEF s
  <2>3. /\ IsFiniteSet(TextStored')
        /\ Cardinality(TextStored') = Cardinality(TextStored) + Cardinality(Places(text))
    BY <1>1, <2>1, <2>2, StoredGrows
  <2>4. Places(text') = {}
    <3>1. Len(text') = 0
      BY <1>9
    <3> QED
      BY <3>1 DEF Places
  <2>5. Cardinality(TextInLine) = 0 /\ Cardinality(Places(text')) = 0
    BY <1>9, <2>4, FS_EmptySet
  <2> QED
    BY <1>2, <1>3, <1>4, <1>7, <2>3, <2>5
<1>10. CASE LineAdded /\ UNCHANGED subtitles
  <2>1. TextStored' = TextStored
    BY <1>10 DEF TextStored
  <2>2. Cardinality(Places(text')) = Cardinality(Places(text)) + Cardinality(TextInLine)
    <3>1. CASE TextInLine = {} /\ Places(text') = Places(text)
      <4>1. Cardinality(TextInLine) = 0
        BY <3>1, FS_EmptySet
      <4> QED
        BY <1>3, <3>1, <4>1
    <3>2. ASSUME NEW b, TextInLine = {b}, NEW n \in Nat, n \notin Places(text),
                 Places(text') = Places(text) \cup {n}
          PROVE  Cardinality(Places(text')) = Cardinality(Places(text)) + Cardinality(TextInLine)
      <4>1. Cardinality(TextInLine) = 1
        BY <3>2, FS_Singleton
      <4>2. Cardinality(Places(text')) = Cardinality(Places(text)) + 1
        BY <1>3, <3>2, OneMore
      <4> QED
        BY <4>1, <4>2
    <3> QED
      BY <1>10, <3>1, <3>2 DEF LineAdded
  <2> QED
    BY <1>1, <1>2, <1>3, <1>4, <1>7, <2>1, <2>2
<1> QED
  BY <1>1, <1>8, <1>9, <1>10, ParseMoves

LEMMA ContentKeepsText ==
  ASSUME ReaderInv, TextInv, GetContent
  PROVE  TextInv'
<1>1. /\ pos \in Nat /\ Len(buf) \in Nat /\ buf \in Seq(Token \cup {Bom})
      /\ pos' = pos + 1 /\ result = "loading"
      /\ file[pos + 1] \in Token \cup {Bom}
      /\ UNCHANGED <<file, text, subtitles>>
  BY LenProperties DEF ReaderInv, FileInv, BufferInv, GetContent, Reading, NextToken
<1> SUFFICES ASSUME result' # "error"
             PROVE  TextTypes' /\ IsFiniteSet(TextStored') /\ TextConserved'
  BY DEF TextInv
<1>2. TextTypes /\ IsFiniteSet(TextStored)
  BY <1>1 DEF TextInv
<1>3. Cardinality(TextRead)
        = Cardinality(TextStored) + Cardinality(Places(text)) + Cardinality(TextInLine)
  BY <1>1 DEF TextInv, TextConserved
<1>4. TextStored' = TextStored /\ Places(text') = Places(text) /\ TextTypes'
  BY <1>1, <1>2 DEF TextStored, TextTypes
<1>5. buf' = Append(buf, file[pos + 1])
  BY DEF GetContent, NextToken
<1>6. /\ Len(buf') = Len(buf) + 1
      /\ \A i \in 1..Len(buf) : buf'[i] = buf[i]
      /\ buf'[Len(buf) + 1] = file[pos + 1]
  BY <1>1, <1>5, AppendProperties
<1>7. /\ 1..(pos + 1) = 1..pos \cup {pos + 1} /\ pos + 1 \notin 1..pos
      /\ 1..(Len(buf) + 1) = 1..Len(buf) \cup {Len(buf) + 1}
      /\ Len(buf) + 1 \notin 1..Len(buf)
  BY <1>1
<1>8. TextRead' = {i \in 1..pos \cup {pos + 1} : file[i].k = "text"}
  BY <1>1, <1>7 DEF TextRead
<1>9. TextInLine' = {i \in 1..Len(buf) \cup {Len(buf) + 1} : buf'[i].k = "text"}
  BY <1>6, <1>7 DEF TextInLine
<1>10. /\ IsFiniteSet(TextRead) /\ Cardinality(TextRead) \in Nat
       /\ IsFiniteSet(TextInLine) /\ Cardinality(TextInLine) \in Nat
       /\ Cardinality(TextStored) \in Nat /\ Cardinality(Places(text)) \in Nat
  BY <1>2, CountsAreNats
<1>11. CASE file[pos + 1].k = "text"
  <2>1. TextRead' = TextRead \cup {pos + 1} /\ pos + 1 \notin TextRead
    BY <1>7, <1>8, <1>11 DEF TextRead
  <2>2. /\ TextInLine' = TextInLine \cup {Len(buf) + 1}
        /\ Len(buf) + 1 \notin TextInLine
    BY <1>6, <1>7, <1>9, <1>11 DEF TextInLine
  <2>3. Cardinality(TextRead') = Cardinality(TextRead) + 1
    BY <1>10, <2>1, OneMore
  <2>4. Cardinality(TextInLine') = Cardinality(TextInLine) + 1
    BY <1>10, <2>2, OneMore
  <2>5. Cardinality(TextRead')
          = Cardinality(TextStored') + Cardinality(Places(text')) + Cardinality(TextInLine')
    BY <1>3, <1>4, <1>10, <2>3, <2>4
  <2> QED
    BY <1>2, <1>4, <2>5 DEF TextConserved
<1>12. CASE file[pos + 1].k # "text"
  <2>1. TextRead' = TextRead
    BY <1>8, <1>12 DEF TextRead
  <2>2. TextInLine' = TextInLine
    BY <1>6, <1>9, <1>12 DEF TextInLine
  <2> QED
    BY <1>2, <1>3, <1>4, <2>1, <2>2 DEF TextConserved
<1> QED
  BY <1>11, <1>12

(* A delimiter and the end of the file are no text.                        *)
LEMMA LineKeepsText ==
  ASSUME ReaderInv, PlainInv, TextInv, GetLf \/ GetCr \/ GetEof
  PROVE  TextInv'
<1>1. /\ Len(file) \in Nat /\ pos \in 0..Len(file)
      /\ \A i \in 1..Len(file) : file[i] \in FileToken
  BY LenProperties, ElementOfSeq DEF ReaderInv, FileInv
<1>2. /\ result = "loading" /\ file' = file
      /\ \E line \in {buf, Line} : Parse(line)
  BY DEF GetLf, GetCr, GetEof, Reading
<1>3. /\ pos' \in {pos + 1, pos + 2} /\ pos' <= Len(file)
      /\ file[pos + 1].k # "text"
      /\ pos' = pos + 2 => file[pos + 2].k # "text"
  <2>1. CASE GetLf
    BY <1>1, <2>1 DEF GetLf, NextToken
  <2>2. CASE GetCr
    <3>1. pos + 1 < Len(file) /\ file[pos + 1].k = "cr"
          /\ pos' = IF file[pos + 2].k = "lf" THEN pos + 2 ELSE pos + 1
      BY <2>2 DEF GetCr, NextToken
    <3> QED
      BY <1>1, <3>1
  <2>3. CASE GetEof /\ NextToken = Eof /\ pos < Len(file)
    <3>1. file[pos + 1] = Eof /\ pos' = Len(file)
      BY <2>3 DEF GetEof, NextToken
    <3>2. pos + 1 = Len(file)
      BY <1>1, <2>3, <3>1 DEF ReaderInv, FileInv
    <3> QED
      BY <1>1, <3>1, <3>2, KindsDiffer
  <2>4. CASE GetEof /\ pos + 1 < Len(file) /\ NextToken.k = "cr" /\ file[pos + 2] = Eof
    <3>1. file[pos + 1].k = "cr" /\ pos' = Len(file)
      BY <2>4 DEF GetEof, NextToken
    <3>2. pos + 2 = Len(file)
      BY <1>1, <2>4 DEF ReaderInv, FileInv
    <3> QED
      BY <1>1, <2>4, <3>1, <3>2, KindsDiffer
  <2> QED
    BY <2>1, <2>2, <2>3, <2>4 DEF GetEof
<1>4. TextRead' = TextRead
  <2>1. TextRead' = {i \in 1..pos' : file[i].k = "text"}
    BY <1>2 DEF TextRead
  <2>2. \A i \in 1..pos' : i \in 1..pos \/ i = pos + 1 \/ (i = pos + 2 /\ pos' = pos + 2)
    BY <1>1, <1>3
  <2>3. 1..pos \subseteq 1..pos'
    BY <1>1, <1>3
  <2> QED
    BY <1>3, <2>1, <2>2, <2>3 DEF TextRead
<1> QED
  BY <1>2, <1>4, ParseKeepsText

LEMMA TextKept == ASSUME ReaderInv, PlainInv, TextInv, LoadNext PROVE TextInv'
<1>1. CASE Extend
  <2>1. /\ \A i \in 1..Len(file) : file'[i] = file[i]
        /\ UNCHANGED <<pos, buf, text, subtitles, result>>
    BY <1>1, ExtendKeepsFile DEF Extend, ReaderInv
  <2>2. \A i \in 1..pos : file'[i] = file[i]
    <3>1. Len(file) \in Nat /\ pos \in 0..Len(file)
      BY LenProperties DEF ReaderInv, FileInv
    <3> QED
      BY <2>1, <3>1
  <2>3. TextRead' = TextRead
    BY <2>1, <2>2 DEF TextRead
  <2>4. TextStored' = TextStored /\ TextInLine' = TextInLine /\ (TextTypes => TextTypes')
    BY <2>1 DEF TextStored, TextInLine, TextTypes
  <2> QED
    BY <2>1, <2>3, <2>4 DEF TextInv, TextConserved
<1>2. CASE Loaded
  <2>1. /\ result = "loading"
        /\ UNCHANGED <<file, pos, buf, text, subtitles>>
    BY <1>2 DEF Loaded, Reading
  <2>2. /\ TextRead' = TextRead /\ TextStored' = TextStored /\ TextInLine' = TextInLine
        /\ (TextTypes => TextTypes')
    BY <2>1 DEF TextRead, TextStored, TextInLine, TextTypes
  <2> QED
    BY <2>1, <2>2 DEF TextInv, TextConserved
<1> QED
  BY <1>1, <1>2, ContentKeepsText, LineKeepsText DEF LoadNext

-----------------------------------------------------------------------------
(* Every line and every text that was read is accounted for.               *)

CountInv == ReaderInv /\ LineInv /\ PlainInv /\ TextInv

LEMMA CountInvariant == Spec => []CountInv
<1>1. Init => LineInv /\ PlainInv /\ TextInv
  <2> SUFFICES ASSUME Init
               PROVE  LineInv /\ PlainInv /\ TextInv
    OBVIOUS
  <2>1. /\ pos = 0 /\ buf = <<>> /\ text = <<>> /\ subtitles = <<>>
        /\ line_num = 1 /\ state = "GET_SUBTITLE"
        /\ Len(buf) = 0 /\ Len(text) = 0 /\ Len(subtitles) = 0
        /\ text \in Seq(Piece) /\ subtitles \in Seq(Stored)
    BY EmptySeq DEF Init, LoadInit
  <2>2. /\ Ends = {} /\ TextRead = {} /\ TextInLine = {}
        /\ TextStored = {} /\ Places(text) = {}
    BY <2>1 DEF Ends, TextRead, TextInLine, TextStored, Places
  <2>3. IsFiniteSet({}) /\ Cardinality({}) = 0
    BY FS_EmptySet
  <2>4. LineInv
    BY <2>1, <2>2, <2>3 DEF LineInv
  <2>5. PlainInv
    BY <2>1 DEF PlainInv
  <2>6. TextInv
    <3>1. TextTypes
      BY <2>1 DEF TextTypes
    <3>2. TextConserved
      BY <2>2, <2>3 DEF TextConserved
    <3> QED
      BY <2>2, <2>3, <3>1, <3>2 DEF TextInv
  <2> QED
    BY <2>4, <2>5, <2>6
<1>2. CountInv /\ [Next]_vars => LineInv' /\ PlainInv' /\ TextInv'
  <2> SUFFICES ASSUME CountInv, [Next]_vars
               PROVE  LineInv' /\ PlainInv' /\ TextInv'
    OBVIOUS
  <2>1. CASE LoadNext
    BY <2>1, LinesCounted, PlainKept, TextKept DEF CountInv
  <2>2. CASE UNCHANGED loadVars
    <3>1. UNCHANGED <<file, pos, buf, line_num, state, text, subtitles, result>>
      BY <2>2 DEF loadVars
    <3>2. LineInv'
      BY <3>1 DEF CountInv, LineInv, Ends, EndsLine
    <3>3. PlainInv'
      BY <3>1 DEF CountInv, PlainInv
    <3>4. TextInv'
      BY <3>1 DEF CountInv, TextInv, TextTypes, TextConserved, TextRead, TextInLine,
                  TextStored
    <3> QED
      BY <3>2, <3>3, <3>4
  <2> QED
    BY <2>1, <2>2 DEF Next, Build, scroll_to, Dropped, vars
<1> QED
  BY <1>1, <1>2, ReaderInvariant, PTL DEF Spec, CountInv

(* '\n', '\r' and "\r\n" each end one line of a file, however they follow  *)
(* each other, and the line number in a message is the line's.             *)
THEOREM LinesAreCounted == Spec => []OneLinePerDelimiter
<1>1. CountInv => OneLinePerDelimiter
  BY DEF CountInv, LineInv, Ends, OneLinePerDelimiter
<1> QED
  BY <1>1, CountInvariant, PTL

(* No text of a file is dropped or doubled on its way to the subtitles.    *)
THEOREM TextIsConserved == Spec => []TextConserved
<1>1. CountInv => TextConserved
  BY DEF CountInv, TextInv, TextConserved
<1> QED
  BY <1>1, CountInvariant, PTL
=============================================================================
