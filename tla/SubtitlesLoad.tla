---------------------------- MODULE SubtitlesLoad ----------------------------
(***************************************************************************)
(* Subtitles::load() (src/src/subtitles.cpp): reading an .srt file byte by *)
(* byte and parsing it line by line.                                       *)
(*                                                                         *)
(* A file is a sequence of tokens.  A token is the whole visible content   *)
(* of a line as the regular expressions classify it, a byte order mark, a  *)
(* line delimiter, or the end of the file.  The file is not fixed at the   *)
(* start: Extend supplies a token when the reader needs one, so every file *)
(* up to the bound is read.                                                *)
(***************************************************************************)
EXTENDS Integers, Sequences, SequencesExt

CONSTANTS
  Times,      \* the times a time line can carry, in some unit
  Contents,   \* kinds of line content to read, a subset of ContentKind
  Delimiters, \* line delimiters to read, a subset of {"cr", "lf"}
  MaxFile,    \* bound: number of tokens in the file, end included
  MaxRare,    \* bound: how many of them are not a time, text, '\n' or the end
  MaxBlemished \* bound: tokens in a file with one of those, its end included

\* ws: white space only.  id: a number.  bad: a time line with a minute,
\* second or millisecond out of range.  tag: only formatting tags.  long: a
\* line that does not fit into the buffer.  text: anything else.
ContentKind == {"ws", "id", "time", "bad", "text", "tag", "long"}

ASSUME LoadConstants == /\ Times \subseteq Nat
                        /\ Contents \subseteq ContentKind
                        /\ Delimiters \subseteq {"cr", "lf"}
                        /\ MaxFile \in Nat \ {0}
                        /\ {MaxRare, MaxBlemished} \subseteq Nat

Token ==
  [k : Contents \ {"time"}, t : {0}]
  \cup (IF "time" \in Contents THEN [k : {"time"}, t : Times] ELSE {})
Delimiter == [k : Delimiters, t : {0}]
Bom == [k |-> "bom", t |-> 0]
Eof == [k |-> "eof", t |-> 0]

VARIABLES
  file,       \* the tokens of the file, as far as it was read
  pos,        \* number of tokens consumed
  buf,        \* the line being read
  line_num,
  state,
  time,       \* the local of that name: never decreases
  text,       \* the lines of the current subtitle
  subtitles,  \* what was loaded
  result      \* "loading", "ok", or "error" for an m::Exception

loadVars == <<file, pos, buf, line_num, state, time, text, subtitles, result>>

LoadInit ==
  /\ file = <<>>
  /\ pos = 0
  /\ buf = <<>>
  /\ line_num = 1
  /\ state = "GET_SUBTITLE"
  /\ time = 0
  /\ text = <<>>
  /\ subtitles = <<>>
  /\ result = "loading"

LastKind == IF file = <<>> THEN "none" ELSE Last(file).k

\* What can follow in a file: content stands alone on its line, after a byte
\* order mark at most.
Successors ==
  CASE LastKind = "eof" -> {}
    [] LastKind = "none" -> Token \cup Delimiter \cup {Bom, Eof}
    [] LastKind \in Delimiters \cup {"bom"} -> Token \cup Delimiter \cup {Eof}
    [] OTHER -> Delimiter \cup {Eof}

Common == {"time", "text", "lf", "eof"}
Rare(f) == Len(SelectSeq(f, LAMBDA tok : tok.k \notin Common))

\* The reader looks at the next token, and after a '\r' at the one behind it.
Extend ==
  /\ result = "loading"
  /\ \/ pos = Len(file)
     \/ pos + 1 = Len(file) /\ LastKind = "cr"
  /\ \E tok \in Successors :
       /\ tok = Eof \/ Len(file) + 1 < MaxFile
       /\ file' = Append(file, tok)
       /\ \/ tok = Eof
          \/ Rare(file') = 0
          \/ Rare(file') <= MaxRare /\ Len(file') < MaxBlemished
  /\ UNCHANGED <<pos, buf, line_num, state, time, text, subtitles, result>>

-----------------------------------------------------------------------------
(* The parser: what one line does in each state.                           *)

IsBlank(line) == \A i \in 1..Len(line) : line[i].k = "ws"
IsId(line) == Len(line) = 1 /\ line[1].k = "id"
IsTime(line) == Len(line) = 1 /\ line[1].k \in {"time", "bad"}

Invalid == result' = "error" /\ UNCHANGED <<state, time, text, subtitles>>

\* A smaller time than the previous one is reported, and replaced by it.
TimeLine(line) ==
  IF ~IsTime(line) \/ line[1].k = "bad"
    THEN Invalid
    ELSE /\ time' = IF line[1].t < time THEN time ELSE line[1].t
         /\ state' = "GET_TEXT"
         /\ UNCHANGED <<text, subtitles, result>>

GetSubtitle(line) ==
  /\ state = "GET_SUBTITLE"
  /\ \/ /\ IsBlank(line)
        /\ UNCHANGED <<state, time, text, subtitles, result>>
     \/ /\ IsId(line)
        /\ state' = "GET_TIME"
        /\ UNCHANGED <<time, text, subtitles, result>>
     \/ \* Some subtitles have no identifier: fall through to GET_TIME.
        /\ IsTime(line)
        /\ TimeLine(line)
     \/ /\ ~IsBlank(line) /\ ~IsId(line) /\ ~IsTime(line)
        /\ Invalid

GetTime(line) ==
  /\ state = "GET_TIME"
  /\ TimeLine(line)

\* The line without its tags, appended to what the subtitle already has.
AddLine(line) ==
  (IF text = <<>> THEN <<>> ELSE Append(text, "newline"))
  \o (IF line[1].k = "tag" THEN <<>> ELSE <<line[1].k>>)

\* Fault in GetText: a subtitle is stored when the next one begins, and the
\* text of the previous one is not reset.
GetTextKeeps(line) ==
  /\ state = "GET_TEXT"
  /\ \/ /\ IsBlank(line)
        /\ state' = "GET_SUBTITLE"
        /\ subtitles' = IF text = <<>> THEN subtitles
                        ELSE Append(subtitles, [time |-> time, text |-> text])
        /\ UNCHANGED <<text, time, result>>
     \/ /\ ~IsBlank(line)
        /\ text' = AddLine(line)
        /\ UNCHANGED <<state, time, subtitles, result>>

GetText(line) ==
  /\ state = "GET_TEXT"
  /\ \/ /\ IsBlank(line)
        /\ state' = "GET_SUBTITLE"
        /\ subtitles' = IF text = <<>> THEN subtitles
                        ELSE Append(subtitles, [time |-> time, text |-> text])
        /\ text' = <<>>
        /\ UNCHANGED <<time, result>>
     \/ /\ ~IsBlank(line)
        /\ text' = AddLine(line)
        /\ UNCHANGED <<state, time, subtitles, result>>

Parse(line) ==
  /\ GetSubtitle(line) \/ GetTime(line) \/ GetText(line)
  /\ line_num' = line_num + 1
  /\ buf' = <<>>

-----------------------------------------------------------------------------
(* The reader.  Every step below waits until the tokens it looks at exist. *)

Reading == result = "loading"
NextToken == file[pos + 1]

\* The default of the switch: a byte of the line, which has to fit.
GetContent ==
  /\ Reading
  /\ pos < Len(file)
  /\ NextToken \in Token \cup {Bom}
  /\ IF NextToken.k = "long"
       THEN result' = "error" /\ UNCHANGED buf
       ELSE buf' = Append(buf, NextToken) /\ UNCHANGED result
  /\ pos' = pos + 1
  /\ UNCHANGED <<file, line_num, state, time, text, subtitles>>

\* A complete line; a byte order mark is cut off the first one.
Line ==
  IF line_num = 1 /\ buf # <<>> /\ buf[1] = Bom THEN Tail(buf) ELSE buf

GetLf ==
  /\ Reading
  /\ pos < Len(file)
  /\ NextToken.k = "lf"
  /\ pos' = pos + 1
  /\ Parse(Line)
  /\ UNCHANGED file

\* Fault in GetCr: the line feed after a carriage return is not swallowed.
GetCrLeavesLf ==
  /\ Reading
  /\ pos + 1 < Len(file)
  /\ NextToken.k = "cr"
  /\ file[pos + 2] # Eof
  /\ pos' = pos + 1
  /\ Parse(Line)
  /\ UNCHANGED file

\* '\r' takes a following '\n' with it and puts back anything else.
GetCr ==
  /\ Reading
  /\ pos + 1 < Len(file)
  /\ NextToken.k = "cr"
  /\ file[pos + 2] # Eof
  /\ pos' = IF file[pos + 2].k = "lf" THEN pos + 2 ELSE pos + 1
  /\ Parse(Line)
  /\ UNCHANGED file

\* Fault in GetEof: the loop ends without parsing what was read last.
GetEofSkips ==
  /\ Reading
  /\ \/ pos < Len(file) /\ NextToken = Eof
     \/ pos + 1 < Len(file) /\ NextToken.k = "cr" /\ file[pos + 2] = Eof
  /\ pos' = Len(file)
  /\ UNCHANGED <<file, buf, line_num, state, time, text, subtitles, result>>

\* get() meets the end of the file, perhaps after a '\r': what was read is
\* taken as the last line and the loop ends.  state == GET_SUBTITLE ||
\* GET_TEXT is true in every state, so no state makes this an error.
GetEof ==
  /\ Reading
  /\ \/ pos < Len(file) /\ NextToken = Eof
     \/ pos + 1 < Len(file) /\ NextToken.k = "cr" /\ file[pos + 2] = Eof
  /\ pos' = Len(file)
  /\ Parse(buf)
  /\ UNCHANGED file

\* After the loop: a file without subtitles is an error.
Loaded ==
  /\ Reading
  /\ pos = Len(file)
  /\ LastKind = "eof"
  /\ result' = IF subtitles = <<>> THEN "error" ELSE "ok"
  /\ UNCHANGED <<file, pos, buf, line_num, state, time, text, subtitles>>

LoadNext ==
  \/ Extend \/ GetContent \/ GetLf \/ GetCr \/ GetEof \/ Loaded

-----------------------------------------------------------------------------
\* Where the file ends a line: '\r' takes what follows it with it.
EndsLine(i) ==
  \/ file[i].k = "cr"
  \/ file[i].k \in {"lf", "eof"} /\ (i = 1 \/ file[i - 1].k # "cr")

\* Where text is: in the file, in the subtitle being read and in the stored ones.
TextRead == {i \in 1..pos : file[i].k = "text"}
Places(lines) == {i \in 1..Len(lines) : lines[i] = "text"}
TextStored == UNION {{<<n, i>> : i \in Places(subtitles[n].text)} : n \in 1..Len(subtitles)}
TextInLine == {i \in 1..Len(buf) : buf[i].k = "text"}

\* Types.  A line is at most a byte order mark and one content.
LoadTypeOK ==
  /\ \A i \in 1..Len(file) : file[i] \in Token \cup Delimiter \cup {Bom, Eof}
  /\ Len(file) <= MaxFile
  /\ pos \in 0..Len(file)
  /\ Len(buf) <= 2
  /\ line_num \in 1..(MaxFile + 1)
  /\ state \in {"GET_SUBTITLE", "GET_TIME", "GET_TEXT"}
  /\ time \in Times \cup {0}
  /\ result \in {"loading", "ok", "error"}

\* Subtitles come out ordered by time, whatever order the file has them in:
\* scroll_to() searches them as an ordered list.
TimesSorted ==
  \A i, j \in 1..Len(subtitles) : i < j => subtitles[i].time <= subtitles[j].time

\* '\n', '\r' and "\r\n" each end exactly one line, and so does the end of
\* the file, unless a '\r' stands right before it.
OneLinePerDelimiter ==
  result # "error" => line_num = 1 + Cardinality({i \in 1..pos : EndsLine(i)})

\* Text that was read is in a stored subtitle, in the one being read or in the
\* line being read, once: none is dropped or doubled between the states.
TextConserved ==
  result # "error" =>
    Cardinality(TextRead)
      = Cardinality(TextStored) + Cardinality(Places(text)) + Cardinality(TextInLine)

\* A file that ends by '\n' needs no empty line after its last subtitle.
TerminatedFileIsComplete ==
  result = "ok" /\ Len(file) > 1 /\ file[Len(file) - 1].k = "lf" => text = <<>>

\* What load() is for (subtitles.hpp:62): every subtitle of a file that loads
\* is loaded.  Not so for the last one when no '\n' ends the file.
EverySubtitleLoaded == result = "ok" => text = <<>>
=============================================================================
