------------------------------- MODULE Playlist -------------------------------
(***************************************************************************)
(* What main() makes of its arguments and of the directory of the file to  *)
(* play: which argument is that file, and which files hold its subtitles.  *)
(*                                                                         *)
(* A name is a sequence of letters, where "." and an extension are letters *)
(* as well.  The upper case of a letter may be more than one letter.       *)
(***************************************************************************)
EXTENDS Integers, SequencesExt

CONSTANTS
  Upper,       \* [letter -> its upper case, a sequence of letters]
  Arguments,   \* argument vectors, each argument Option or a name
  FileNames    \* names of files in the directory

NameLetter == DOMAIN Upper
Dot == "."
srt == "srt"
Option == <<"-option">>
NoFile == <<>>

ASSUME PlaylistAssumption ==
  /\ \A c \in NameLetter : Upper[c] \in Seq(NameLetter)
  /\ FileNames \subseteq Seq(NameLetter)
  /\ \A args \in Arguments : args \in Seq(Seq(NameLetter) \cup {Option})

VARIABLES argv, found

playlistVars == <<argv, found>>

-----------------------------------------------------------------------------
\* The first argument that is no option; the others go to MPlayer with it.
file_to_play(args) ==
  LET names == {i \in DOMAIN args : args[i] # Option}
  IN  IF names = {} THEN NoFile ELSE args[CHOOSE i \in names : \A j \in names : i <= j]

uppercase(name) ==
  LET upper[n \in 0 .. Len(name)] == IF n = 0 THEN <<>> ELSE upper[n - 1] \o Upper[name[n]]
  IN  upper[Len(name)]

\* What is before the last dot, or everything.
strip_extension(name) ==
  LET dots == {i \in DOMAIN name : name[i] = Dot}
  IN  IF dots = {} THEN name
      ELSE SubSeq(name, 1, (CHOOSE i \in dots : \A j \in dots : j <= i) - 1)

check_extension(name, extension) == IsSuffix(<<Dot, extension>>, name)

\* Fault in IsSubtitles: the name of the file is compared as it is written.
IsSubtitlesAsWritten(file_name, play_name) ==
  LET name == strip_extension(file_name)
  IN  /\ check_extension(file_name, srt)
      /\ Len(name) >= Len(play_name)
      /\ SubSeq(name, 1, Len(play_name)) = play_name

\* play_name is in upper case already, and as many letters of the file's name
\* are taken as it has then.
IsSubtitles(file_name, play_name) ==
  LET name == strip_extension(file_name)
  IN  /\ check_extension(file_name, srt)
      /\ Len(name) >= Len(play_name)
      /\ uppercase(SubSeq(name, 1, Len(play_name))) = play_name

subtitles_paths(play) ==
  {name \in FileNames : IsSubtitles(name, uppercase(strip_extension(play)))}

-----------------------------------------------------------------------------
NotYet == {NoFile}

PlaylistInit == argv \in Arguments /\ found = NotYet

\* Without a file to play usage() ends the program.
FindSubtitlesOf ==
  /\ found = NotYet
  /\ file_to_play(argv) # NoFile
  /\ found' = subtitles_paths(file_to_play(argv))
  /\ UNCHANGED argv

PlaylistNext == FindSubtitlesOf

PlaylistSpec == PlaylistInit /\ [][PlaylistNext]_playlistVars

-----------------------------------------------------------------------------
Grows(name) == \E i \in DOMAIN name : Len(Upper[name[i]]) # 1

\* With the file first on the command line, as the usage says, the subtitles
\* are the ".srt" files whose name begins with the name of the file, in whatever
\* case, as long as no letter of either grows in upper case: the length that
\* is compared is that of the upper case of one name and of the other as it is.
\* In any case the files that are found are subtitles of something, and
\* what precedes the file on the command line does not matter.
SubtitlesAreFound ==
  found # NotYet =>
    \E i \in DOMAIN argv :
      /\ argv[i] # Option /\ \A j \in 1 .. (i - 1) : argv[j] = Option
      /\ LET play == strip_extension(argv[i])
             SameLetter(c, d) == Upper[c] = Upper[d]
             Begins(name) == /\ Len(name) >= Len(play)
                             /\ \A k \in DOMAIN play : SameLetter(name[k], play[k])
         IN  \A name \in FileNames :
               /\ name \in found => name[Len(name) - 1] = Dot /\ Last(name) = srt
               /\ ~Grows(play) /\ ~Grows(name) =>
                    (name \in found <=> check_extension(name, srt) /\ Begins(strip_extension(name)))
=============================================================================
