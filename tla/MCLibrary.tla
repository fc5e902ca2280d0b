------------------------------ MODULE MCLibrary ------------------------------
(***************************************************************************)
(* The components that nothing else of the program interleaves with, in    *)
(* one run: "object" says which of them this behaviour is about, and the   *)
(* others stay in one of their initial states.                             *)
(***************************************************************************)
EXTENDS FsConfig, SubtitlesControl, TreeView, ControlledList, Strings, Buffer, Torrent, Playlist,
        MakeDirectory, Program, TLC

VARIABLE object

libraryVars == <<object, configVars, vars, treeVars, listVars, stringVars, bufferVars, torrentVars,
                 playlistVars, dirVars, programVars>>

-----------------------------------------------------------------------------
MCVersions == {<<1, 2>>, <<3, 2, 1>>}
MCSortId == 1 :> 7 @@ 2 :> 8 @@ 3 :> 7
\* Settings of another application: every column they know is hidden.
MCConfigurations ==
  {[columns |-> <<[name |-> 3, visible |-> FALSE, width |-> 150],
                  [name |-> 2, visible |-> FALSE, width |-> 100],
                  [name |-> 1, visible |-> FALSE, width |-> 100]>>,
    sort_column |-> 1, sort_order |-> Descending]}

Edges ==
  {1, Kilo, 10 * Thousand, Kilo * Kilo, 10 * Thousand * Kilo, Kilo * Kilo * Kilo,
   10 * Thousand * Kilo * Kilo, 99 * Kilo, 100 * Kilo, 100 * Kilo * Kilo}
MCSizes ==
  {-40000} \union {e * m + d : e \in Edges, m \in {1, 2}, d \in {-1, 0, 1, Kilo}}
  \union {((Kilo * Kilo * Kilo) \div 10) * m + d : m \in (80 .. 130) \union (980 .. 1000), d \in 0 .. 2}
MCPeriods ==
  {-1} \union {u * n + d : u \in {1, Minute, Hour, Day, Month}, n \in {0, 1, 2, 11, 24},
                           d \in {-1, 0, 1, Minute, Hour, Day}}

-----------------------------------------------------------------------------
CONSTANTS a, b, r1, r2
MCDecoded == r1 :> a @@ r2 :> b
MCFiles ==
  {NotADict} \union
  [path_utf8 : {None, <<a>>, <<b>>, <<a, b>>, <<"..", "..", b>>, <<r2>>, <<Broken>>, <<Bad>>, <<>>},
   path : {None, <<r1>>, <<r2>>, <<r1, r2>>, <<"..", r2>>, <<a>>}]
MCLists == BoundedSeq(MCFiles, 2) \ {<<>>}
MCFew == {None} \union (BoundedSeq([path_utf8 : {None, <<b>>}, path : {<<r1>>}], 2) \ {<<>>})
MCNames ==
  [name_utf8 : {None}, name : {r1, "..", Bad, None}] \union [name_utf8 : {a, r1, Bad}, name : {r1}]
MCTorrents ==
  {[name_utf8 |-> n.name_utf8, name |-> n.name, files_utf8 |-> u, files |-> f, publisher |-> p] :
     n \in MCNames, u \in MCFew, f \in MCFew, p \in {"url", "other", None}} \union
  {[name_utf8 |-> n.name_utf8, name |-> n.name, files_utf8 |-> IF utf THEN l ELSE None,
    files |-> IF utf THEN None ELSE l, publisher |-> "url"] :
     n \in MCNames, l \in MCLists, utf \in BOOLEAN}

\* "ss" stands for the letter whose upper case is two letters.
MCUpper ==
  [c \in {"a", "A", "ss", "S", Dot, srt, "SRT"} |->
     CASE c = "a" -> <<"A">> [] c = "ss" -> <<"S", "S">> [] c = srt -> <<"SRT">> [] OTHER -> <<c>>]
MCStems == BoundedSeq({"a", "A", "ss", "S", Dot}, 3)
MCFileNames == {n \o e : n \in MCStems, e \in {<<>>, <<Dot, srt>>, <<Dot, "SRT">>}}
MCArguments ==
  {<<>>, <<Option>>} \union
  UNION {{<<n>>, <<Option, n>>, <<n, Option, <<"a">>>>} :
           n \in {m \o <<Dot, "SRT">> : m \in MCStems} \union (MCStems \ {<<>>})}

-----------------------------------------------------------------------------
Object ==
  {"config", "subtitles", "tree", "list", "strings", "buffer", "torrent", "playlist", "directory", "program"}

\* One initial state for a component that the behaviour is not about.
TreeRests == tree = Tree_view(<<1, 2>>, NoSettings) /\ menu = NoMenu /\ settings = NoSettings /\ running = TRUE
ListRests == rows = <<>> /\ selected = NoRow /\ outdated = FALSE /\ buttons = <<>>
BufferRests ==
  /\ data = <<>> /\ position = 0 /\ disk = <<>> /\ loading = NotLoading
  /\ aborted = FALSE /\ misplaced = FALSE /\ calls = 0
TorrentRests == torrent = None /\ encoding = "UTF-8" /\ metadata = Nothing /\ paths = <<>>
PlaylistRests == argv = <<>> /\ found = NotYet
DirRests ==
  /\ place = "nothing" /\ step = [c \in Caller |-> "idle"] /\ lenient = [c \in Caller |-> FALSE]
  /\ created = [c \in Caller |-> FALSE] /\ seen = [c \in Caller |-> {}] /\ meddlings = 0
ProgramRests == tty = FALSE /\ unlimited = FALSE

LibraryInit ==
  /\ object \in Object
  /\ Init /\ ConfigInit /\ StringsInit
  /\ IF object = "tree" THEN TreeInit ELSE TreeRests
  /\ IF object = "list" THEN ListInit ELSE ListRests
  /\ IF object = "buffer" THEN BufferInit ELSE BufferRests
  /\ IF object = "torrent" THEN TorrentInit ELSE TorrentRests
  /\ IF object = "playlist" THEN PlaylistInit ELSE PlaylistRests
  /\ IF object = "directory" THEN DirInit ELSE DirRests
  /\ (object # "program" => ProgramRests) /\ ProgramInit

LibraryNext ==
  \/ /\ object = "config" /\ ConfigNext
     /\ UNCHANGED <<object, vars, treeVars, listVars, stringVars, bufferVars, torrentVars, playlistVars, dirVars, programVars>>
  \/ /\ object = "subtitles" /\ Next
     /\ UNCHANGED <<object, configVars, treeVars, listVars, stringVars, bufferVars, torrentVars, playlistVars, dirVars, programVars>>
  \/ /\ object = "tree" /\ TreeNext
     /\ UNCHANGED <<object, configVars, vars, listVars, stringVars, bufferVars, torrentVars, playlistVars, dirVars, programVars>>
  \/ /\ object = "list" /\ ListNext
     /\ UNCHANGED <<object, configVars, vars, treeVars, stringVars, bufferVars, torrentVars, playlistVars, dirVars, programVars>>
  \/ /\ object = "strings" /\ StringsNext
     /\ UNCHANGED <<object, configVars, vars, treeVars, listVars, bufferVars, torrentVars, playlistVars, dirVars, programVars>>
  \/ /\ object = "buffer" /\ BufferNext
     /\ UNCHANGED <<object, configVars, vars, treeVars, listVars, stringVars, torrentVars, playlistVars, dirVars, programVars>>
  \/ /\ object = "torrent" /\ TorrentNext
     /\ UNCHANGED <<object, configVars, vars, treeVars, listVars, stringVars, bufferVars, playlistVars, dirVars, programVars>>
  \/ /\ object = "playlist" /\ PlaylistNext
     /\ UNCHANGED <<object, configVars, vars, treeVars, listVars, stringVars, bufferVars, torrentVars, dirVars, programVars>>
  \/ /\ object = "directory" /\ DirNext
     /\ UNCHANGED <<object, configVars, vars, treeVars, listVars, stringVars, bufferVars, torrentVars, playlistVars, programVars>>
  \/ /\ object = "program" /\ ProgramNext
     /\ UNCHANGED <<object, configVars, vars, treeVars, listVars, stringVars, bufferVars, torrentVars, playlistVars, dirVars>>

LibrarySpec == LibraryInit /\ [][LibraryNext]_libraryVars
=============================================================================
