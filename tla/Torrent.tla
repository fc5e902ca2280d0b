------------------------------- MODULE Torrent -------------------------------
(***************************************************************************)
(* get_torrent_metadata() and get_torrent_files() of m::libtorrent: the    *)
(* paths of a torrent's files in the text its author wrote, when the       *)
(* *.torrent file is not, or not everywhere, in UTF-8.                     *)
(*                                                                         *)
(* A name is text, or bytes in the charset of the torrent, which are no    *)
(* UTF-8; "." and ".." are the same in both.  A path is a sequence as in   *)
(* PathTree.  The locale is UTF-8.  What libtorrent itself makes of a      *)
(* torrent is modelled from how the functions use it: it takes the UTF-8   *)
(* names where there are some and spoils bytes that are no UTF-8.          *)
(***************************************************************************)
EXTENDS PathTree

CONSTANTS
  Decoded,      \* [bytes in the torrent's charset -> the text they are]
  Torrents,     \* the contents of *.torrent files
  None,         \* an entry that is not there, or not of the type it should have
  NotADict,     \* a file's entry that is no dictionary
  InvalidTorrent \* what an m::Exception leaves

Bad == ""       \* an empty name, or an element of a path that is no string
Broken == "?"   \* text that has been spoilt

\* What can stand in a *.torrent file.
NameEntry == Component \cup {None}
PathEntry == Seq(Component) \cup {None}
FileEntry == [path_utf8 : PathEntry, path : PathEntry]
ListEntry == Seq(FileEntry \cup {NotADict}) \cup {None}

\* Bytes that are no UTF-8 stand for text, and never for a name that is not one.
ASSUME TorrentAssumption ==
  /\ DOMAIN Decoded \subseteq Name
  /\ Decoded \in [DOMAIN Decoded -> Name \ DOMAIN Decoded]
  /\ Broken \in Name \ DOMAIN Decoded
  /\ Torrents \subseteq [name_utf8 : NameEntry, name : NameEntry, files_utf8 : ListEntry, files : ListEntry,
                        publisher : {"url", "other", None}]

VARIABLES torrent, encoding, metadata, paths

torrentVars == <<torrent, encoding, metadata, paths>>

-----------------------------------------------------------------------------
InCharset(path) == Range(path) \cap DOMAIN Decoded # {}
InUtf8(path) == Range(path) \ (DOMAIN Decoded \cup {"", ".", ".."}) # {}

\* m::convert() from the torrent's charset: UTF-8 is spoilt by it.
convert_name(name) ==
  CASE name \in DOMAIN Decoded -> Decoded[name]
    [] name \in {"", ".", ".."} -> name
    [] OTHER -> Broken
convert_path(path) == [i \in DOMAIN path |-> convert_name(path[i])]

\* validate_utf() and U2LT() of what is no UTF-8 spell the bytes, and say they did.
validate_utf(name) == IF name \in DOMAIN Decoded THEN Broken ELSE name
U2LT(path) == [i \in DOMAIN path |-> validate_utf(path[i])]

\* External: what libtorrent::torrent_info has of the torrent.
Preferred(utf, other) == IF utf # None THEN utf ELSE other
LibraryFile(t, f) ==
  U2LT(<<Preferred(t.name_utf8, t.name)>> \o IF f = NotADict THEN <<Bad>> ELSE Preferred(f.path_utf8, f.path))
LibraryStorage(t) ==
  IF t.files = None THEN <<U2LT(<<Preferred(t.name_utf8, t.name)>>)>>
  ELSE [i \in DOMAIN t.files |-> LibraryFile(t, t.files[i])]
\* Its constructor throws invalid_torrent_file.
LibraryRefuses(t) ==
  \/ Preferred(t.name_utf8, t.name) = None
  \/ /\ t.files # None
     /\ \E i \in DOMAIN t.files :
          t.files[i] = NotADict \/ Preferred(t.files[i].path_utf8, t.files[i].path) = None

-----------------------------------------------------------------------------
\* The name of the torrent, or InvalidTorrent.
torrent_name(t) ==
  CASE t.name_utf8 \notin {None, Bad} -> validate_utf(t.name_utf8)
    [] t.name_utf8 = None /\ t.name \notin {None, Bad} -> convert_name(t.name)
    [] OTHER -> InvalidTorrent

\* An entry of the file list that throws Invalid_torrent_file.
InvalidFile(f) ==
  \/ f = NotADict
  \/ Preferred(f.path_utf8, f.path) = None
  \/ Bad \in Range(Preferred(f.path_utf8, f.path))

\* A rename is left out when the path is the one the first file has by now.
rename_file(storage, id, path) == IF storage[1] = path THEN storage ELSE [storage EXCEPT ![id] = path]

\* Fault in utf_now: the flag is set by the list only.
utf_of_list(utf, f) == utf

\* The flag says that the list or a file up to this one was in UTF-8.
utf_now(utf, f) == utf \/ f.path_utf8 # None

Files(t) == Preferred(t.files_utf8, t.files)

\* The path of a file below the directory of the torrent.
NewPath(t, utf, f) ==
  LET path == Preferred(f.path_utf8, f.path)
  IN  U2LT(normalize(Rooted(<<torrent_name(t)>>) \o IF utf THEN path ELSE convert_path(path)))

\* The loop over the file list of a torrent that is not in UTF-8.
RenameFiles(t) ==
  LET list == Files(t)
      done[n \in 0 .. Len(list)] ==
        IF n = 0 THEN [utf |-> t.files_utf8 # None, storage |-> LibraryStorage(t)]
        ELSE LET utf == utf_now(done[n - 1].utf, list[n])
             IN  [utf |-> utf, storage |-> rename_file(done[n - 1].storage, n, NewPath(t, utf, list[n]))]
  IN  done[Len(list)].storage

\* A torrent with one file and no list.
RenameOnly(t) == rename_file(LibraryStorage(t), 1, U2LT(normalize(Rooted(<<torrent_name(t)>>))))

Renamed(t) == IF Files(t) = None THEN RenameOnly(t) ELSE RenameFiles(t)

Refused(t) ==
  \/ torrent_name(t) = InvalidTorrent
  \/ Files(t) = None /\ Len(LibraryStorage(t)) # 1
  \/ /\ Files(t) # None
     /\ \/ Len(LibraryStorage(t)) # Len(Files(t))
        \/ \E i \in DOMAIN Files(t) : InvalidFile(Files(t)[i])

\* A publisher's URL is kept when it is one.
publisher_url(t) == IF t.publisher = "url" THEN t.publisher ELSE ""

get_torrent_metadata(t, enc) ==
  IF LibraryRefuses(t) \/ (enc # "UTF-8" /\ Refused(t)) THEN InvalidTorrent
  ELSE [storage |-> IF enc = "UTF-8" THEN [i \in DOMAIN LibraryStorage(t) |-> U2LT(LibraryStorage(t)[i])]
                    ELSE Renamed(t),
        publisher_url |-> publisher_url(t)]

\* get_torrent_file_path() of every file; one that comes to the root, or is not
\* absolute with a slash before it (it has two already), is refused.
get_torrent_file_path(path) == normalize(<<"">> \o path)
InvalidPath(path) == ~IsAbsolute(path) \/ path = <<"", "">>
get_torrent_files(storage) ==
  IF \E i \in DOMAIN storage : InvalidPath(get_torrent_file_path(storage[i])) THEN InvalidTorrent
  ELSE [i \in DOMAIN storage |-> get_torrent_file_path(storage[i])]

-----------------------------------------------------------------------------
Nothing == [storage |-> <<>>, publisher_url |-> ""]

TorrentInit ==
  /\ torrent \in Torrents
  /\ encoding \in {"UTF-8", "other"}
  /\ metadata = Nothing /\ paths = <<>>

ReadMetadata ==
  /\ metadata = Nothing
  /\ metadata' = get_torrent_metadata(torrent, encoding)
  /\ UNCHANGED <<torrent, encoding, paths>>

ReadFiles ==
  /\ metadata \notin {Nothing, InvalidTorrent} /\ paths = <<>>
  /\ paths' = get_torrent_files(metadata.storage)
  /\ UNCHANGED <<torrent, encoding, metadata>>

TorrentNext == ReadMetadata \/ ReadFiles

TorrentSpec == TorrentInit /\ [][TorrentNext]_torrentVars

-----------------------------------------------------------------------------
PathOf(i) == Preferred(Files(torrent)[i].path_utf8, Files(torrent)[i].path)

\* What the author wrote, for file i.
Meant(i) ==
  normalize(Rooted(<<torrent_name(torrent)>>) \o
            IF Files(torrent) = None THEN <<>>
            ELSE IF InCharset(PathOf(i)) THEN convert_path(PathOf(i)) ELSE PathOf(i))

\* The path is in UTF-8 where the torrent has said so by now, and nowhere else.
Uniform(i) ==
  Files(torrent) # None =>
    IF torrent.files_utf8 # None \/ \E j \in 1 .. i : Files(torrent)[j].path_utf8 # None
      THEN ~InCharset(PathOf(i))
      ELSE ~InUtf8(PathOf(i))

\* With the torrent's charset given, every file has the path its author wrote,
\* read from the UTF-8 names where there are some.  Two kinds of files may not:
\* one in the charset in a list, or behind a file, that is in UTF-8; and one whose
\* path the first file has got.  And no path that an author wrote leads out of
\* the root or to the root itself: "..", "." and nothing are no names.
PathsAreRight ==
  paths # InvalidTorrent =>
    \A i \in DOMAIN paths :
      /\ Len(paths[i]) > 1 /\ Head(paths[i]) = "" /\ Range(Tail(paths[i])) \subseteq Name
      /\ encoding = "other" /\ Uniform(i) /\ (i = 1 \/ Meant(i) # paths[1]) => paths[i] = Meant(i)
=============================================================================
