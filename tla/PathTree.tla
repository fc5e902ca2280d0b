------------------------------- MODULE PathTree -------------------------------
(***************************************************************************)
(* m::fs::Path and m::fs::tree::create() (src/src/mlib/fs.cpp): paths in   *)
(* their normal form, and the tree that a list of files spans.             *)
(*                                                                         *)
(* A path is the sequence of what stands between its slashes: "/a//b/" is  *)
(* <<"", a, "", b, "">>.                                                   *)
(***************************************************************************)
EXTENDS Naturals, Sequences, SequencesExt, FiniteSetsExt

CONSTANT Name   \* what a file can be called

\* What boost takes for a root's name: see normalize().
RootName == "//"

ASSUME NameAssumption == Name \cap {"", ".", "..", RootName} = {}

Component == Name \cup {"", ".", ".."}

-----------------------------------------------------------------------------
(* Path.                                                                   *)

HasSlash(path) == Len(path) > 1 /\ path[1] = ""
HasSlashes(path) == Len(path) > 2 /\ path[1] = "" /\ path[2] = ""

\* External: boost takes "//name" at the beginning of a path for its first
\* element, a root's name, and one slash or more than two for the element "/".
HasRootName(path) == HasSlashes(path) /\ (Len(path) = 3 \/ path[3] # "")

IsAbsolute(path) == HasSlash(path) /\ ~HasRootName(path)

\* Fault in Up: a path that is not absolute loses a leading "..".
UpAlways(abs, done) == IF done = <<>> THEN <<>> ELSE Front(done)

\* What ".." does to the components before it: it takes the last one away; at
\* the beginning it has no effect on an absolute path, and stays in another.
Up(abs, done) ==
  IF done = <<>> \/ Last(done) = ".."
    THEN IF abs THEN done ELSE Append(done, "..")
    ELSE Front(done)

\* What a component does to the components before it.
Joined(abs, done, c) ==
  CASE c \in {"", "."} -> done
    [] c = ".." -> Up(abs, done)
    [] OTHER -> Append(done, c)

\* What components do, one after the other, to the ones before them.
Joins(abs, before, path) ==
  LET done[n \in 0 .. Len(path)] ==
        IF n = 0 THEN before ELSE Joined(abs, done[n - 1], path[n])
  IN  done[Len(path)]

\* The path with a slash before these components.
Rooted(names) == IF names = <<>> THEN <<"", "">> ELSE <<"">> \o names

\* The relative path of these components; one that comes to nothing is ".".
Spelled(names) == IF names = <<>> THEN <<".">> ELSE names

\* One of several leading slashes is taken away: of three, two are left, and a
\* root's name with them, which is then a component like any other.
normalize(path) ==
  LET single == IF HasSlashes(path) THEN Tail(path) ELSE path
      under == Joins(FALSE, <<RootName>>, SubSeq(single, 4, Len(single)))
  IN  IF single = <<"">> THEN single
      ELSE IF HasRootName(single)
        THEN IF under # <<>> /\ Head(under) = RootName
               THEN SubSeq(single, 1, 3) \o Tail(under)
               ELSE Spelled(under)
      ELSE IF HasSlash(single) THEN Rooted(Joins(TRUE, <<>>, single))
      ELSE Spelled(Joins(FALSE, <<>>, single))

\* path / name.
Slash(path, name) == IF Last(path) = "" THEN Append(Front(path), name) ELSE Append(path, name)

\* What a path is to the directory above it: "" is the root here, or nothing.
basename(path) == Last(normalize(path))

\* The directory above a path.
dirname(path) == normalize(Slash(path, ".."))

\* A path from the root; one that begins there is left as it is.
absolute(cwd, path) ==
  IF IsAbsolute(path) THEN path ELSE normalize(Rooted(cwd) \o path)

\* What create() makes of a file: its normal form, less the slash before it.
Relative(path) ==
  IF HasSlash(normalize(path)) THEN Tail(normalize(path)) ELSE normalize(path)

\* Two characters of the path are compared with "../" and with "/..", so that
\* only "/../" inside of it is found.
is_simple(path) ==
  LET names == IF HasSlash(path) THEN Tail(path) ELSE path
  IN  /\ path # <<"">>
      /\ Len(names) > 1 => names[1] # "." /\ Last(names) \notin {"", "."}
      /\ \A i \in 2..(Len(names) - 1) : names[i] \notin {".", ".."}

-----------------------------------------------------------------------------
(* tree::create().                                                         *)

\* Fault in Clashes: a file may stand where a directory is needed.
ClashesEqual(path, leaves) == path \in leaves

\* A file cannot be added where there is a file or a directory, nor under a
\* file.
Clashes(path, leaves) ==
  \E leaf \in leaves : IsPrefix(leaf, path) \/ IsPrefix(path, leaf)

\* What no list makes: the empty string is no simple path.
NoTree == {<<"">>}

\* The files of the tree, or NoTree for an m::Exception: each file is added to
\* the ones before it.
create(files) ==
  LET before(i) == {Relative(files[j]) : j \in 1 .. (i - 1)}
  IN  IF \E i \in DOMAIN files : ~is_simple(Relative(files[i])) \/ Clashes(Relative(files[i]), before(i))
        THEN NoTree
        ELSE {Relative(files[i]) : i \in DOMAIN files}
=============================================================================
