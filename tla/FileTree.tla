------------------------------- MODULE FileTree -------------------------------
(***************************************************************************)
(* m::fs::copy_files() and m::fs::rm_files_with_empty_dirs(), which walk   *)
(* the tree made of a list of files, and m::fs::cp() and m::fs::rm(),      *)
(* which walk what is in a directory (src/src/mlib/fs.cpp), while other    *)
(* processes change the directory copied to or removed from.               *)
(*                                                                         *)
(* Every system call that changes the directory, or on which a change      *)
(* depends, is a step.  Any of them may fail (no rights, no space).        *)
(***************************************************************************)
EXTENDS PathTree, FiniteSets

CONSTANTS MaxFiles,        \* files in the list
          MaxComponents,   \* components of their paths, altogether
          MaxMeddle        \* paths that other processes change

\* Directories called ".name" are those that the properties start from.
ASSUME FileTreeAssumption ==
  /\ {MaxFiles, MaxComponents, MaxMeddle} \subseteq Nat
  /\ MaxComponents > 0
  /\ ".name" \notin Name

VARIABLES files,     \* the list, as it is given
          op,        \* what is done: "list" while the list is written, then one of Ops
          leaves,    \* the files of the tree
          fs,        \* what is at each path of the tree, under dest_prefix or prefix
          frames,    \* the calls that are under way, the innermost first
          call,      \* the system call to be made next for a child, or Walk
          reported,  \* what the exception at the end is about
          meddled    \* the paths that other processes changed

vars == <<files, op, leaves, fs, frames, call, reported, meddled>>

\* "link" is a symbolic link to nothing, and a "full" directory has something
\* in it besides the tree; cp() makes "copy", "part" (of a file), and "dir".
Others == {"none", "file", "link", "dir", "full"}
Kind == Others \cup {"copy", "part"}

\* "cp" and "rm" are tree::cp() and tree::rm(); "fs_cp" is m::fs::cp() of a
\* directory that holds the tree, and "fs_rm" is m::fs::rm() of one.
Ops == {"cp", "rm", "fs_cp", "fs_rm"}

\* The paths of the tree: its files, and the directories above them.
Nodes(tree) == UNION {{SubSeq(leaf, 1, n) : n \in 1..Len(leaf)} : leaf \in tree}

Children(dir) == {p \in Nodes(leaves) : p # <<>> /\ Front(p) = dir}

Walk == [what |-> "walk", path |-> <<>>]

-----------------------------------------------------------------------------
(* The directory.                                                          *)

IsDir(f, p) == p = <<>> \/ (p \in DOMAIN f /\ f[p] \in {"dir", "full"})

\* What create() lets through of "." and ".." names directories that exist,
\* and have more in them than the tree.
Dots == {<<".">>, <<"..">>, <<"..", "..">>}

\* What is in a directory is under directories.
IsTree(f) ==
  \A p \in DOMAIN f :
    /\ f[p] # "none" => IsDir(f, Front(p))
    /\ p \in Dots => f[p] = "full"

IsEmpty(dir) == fs[dir] = "dir" /\ \A p \in Children(dir) : fs[p] = "none"

\* What lstat() says of a path: there may be a file on the way to it.
Lookup(p) ==
  IF \E n \in 1..(Len(p) - 1) : ~IsDir(fs, SubSeq(p, 1, n)) /\ fs[SubSeq(p, 1, n)] \notin {"none", "link"}
    THEN "error"
    ELSE fs[p]

-----------------------------------------------------------------------------
(* The list.                                                               *)

Init ==
  /\ files = <<>>
  /\ op = "list"
  /\ leaves = {}
  /\ fs = <<>>
  /\ frames = <<>>
  /\ call = Walk
  /\ reported = {}
  /\ meddled = {}

Components(list) == FoldLeft(LAMBDA n, path : n + Len(path), 0, list)

\* One more component of a path, or one more path.
Write ==
  /\ op = "list"
  /\ Components(files) < MaxComponents
  /\ \E c \in Component :
       \/ Len(files) < MaxFiles /\ files' = Append(files, <<c>>)
       \/ files # <<>> /\ files' = Append(Front(files), Append(Last(files), c))
  /\ UNCHANGED <<op, leaves, fs, frames, call, reported, meddled>>

Frame(dir, new) == [dir |-> dir, new |-> new, errors |-> {}, left |-> Children(dir)]

\* copy_files() or rm_files_with_empty_dirs(); with a list that is no tree,
\* or (copy_files() only) a root that is missing, it throws and nothing is done.
\* m::fs::cp() starts in a directory that it has just made.  Bound: no file is
\* below "", which stands for the directory it is in.
Begin ==
  /\ op = "list"
  /\ create(files) \notin {NoTree, {}}
  /\ \A leaf \in create(files) : Head(leaf) # ""
  /\ leaves' = create(files)
  /\ op' \in Ops
  /\ fs' \in {f \in [Nodes(leaves') -> Others] : IsTree(f)}
  /\ op' = "fs_cp" => \A p \in DOMAIN fs' : fs'[p] = "none"
  /\ DOMAIN fs' \cap Dots # {} => op' \in {"cp", "rm"}
  /\ frames' = <<Frame(<<>>, FALSE)'>>
  /\ files' = <<>>
  /\ UNCHANGED <<call, reported, meddled>>

-----------------------------------------------------------------------------
(* The walk.                                                               *)

Top == frames[1]

\* A child of the directory is taken: they come in the order of their names,
\* and a name may be any.
Take(p) ==
  /\ op # "list"
  /\ frames # <<>>
  /\ call = Walk
  /\ p \in Top.left

Taken(p) == [frames EXCEPT ![1].left = @ \ {p}]

TakenFailed(p) == [frames EXCEPT ![1].left = @ \ {p}, ![1].errors = @ \cup {p}]

At(what) == frames # <<>> /\ call.what = what

Done == call' = Walk

Failed(p) == frames' = [frames EXCEPT ![1].errors = @ \cup {p}]

Enter(p, new) == frames' = <<Frame(p, new)>> \o frames

\* A call of cp() or rm() is over: what it throws is pooled by the one above.
Return ==
  /\ op # "list"
  /\ frames # <<>>
  /\ call = Walk
  /\ Top.left = {}
  /\ IF Len(frames) = 1
       THEN /\ reported' = Top.errors
            /\ frames' = <<>>
            /\ UNCHANGED call
       ELSE /\ frames' = [Tail(frames) EXCEPT ![1].errors = @ \cup Top.errors]
            /\ call' = CASE op = "fs_rm" -> [what |-> "rmdir", path |-> Top.dir]
                         [] op = "rm" -> [what |-> "is_empty", path |-> Top.dir]
                         [] op = "cp" /\ Top.new -> [what |-> "utime", path |-> Top.dir]
                         [] OTHER -> Walk
            /\ UNCHANGED reported
  /\ UNCHANGED <<files, op, leaves, fs, meddled>>

-----------------------------------------------------------------------------
(* tree::cp().                                                             *)

\* copy_file() up to its is_exists(): the source may be missing, or no file.
TestFile(p) ==
  /\ op = "cp"
  /\ Take(p)
  /\ p \in leaves
  /\ \/ frames' = TakenFailed(p) /\ UNCHANGED call
     \/ /\ Lookup(p) \in {"none", "link"}
        /\ frames' = Taken(p)
        /\ call' = [what |-> "copy", path |-> p]
  /\ UNCHANGED <<files, op, leaves, fs, reported, meddled>>

\* Fault in CopyFile: what stops the copying half-way is not reported.
CopyFileSilently ==
  /\ At("copy")
  /\ \/ UNCHANGED fs /\ Failed(call.path)
     \/ /\ fs[call.path] = "none" /\ IsDir(fs, Front(call.path))
        /\ \E k \in {"copy", "part"} : fs' = [fs EXCEPT ![call.path] = k]
        /\ UNCHANGED frames
  /\ Done
  /\ UNCHANGED <<files, op, leaves, reported, meddled>>

\* The rest of it: the new file is opened with O_EXCL, filled, and given the
\* times of the old one.
CopyFile ==
  /\ At("copy")
  /\ \/ UNCHANGED fs /\ Failed(call.path)
     \/ /\ fs[call.path] = "none" /\ IsDir(fs, Front(call.path))
        /\ \/ fs' = [fs EXCEPT ![call.path] = "copy"] /\ (UNCHANGED frames \/ Failed(call.path))
           \/ fs' = [fs EXCEPT ![call.path] = "part"] /\ Failed(call.path)
  /\ Done
  /\ UNCHANGED <<files, op, leaves, reported, meddled>>

\* The is_lexists() of mkdir_if_not_exists(), which wants the parent to exist.
TestDirectory(p) ==
  /\ op = "cp"
  /\ Take(p)
  /\ p \notin leaves
  /\ \/ frames' = TakenFailed(p) /\ UNCHANGED call
     \/ /\ Lookup(p) # "error"
        /\ IsDir(fs, Front(p))
        /\ frames' = Taken(p)
        /\ call' = [what |-> IF fs[p] = "none" THEN "mkdir" ELSE "stat", path |-> p]
  /\ UNCHANGED <<files, op, leaves, fs, reported, meddled>>

\* Its unix_stat() of what exists: only a directory will do.
StatDirectory ==
  /\ At("stat")
  /\ \/ Failed(call.path)
     \/ IsDir(fs, call.path) /\ Enter(call.path, FALSE)
  /\ Done
  /\ UNCHANGED <<files, op, leaves, fs, reported, meddled>>

\* Its unix_mkdir(), which fails when something is there by now.
MakeDirectory ==
  /\ At("mkdir")
  /\ \/ UNCHANGED fs /\ Failed(call.path)
     \/ /\ fs[call.path] = "none" /\ IsDir(fs, Front(call.path))
        /\ fs' = [fs EXCEPT ![call.path] = "dir"]
        /\ Enter(call.path, TRUE)
  /\ Done
  /\ UNCHANGED <<files, op, leaves, reported, meddled>>

\* The times of a directory that was made are set when it is filled.
SetTimes ==
  /\ At("utime")
  /\ UNCHANGED frames \/ Failed(call.path)
  /\ Done
  /\ UNCHANGED <<files, op, leaves, fs, reported, meddled>>

-----------------------------------------------------------------------------
(* m::fs::cp(), which calls itself for every entry of a directory.         *)

\* A directory is made, and must not exist; anything else goes to copy_file(),
\* with its steps above, which does not ask whether it exists.  A directory
\* that cannot be read further ends the call, with what it had pooled.
CopyEntry(p) ==
  /\ op = "fs_cp"
  /\ Take(p)
  /\ \/ frames' = TakenFailed(p) /\ UNCHANGED call
     \/ /\ frames' = [frames EXCEPT ![1].left = {}, ![1].errors = {Top.dir}]
        /\ UNCHANGED call
     \/ /\ frames' = Taken(p)
        /\ call' = [what |-> IF p \in leaves THEN "copy" ELSE "mkdir", path |-> p]
  /\ UNCHANGED <<files, op, leaves, fs, reported, meddled>>

cp == (\E p \in Nodes(leaves) : TestFile(p) \/ TestDirectory(p) \/ CopyEntry(p))
      \/ CopyFile \/ StatDirectory \/ MakeDirectory \/ SetTimes

-----------------------------------------------------------------------------
(* tree::rm().                                                             *)

\* Fault in Skip: what cannot be looked up is not there.
SkipUnknown(p) ==
  /\ op = "rm"
  /\ Take(p)
  /\ frames' = Taken(p)
  /\ UNCHANGED <<files, op, leaves, fs, call, reported, meddled>>

\* Its is_exists(), which follows links: nothing is there.
Skip(p) ==
  /\ op = "rm"
  /\ Take(p)
  /\ Lookup(p) \in {"none", "link"}
  /\ frames' = Taken(p)
  /\ UNCHANGED <<files, op, leaves, fs, call, reported, meddled>>

\* Its is_exists() throws, and the rest of the directory is left as it is.
GiveUp(p) ==
  /\ op = "rm"
  /\ Take(p)
  /\ frames' = [frames EXCEPT ![1].left = {}, ![1].errors = {p}]
  /\ UNCHANGED <<files, op, leaves, fs, call, reported, meddled>>

Find(p) ==
  /\ op = "rm"
  /\ Take(p)
  /\ Lookup(p) \notin {"none", "link", "error"}
  /\ IF p \in leaves
       THEN frames' = Taken(p) /\ call' = [what |-> "unlink", path |-> p]
       ELSE frames' = <<Frame(p, FALSE)>> \o Taken(p) /\ UNCHANGED call
  /\ UNCHANGED <<files, op, leaves, fs, reported, meddled>>

Unlink ==
  /\ At("unlink")
  /\ \/ UNCHANGED fs /\ Failed(call.path)
     \/ /\ fs[call.path] # "none"
        /\ ~IsDir(fs, call.path)
        /\ fs' = [fs EXCEPT ![call.path] = "none"]
        /\ UNCHANGED frames
  /\ Done
  /\ UNCHANGED <<files, op, leaves, reported, meddled>>

\* The directory is read: only an empty one is removed.
ReadDirectory ==
  /\ At("is_empty")
  /\ \/ Failed(call.path) /\ Done
     \/ /\ IsDir(fs, call.path)
        /\ call' = IF IsEmpty(call.path) THEN [call EXCEPT !.what = "rmdir"] ELSE Walk
        /\ UNCHANGED frames
  /\ UNCHANGED <<files, op, leaves, fs, reported, meddled>>

RemoveDirectory ==
  /\ At("rmdir")
  /\ \/ UNCHANGED fs /\ Failed(call.path)
     \/ /\ IsEmpty(call.path)
        /\ fs' = [fs EXCEPT ![call.path] = "none"]
        /\ UNCHANGED frames
  /\ Done
  /\ UNCHANGED <<files, op, leaves, reported, meddled>>

-----------------------------------------------------------------------------
(* m::fs::rm(), which calls itself for every entry of a directory.         *)

\* What is not there is no entry; nor need be what came while it was read.
NoEntry(p) ==
  /\ op = "fs_rm"
  /\ Take(p)
  /\ fs[p] = "none" \/ p \in meddled
  /\ frames' = Taken(p)
  /\ UNCHANGED <<files, op, leaves, fs, call, reported, meddled>>

\* Its is_lexists() or unix_lstat() fails, or the entry has gone.
NoAccess(p) ==
  /\ op = "fs_rm"
  /\ Take(p)
  /\ frames' = TakenFailed(p)
  /\ UNCHANGED <<files, op, leaves, fs, call, reported, meddled>>

\* The directory cannot be read further: the call throws, with nothing of what
\* it had pooled, and does not try to remove the directory.
Unreadable ==
  /\ op = "fs_rm"
  /\ frames # <<>>
  /\ call = Walk
  /\ frames' = IF Len(frames) = 1
                 THEN <<[Top EXCEPT !.left = {}, !.errors = {Top.dir}]>>
                 ELSE [Tail(frames) EXCEPT ![1].errors = @ \cup {Top.dir}]
  /\ UNCHANGED <<files, op, leaves, fs, call, reported, meddled>>

\* In a directory, entries that are not of the tree are removed as well, unless
\* that fails: then the directory is not empty when its turn comes.
RemoveEntry(p) ==
  /\ op = "fs_rm"
  /\ Take(p)
  /\ fs[p] # "none"
  /\ IF IsDir(fs, p)
       THEN /\ frames' = <<Frame(p, FALSE)>> \o Taken(p)
            /\ fs' \in {fs, [fs EXCEPT ![p] = "dir"]}
            /\ UNCHANGED call
       ELSE /\ frames' = Taken(p)
            /\ call' = [what |-> "unlink", path |-> p]
            /\ UNCHANGED fs
  /\ UNCHANGED <<files, op, leaves, reported, meddled>>

rm == (\E p \in Nodes(leaves) :
         Skip(p) \/ GiveUp(p) \/ Find(p) \/ NoEntry(p) \/ NoAccess(p) \/ RemoveEntry(p))
      \/ Unreadable \/ Unlink \/ ReadDirectory \/ RemoveDirectory

-----------------------------------------------------------------------------
(* Other processes.                                                        *)

Meddle(p, k) ==
  /\ frames # <<>>
  /\ p \notin meddled
  /\ Cardinality(meddled) < MaxMeddle
  /\ fs' = [fs EXCEPT ![p] = k]
  /\ fs' # fs
  /\ IsTree(fs')
  /\ meddled' = meddled \cup {p}
  /\ UNCHANGED <<files, op, leaves, frames, call, reported>>

Next ==
  \/ Write
  \/ Begin
  \/ cp
  \/ rm
  \/ Return
  \/ \E p \in Nodes(leaves), k \in Others : Meddle(p, k)

Spec == Init /\ [][Next]_vars

-----------------------------------------------------------------------------
(* Properties.                                                             *)

\* Where one comes to from a directory along a path, component by component.
Through(at, c) ==
  CASE c = ".." -> IF at = <<>> THEN <<>> ELSE Front(at)
    [] c \in {"", "."} -> at
    [] OTHER -> Append(at, c)

Follow(start, path) ==
  LET at[n \in 0..Len(path)] == IF n = 0 THEN start ELSE Through(at[n - 1], path[n])
  IN  at[Len(path)]

Goto(start, path) == Follow(IF HasSlash(path) THEN <<>> ELSE start, path)

\* A directory n levels below the root.
Below(n) == [i \in 1..n |-> ".name"]

\* Paths that normalize() makes other ones of: they begin with three slashes,
\* of which two are left.
IsSpoilt(path) == HasSlashes(path) /\ HasRootName(Tail(path))

IsNormal(path) ==
  LET names == IF HasSlash(path) THEN Tail(path) ELSE path
  IN  path \notin {<<"">>, <<".">>, <<"", "">>} =>
        \A j \in DOMAIN names :
          \/ names[j] \in Name
          \/ names[j] = ".." /\ ~HasSlash(path) /\ \A k \in 1..j : names[k] = ".."

\* The normal form of a path leads where the path leads, from every directory,
\* and it cannot be made shorter: normalize() erases while it counts, and a
\* ".." must take away a name, nothing at the root, and never another "..".
\* So basename() and dirname() take the path apart, and absolute() anchors it.
\* Not said of paths that begin with three slashes, nor, of absolute(), with two.
NormalFormAgrees ==
  \A i \in DOMAIN files :
    LET path == files[i]
    IN  ~IsSpoilt(path) =>
          /\ IsNormal(normalize(path))
          /\ \A n \in 0..(MaxComponents + 1) :
               /\ ~HasRootName(path) => Goto(<<>>, absolute(Below(n), path)) = Goto(Below(n), path)
               /\ Goto(Below(n), normalize(path)) = Goto(Below(n), path)
               /\ Goto(Below(n), dirname(path)) = Goto(Goto(Below(n), path), <<"..">>)
               /\ basename(path) \in Name =>
                    Goto(Goto(Below(n), dirname(path)), <<basename(path)>>) = Goto(Below(n), path)

\* From MaxComponents levels below the root no path comes to the root by "..".
Base == Below(MaxComponents)

Place(path) == IF HasSlash(path) THEN Base \o Goto(<<>>, path) ELSE Goto(Base, path)

\* The directory n levels above the one the files are in.
Above(n) == Below(MaxComponents - n)

\* For files that are inside of the root, create() makes a tree exactly when no
\* file is another one, or under another one; the files of the tree are then
\* the places the paths lead to.  Of others it lets through: the root, what is
\* in the directory above it, and the one above that; so that "../file", which a
\* comment in create() excludes, is accepted, but nothing that is further away.
TreeIsExact ==
  (op = "list" /\ \A i \in DOMAIN files : ~IsSpoilt(files[i])) =>
    LET inside(p) == IsStrictPrefix(Base, p)
        apart == \A i, j \in DOMAIN files :
                   i # j => ~IsPrefix(Place(files[i]), Place(files[j]))
        places == {Place(files[i]) : i \in DOMAIN files}
    IN /\ (\A p \in places : inside(p)) =>
            /\ create(files) # NoTree <=> apart
            /\ create(files) # NoTree => {Base \o leaf : leaf \in create(files)} = places
       /\ create(files) # NoTree =>
            \A p \in places : IsPrefix(Above(1), p) \/ p = Above(2)

Ended(what) == op \in what /\ frames = <<>> /\ call = Walk

\* When copy_files() or cp() has returned or thrown, every file was copied as a
\* whole, or the exception is about it or a directory above it: whatever was
\* there before, and other processes made or removed meanwhile.
CopiedOrReported ==
  Ended({"cp", "fs_cp"}) =>
    \A leaf \in leaves \ meddled :
      fs[leaf] = "copy" \/ \E p \in reported : IsPrefix(p, leaf)

\* What rm_files_with_empty_dirs() does not remove: directories that are not
\* empty, and links to nothing, which its is_exists() does not find, though
\* they are in the list (see ListedAreRemoved).
Stays(p) ==
  op = "rm" /\ (fs[p] = "link" \/ (p \notin leaves /\ IsDir(fs, p) /\ ~IsEmpty(p)))

Disturbed(p) == \E q \in meddled : IsPrefix(p, q) \/ IsPrefix(q, p)

\* When a removal returns without an exception, nothing is left that it should
\* have removed (rm() leaves nothing), though errors are pooled by each of its
\* calls and a call that throws drops its own.
RemovedOrReported ==
  (Ended({"rm", "fs_rm"}) /\ reported = {}) =>
    \A p \in Nodes(leaves) : fs[p] = "none" \/ Stays(p) \/ Disturbed(p)

\* What fs.hpp says of rm_files_with_empty_dirs(): it removes all files of the
\* list; only one that does not exist is no error.
ListedAreRemoved ==
  (Ended({"rm"}) /\ reported = {}) =>
    \A leaf \in leaves : fs[leaf] = "none" \/ Disturbed(leaf)
=============================================================================
