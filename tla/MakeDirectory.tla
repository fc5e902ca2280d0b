---------------------------- MODULE MakeDirectory ----------------------------
(***************************************************************************)
(* m::fs::mkdir_if_not_exists() and the one "with race conditions", called *)
(* for the same path by several processes while another one makes and      *)
(* removes files there.  Every system call is a step.                      *)
(***************************************************************************)
EXTENDS Integers

CONSTANTS
  Caller,       \* the processes that want the directory
  MaxMeddling   \* bound: how often the other process changes the path

ASSUME MeddlingAssumption == MaxMeddling \in Nat

VARIABLES
  place,      \* what is at the path
  step,       \* [caller -> where it is]
  lenient,    \* [caller -> it called the function "with race conditions"]
  created,    \* [caller -> its mkdir() made the directory]
  seen,       \* history: [caller -> what has been at the path during its call]
  meddlings   \* bounded history

dirVars == <<place, step, lenient, created, seen, meddlings>>

\* A link to nothing is a file to lstat() and nothing to stat(); without its
\* parent nothing can be made there.
Place == {"nothing", "directory", "file", "dangling_link", "no_parent"}
Threw == "threw"
Inside == {"is_lexists", "stat", "mkdir", "stat_again"}

DirInit ==
  /\ place \in Place
  /\ step = [c \in Caller |-> "idle"]
  /\ lenient \in [Caller -> BOOLEAN]
  /\ created = [c \in Caller |-> FALSE]
  /\ seen = [c \in Caller |-> {}]
  /\ meddlings = 0

\* The path changes, and every call that is being made has lived through it.
Becomes(what) ==
  /\ place' = what
  /\ seen' = [c \in Caller |-> IF step[c] \in Inside THEN seen[c] \cup {what} ELSE seen[c]]

Goes(c, to) == step' = [step EXCEPT ![c] = to]
Alone == UNCHANGED <<place, seen, created, lenient, meddlings>>

\* An exception inside mkdir_if_not_exists(): it is thrown on, or caught.
Throws(c) == Goes(c, IF lenient[c] THEN "stat_again" ELSE Threw)

mkdir_if_not_exists(c) ==
  /\ step[c] = "idle"
  /\ Goes(c, "is_lexists")
  /\ seen' = [seen EXCEPT ![c] = {place}]
  /\ UNCHANGED <<place, created, lenient, meddlings>>

\* A missing parent is looked for, and is an exception.
is_lexists(c) ==
  /\ step[c] = "is_lexists"
  /\ CASE place = "nothing" -> Goes(c, "mkdir")
       [] place = "no_parent" -> Throws(c)
       [] OTHER -> Goes(c, "stat")
  /\ Alone

\* What was there may be gone, or no directory.
unix_stat(c) ==
  /\ step[c] = "stat"
  /\ IF place = "directory" THEN Goes(c, "existed") ELSE Throws(c)
  /\ Alone

\* Fault in unix_mkdir: its failure is taken for the directory of another process.
unix_mkdir_lenient(c) ==
  /\ step[c] = "mkdir"
  /\ IF place = "nothing"
       THEN /\ Becomes("directory") /\ Goes(c, "created")
            /\ created' = [created EXCEPT ![c] = TRUE]
            /\ UNCHANGED <<lenient, meddlings>>
       ELSE Goes(c, "existed") /\ Alone

unix_mkdir(c) ==
  /\ step[c] = "mkdir"
  /\ IF place = "nothing"
       THEN /\ Becomes("directory") /\ Goes(c, "created")
            /\ created' = [created EXCEPT ![c] = TRUE]
            /\ UNCHANGED <<lenient, meddlings>>
       ELSE Throws(c) /\ Alone

\* The exception is thrown again only when stat() fails as well: a file that is
\* no directory is not noticed.
StatAgain(c) ==
  /\ step[c] = "stat_again"
  /\ Goes(c, CASE place = "directory" -> "existed"
               [] place = "file" -> "gave_up"
               [] OTHER -> Threw)
  /\ Alone

\* Another process.
Meddle(what) ==
  /\ meddlings < MaxMeddling /\ what # place
  /\ what = "nothing" \/ place = "nothing"
  /\ Becomes(what)
  /\ meddlings' = meddlings + 1
  /\ UNCHANGED <<step, created, lenient>>

DirNext ==
  \/ \E c \in Caller : mkdir_if_not_exists(c) \/ is_lexists(c) \/ unix_stat(c) \/ unix_mkdir(c) \/ StatAgain(c)
  \/ \E what \in Place : Meddle(what)

DirSpec == DirInit /\ [][DirNext]_dirVars

-----------------------------------------------------------------------------
\* Whoever says that it made the directory or found one has had it at the path
\* during its call; whoever throws had something else there, at some time.  Of
\* the callers that were left alone with an empty path, one made the directory,
\* and none of the lenient ones threw.  Nothing is said of the lenient callers
\* that gave up (see MadeOrThrown).
DirectoryIsThere ==
  \A c \in Caller :
    /\ step[c] \in {"created", "existed"} => "directory" \in seen[c]
    /\ step[c] = Threw => seen[c] # {"directory"}
    /\ step[c] = Threw /\ lenient[c] => meddlings > 0 \/ "nothing" \notin seen[c]
    /\ created[c] /\ meddlings = 0 => \A d \in Caller \ {c} : ~created[d]

\* What fs.hpp says of the function "with race conditions": it makes the
\* directory if there is none, and the only failure it does not return is that
\* another process has made the same directory.  So whoever returns has had a
\* directory at the path during its call.
MadeOrThrown ==
  \A c \in Caller : step[c] \in {"created", "existed", "gave_up"} => "directory" \in seen[c]
=============================================================================
