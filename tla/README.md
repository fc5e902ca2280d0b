# A verification project for submplayer

submplayer (version of this repository) starts MPlayer on a film, shows the
film's subtitles as lists in a GTK window, and scrolls the lists to the moment
MPlayer is playing. It has two threads of its own, a child process, three pipes,
a signal handler, and a library (`mlib`) with an asynchronous file system, an
inotify watcher and a configuration store.

This directory holds TLA+ modules translated from the sources, TLC
configurations that check them on small instances, and TLAPS proofs for every
value of the constants. `PROJECT.json` lists components, runs, mutants
(plausible bugs, one for each property), the source lines of every definition,
hazards and theorems.

    tlc -workers 2 -config MCMainWindowSafety.cfg MCMainWindow.tla
    tlapm MainWindow_proofs.tla

All paths below are relative to `src/src/`.

## 1. Inventory

| component | state | operations | talks to |
|---|---|---|---|
| `Mplayer` (`mplayer.cpp`) | the child, two pipes, `current_time_offset` with its mutex, two `Glib::Dispatcher`s, the worker's local buffer | `start()`, `write_to_stdio()`, `get_current_offset()`, `operator()` on the worker, `process_string()`, destructor | MPlayer by pipes, `Main_window` by dispatched signals |
| `Main_window` (`main_window.cpp`) | the controls, the signal connection, the `IOSource` on stdin | constructor, `on_delete_cb`, `on_key_press_event_cb`, `on_player_closed_cb`, `on_stdin_data`, `on_time_offset_changed_cb` | calls `Mplayer`, scrolls `Subtitles_control`s, quits the main loop |
| `Subtitles_control` (`main_window.cpp`) | the list, `cur_id`, the highlighted range | constructor, `scroll_to()`, `set_current()` | fed by `Subtitles` |
| `Subtitles` (`subtitles.cpp`) | the loaded list | `load()` | a file |
| `main` (`main.cpp`) | terminal attributes, SIGCHLD handler, warning function | `main()`, `exit_wrap()`, `sigchld_handler()`, `warning_function()`, the search for subtitles | everything |
| `m::async_fs` (`mlib/async_fs.cpp`) | queue of tasks, `started`, `paused`, `finished_tasks`, semaphores of waiters | `cp` ... `rm`, `pause_and_get_group_status()`, `resume()`, executing thread, destructor | any thread; GTK by two dispatched signals |
| `m::Fs_watcher` (`mlib/fs_watcher.cpp`) | inotify descriptor and watch, queue of new files, stop connection | `set_`/`unset_watching_directory()`, `get()`, thread | inotify, GTK |
| `m::fs::config` (`mlib/fs.cpp`) | two files on disk | `start_reading()`, `start_writing()`, `end_writing()` | the file system |
| `m::fs` paths, trees, operations (`mlib/fs.cpp`) | none, or the file system | `Path::normalize()`, `cp`, `rm`, `mkdir_if_not_exists()`, `unix_*` | the file system |
| `m::Buffer` (`mlib/misc.cpp`) | bytes, a size, a position | `load_file()`, `write_file()`, `reserve()`, `resize()`, `set_pos()`, `increase_pos()` | files that others write |
| `File_holder`, `Connection`, `Semaphore` (`mlib/misc.*`) | a descriptor; a pipe; a semaphore | small interfaces | the components above |
| `m` strings (`mlib/string.cpp`) | none | amounts, `trim()`, `split()`, `convert()` | every message |
| `m` messages, errors | none | formatting | the application's warning function |
| `m::gtk::Tree_view` (`mlib/gtk/tree_view.*`) | columns by id, the header menu, settings between sessions | `load_settings()`, `save_settings()`, `hide_column()`, `remove_column()` | GTK, its user, the settings file |
| `m::gtk::Controlled_list` | three buttons | `up()`, `down()`, `remove()`, `set_buttons()` | GTK, the owner of the model |
| the rest of `m::gtk` | widgets | wrappers | GTK |
| `m::libtorrent` (`mlib/libtorrent.cpp`) | none | `get_torrent_metadata()`, `get_torrent_files()` | libtorrent; not compiled in this build |

What is hard in it, and what makes each part correct:

* **Mplayer and Main_window.** The position is written by one thread and read by
  another after a notification that carries no data; the GTK thread may block
  writing a key to MPlayer, the worker may block writing a notification to the
  GTK thread, MPlayer may block printing; the window may be closed and MPlayer
  may die at any moment; SIGCHLD also comes when MPlayer stops. Correct means:
  no change of the position is lost, output cut into reads anywhere is framed
  right, the end of MPlayer is the last thing notified, and always ends the
  program.
* **Subtitles and Subtitles_control.** `scroll_to()` searches from the current
  subtitle in one direction and relies on the order that `load()` establishes
  for any file; `load()` cuts lines at three kinds of delimiters and at the end
  of the file. Correct means: no text is lost or doubled, times are ordered, and
  the search neither stops too early nor runs too far, however the position jumps.
* **m::async_fs.** Any thread adds tasks, pauses and resumes while the executing
  thread ends by itself when it has nothing to do; who finds it ended claims the
  start under the mutex and starts it outside. Correct means: one executor, no
  task stranded, FIFO, a pause's answer is a promise, the destructor returns.
* **m::fs::config.** Two files replaced in several steps; a crash between any
  two must leave a whole configuration, no older than the last one saved, where
  `start_reading()` looks.
* **m::Fs_watcher.** One inotify descriptor serves every directory watched, one after
  the other, while events of the last one are queued and the thread that reads them
  is told to stop by a pipe. Correct means: a file is reported once, in order, and under
  the directory it is in; who is notified finds what was queued; the stop returns, as long
  as the pipe of notifications has room.
* **m::fs paths and trees.** `normalize()` erases components while it counts them; a list
  of files must span a tree; then every step of a recursive copy or removal may fail, and
  other processes change the directory. Correct means: a path leads where its normal form
  does; what was not copied or removed is reported.
* **main and the child.** Two processes share the terminal and four ends of pipes, every
  call may fail and every failure ends in `exit_wrap()`, in the child as well. Correct
  means: the terminal is put back on every way out, not before, and neither process keeps
  an end that hides the other's end from it.
* **mkdir_if_not_exists().** Three system calls, and others at the same path between them.
* **m::gtk lists.** A menu and three buttons show what was true when they were made; the
  settings of one version are loaded by another. Correct means: a list keeps a visible
  column, its settings survive, a button is enabled when it does something.
* **m::libtorrent.** Names of a torrent are in two charsets, and the choice between them
  is made per list and per file. Correct means: a file gets the path its author wrote.
* **m::Buffer, m strings, the search for subtitles.** Boundaries: a position behind the
  end, a file of whole pieces, the unit that changes, a letter whose upper case is two.

## 2. Modules

| module | models |
|---|---|
| `Viewer` | what the user is promised: the lists only move to MPlayer's position, follow it, and are at the last one at a normal end |
| `Mplayer` | `Mplayer_impl`: MPlayer, both pipes, the worker, the Dispatcher's pipe, SIGCHLD |
| `MainWindow` | extends `Mplayer` by the GTK thread and `main()`'s loop and end; implements `Viewer` |
| `MCMainWindow` | symmetry of positions for TLC |
| `MainWindow_proofs` | theorems about the two above |
| `SubtitlesLoad` | `Subtitles::load()`: reader and parser |
| `SubtitlesControl` | extends it by `Subtitles_control`: construction and `scroll_to()` on the list that was loaded |
| `Subtitles_proofs` | theorems about the reader, the parser, the loaded list and `scroll_to()` |
| `JobQueue` | what `m::async_fs` promises: a FIFO queue, one job at a time |
| `AsyncFs` | `m::async_fs`; implements `JobQueue` |
| `AsyncFs_proofs` | theorems about it |
| `MCThreads` | `AsyncFs` and `FsWatcher` in one run |
| `FsConfig` | `m::fs::config` with the end of the program before any system call |
| `FsWatcher` | `m::Fs_watcher` on inotify, with `m::Connection` |
| `FsWatcher_proofs` | theorems about it |
| `PathTree` | `m::fs::Path` and `m::fs::tree::create()` as functions |
| `FileTree` | extends it by `copy_files()`, `rm_files_with_empty_dirs()`, `m::fs::cp()` and `m::fs::rm()` on a directory that others change |
| `MCFileTree` | symmetry of names for TLC |
| `FileTree_proofs` | theorems about `PathTree`, `FileTree` and `Torrent` |
| `Program` | `main()`, `Mplayer_impl::start()` and its child: descriptors, the terminal, every failing call |
| `Program_proofs` | theorems about it |
| `Playlist` | the file to play and its subtitles, as `main()` finds them |
| `MakeDirectory` | `mkdir_if_not_exists()`, also "with race conditions" |
| `Buffer` | `m::Buffer` and the file it loads |
| `Strings` | `mlib/string.cpp` as functions |
| `Torrent` | extends `PathTree` by `get_torrent_metadata()` and `get_torrent_files()` |
| `TreeView` | `m::gtk::Tree_view`: columns, menu, settings over sessions |
| `ControlledList` | `m::gtk::Controlled_list` and its buttons |
| `MCLibrary` | `SubtitlesControl`, `FsConfig`, `Program`, `Playlist` and the six above in one run |
| `Library_proofs` | theorems about `FsConfig`, `MakeDirectory`, `ControlledList`, `Buffer`, `TreeView`, `Playlist` and `Strings` |
| `Induction` | induction on numbers and the values of recursive functions, for the proofs |

Definitions ending in a fault's name (`ScrollAllCompresses`, `add_task_unclaimed`, ...)
and commented "Fault in ..." are not part of any specification. Each is the
form a definition would have with a plausible bug; put in that definition's
place it makes TLC refute one property, which shows that the property depends
on the code being as it is.

### Mplayer and MainWindow

The bytes MPlayer prints are tokens: a position (the start of a status line),
`Noise`, `Eol`. `stream` is everything printed; `outPipe`, `inPipe` and `sigs`
are the three bounded pipes. `wpc` is where the worker is in `operator()`:

| `wpc` | code (`mplayer.cpp`) | actions |
|---|---|---|
| `read` | blocking read of the first byte, 286-299 | `WorkerRead`, `WorkerEof` |
| `drain` | non-blocking reads until nothing is left, 301-322 | `WorkerDrain` |
| `scan` | the loop over complete lines, 330-357 | `ProcessLine`, `LinesDone` |
| `emit` | `offset_changed_signal()` outside of the mutex, 190 | `EmitOffsetChanged` |
| `quit` | `mplayer_quit_signal()`, 359-360 | `EmitMplayerQuit` |

What runs under the mutex, or touches only what one thread owns, is one action;
every system call, and each of the two halves of a callback that other threads can
get between, is its own. `gpc` is where the GTK thread is: the constructor
(`Start`, `ListenStdin`), the loop, or inside one of the handlers, which run one at
a time. `write_to_stdio()` is the tail of two handlers and blocks while the pipe is
full. `MLIB_W` ends the process, as `warning_function` does. `sigchld_handler`
puts a thread into `wait(NULL)` until MPlayer ends; it is entered only with
`JobControl`, when MPlayer is stopped or continued (for the SIGCHLD of MPlayer's
end it returns at once and is no step). MPlayer, the user and the terminal are
unconstrained. `on_delete_cb` disconnects and hides; a hidden window gets no keys.

The lists are abstracted to the position they were last scrolled to (`shown`).
`V` maps to `Viewer`: the callback has taken its effect when it has read the
position, so `shown` is mapped to `time` while it scrolls.

### SubtitlesLoad and SubtitlesControl

A file is a sequence of tokens that `Extend` supplies while the reader asks for
them, so all files up to a length are read in one run. A token is the visible
content of a line as the three regular expressions classify it, a byte order mark,
a delimiter or the end. Conversions by `smart_convert()` are left out: nothing else
in `load()` depends on them. `GetContent`, `GetLf`, `GetCr` and `GetEof` are the
branches of the reader, `GetSubtitle`, `GetTime` and `GetText` those of the parser;
`Parse` is the whole switch with the fall-through from `GET_SUBTITLE` to `GET_TIME`.

`scroll_to()` is given by what its two loops compute: `Forward` stops before
the first later subtitle that begins after the position, `Backward` after the first
earlier one that began before it.

### AsyncFs

Each function and each locked block is one action. A client that claims the start
is at `cpc = "start"` until it has started the thread; the executing thread passes
`check` (419-444), `run`, `finish` and `notify` (`finish_task()`, only with
`GlibSignals`), `pop` (502-506). `wait` is the destructor: the code is not to be
called any more by then, so it waits until every client is idle, and the calls are
disabled from then on. `quiet`, `ran`, `delivered` and `signalled` are history
variables that properties speak of. `J` maps to `JobQueue`: a task in hand stays at
the front of `tasks` until it is popped, and is executed by `Run`.

### FsConfig

A file is absent, a part of a configuration, or a whole one, numbered. The program
reads or saves: `start_writing()` (whose copy is two steps), the writing of the temporary
file (two steps), and `end_writing()`, whose removal and rename are two steps. `Stop` is
the end of the program, or an exception that ends the saving, before any of them. `torn`
records that it fell into the copy of `start_writing()`, which nothing protects:
`SavedIsFound` is about everything else. What the file system loses when the machine
crashes (nothing is synced) is outside of the model.

### FsWatcher

This application never sets `MLIB_ENABLE_INOTIFY`; the module models what the library is
with it. `live` and `events` are inotify's watches and queue, `connection` the bytes in
the pipe of `Connection`, `new_file_signal` those in the pipe of the `Glib::Dispatcher`, of
which `SignalCap` have room: a thread that finds it full waits in `Signal` until the owner
takes one. `opc` is where the owner is in `set_`/`unset_watching_directory()`,
`get()` or the destructor; `tpc` is where the thread is in `operator()` and
`process_event()`. The files of a directory appear in any order and directories are
deleted at any time; `happened` and `taken` are history variables. What `lstat()` says of
a new file is left open, as it may have changed since.

### PathTree and FileTree

A path is the sequence of what stands between its slashes. boost takes `//name` at the
beginning of a path for a root's name, one element (`HasRootName`), and not for `/`:
`is_absolute()`, and `normalize()` after it has taken one of several slashes away, go by
that element. `is_simple()` compares two characters with `../` and `/..`, so it only looks for
a `..` in the middle. `Write` spells every list of files, so `NormalFormAgrees` and `TreeIsExact` are checked of each list against where its
paths lead (`Goto`) before `Begin` makes the tree. From then on `frames` are the
recursive calls, each with the children left and the errors pooled, `call` is the system call that
comes next for a child, and `fs` is the directory copied to or removed from. `op` chooses
between the two walks of a tree and the two walks of a directory. The order of the
children is left open; the source of a copy is not a variable: any look at it may
fail. `boost::fs::copy_file()` is taken to open the new file with `O_EXCL`.
`create()` lets `"."`, `".."` and `"../.."` through, and files below `".."`, because
`is_simple()` does. The first three (`Dots`) are directories that exist, with more in them than
the tree, so copying reports them as existing and removing fails. Lists with a file below
`""`, which only a path of several slashes gives, are not copied or removed.

### Program

`proc` is where each of the two processes is, by the call it is about to make; `fds`
are their tables of descriptors, whose entries are pipe ends or what was standard when
`main()` began. `holder` are the four `File_holder`s of `start()`; a child has copies of
them. `exit_wrap` is where every warning leads: `tcsetattr()` works in it as long as
descriptor 0 is the terminal, so a child restores the terminal that its parent uses, if its
first call fails. `Die` is `MLIB_E`, an exception that nobody catches, or a signal.
`unlimited` is a hard limit of `RLIM_INFINITY`, which `close_all_fds()` makes -1.

### Playlist, Strings, Torrent

Functions, and an action that asks them once. A name of `Playlist` is a sequence of
letters, one of which grows in upper case. `Strings` shows amounts as numbers with units
and works on 32 bits: `Kilo` and `Thousand` are 128 and 125 in the run, so that gigabytes
are reached; their ratio, on which the boundaries depend, is 1.024 in both. `Torrent`
builds every list of up to two files from the entries that may be there or not, as UTF-8
or not. What libtorrent makes of them is external. Text that has been spoilt is `"?"`, which
an author may also have written: it is a name like any other. `Added` and `NewPath` are what
one character does to the words of `split()`, and what one file of the list is renamed to, so
that the loops are recursive functions.

### MakeDirectory

Every system call is a step, `Meddle` is another process, `seen` collects what has been
at the path since a call began. A caller ends with the directory made or found, throws, or,
in the function "with race conditions", gives up, which its own caller cannot tell from success. A path that lacks its parent is `"no_parent"`; that
access is denied is left out.

### Buffer

`data` are the bytes with those that `realloc()` added as `Junk`. `load_file()` reads one
piece per step while others append to the file. Calls between two pieces are not possible, as
one thread owns the buffer. The copy constructor is left out: it assigns to members
that are not set.

### TreeView and ControlledList

GTK is modelled from its use: it keeps order, visibility and widths. Columns get their
widths when they are laid out (`Layout`), so one that was never in sight is saved with
width 0, which `set_fixed_width()` refuses: `SettingsSurvive` is about those that were.
`ActivateMenuItem` may come at any time after `HeaderMenu`, with the handler bound
then. `outdated` in `ControlledList` is history: the owner has changed the public model,
which nothing tells the buttons.

### MCThreads and MCLibrary

Nothing connects these components, so one run has them all: `object` says which one
a behaviour is about, and the others rest in an initial state. It is the sum of their state
spaces and no product. In `MCThreads` the fairness is that of both components, and a component
that rests has nothing enabled that it speaks of. Deadlock is not checked in `MCLibrary`:
questions are asked once, and processes end.

## 3. Runs

| run | properties | bounds and why they are enough |
|---|---|---|
| `window_safety` | `NoLostUpdate`, `QuitComesLast`, `FramingCorrect`, `LastPositionShown`, `ViewerSpec` | three positions, four printed tokens: two complete status lines, or one cut in any way by `Eol`s; pipes of one or two entries, so that each of them fills; two keys, from either source; a line limit of two, so that it is exceeded |
| `window_live` | `PlayerQuitEndsProgram`, `PositionIsFollowed` | job control, and a key pipe of one that fills with two keys: MPlayer may ignore its keys for ever, and stopping it may hold a thread for ever, and then the code follows nothing; `PositionIsFollowed` says what it does follow otherwise |
| `window_stdin` | violation of `StdinKeysAreRead` | |
| `window_stopped` | violation of `ViewerLive` | job control |
| `subtitles_last` | violation of `EverySubtitleLoaded` | |
| `threads` | of `AsyncFs`: `OneExecutor`, `NoTaskStranded`, `QuietGroup`, `ImplementsJobQueue`, `JobsProgress`, `BusyPauseIsSignalled`, `DestructorReturns` | two clients, as two threads suffice for each race on `started`; two worker identities, so that a second thread would show; four tasks of two groups |
| | of `FsWatcher`: `ReportsAreCurrent`, `OwnerIsWoken`, `ReportedInOrder`, `AbortsOnlyIfGone`, `UnsetReturns` | two directories, watched two times, so that one is watched after another or once more; three events, queued together or apart; a pipe of two notifications, so that it fills |
| `async_fs_idle_pause` | violation of `PauseIsSignalled` | |
| `library` | of `FsConfig`: `SavedIsFound` | five configurations, each of them interrupted at any step or not: two interruptions in a row, and what a whole save does after them; further ones meet the same files |
| | of `SubtitlesControl`: `OneLinePerDelimiter`, `TextConserved`, `TerminatedFileIsComplete`, `OneHighlighted`, `NoneBetween`, `ForwardIsExact` | every file of up to ten tokens with at most two that are unusual (`MaxBlemished`, `MaxRare`): two subtitles with any blemish; every clean file of up to fifteen: three subtitles with times in any order; then positions before, at, between and after them in any sequence |
| | of `TreeView`: `HeaderStays`, `SettingsSurvive` | versions with two columns and with those and a third in another order; a settings file that hides all; two columns that sort by one column of the model |
| | of `ControlledList`: `ButtonsMatch` | four rows: a first, a last, and two that swap between them; any of the buttons |
| | of `Strings`: `AnswersAreRight` | periods and sizes around each boundary; every string of up to four characters of four kinds |
| | of `Buffer`: `LoadedExactly` | pieces of two bytes, a limit of three, files of up to four: below, at and above the limit, and ending with a piece; four calls before, between and after loads |
| | of `Torrent`: `PathsAreRight` | lists of two files, with the second one after a file in UTF-8; names that lead out, that are empty or missing |
| | of `Playlist`: `SubtitlesAreFound` | stems of up to three letters, in both cases, with dots, and with a letter that grows |
| | of `MakeDirectory`: `DirectoryIsThere` | two callers of either function, two changes by another process, so that what was there goes and something else comes |
| | of `Program`: `TerminalIsPutBack`, `EndsAreSeen` | descriptors up to 7, which the program does not exhaust; everything else is finite |
| `fs_config_copy` | violation of `NeverSpoilt` | |
| `file_tree` | `NormalFormAgrees`, `TreeIsExact`, `CopiedOrReported`, `RemovedOrReported` | two paths of four components altogether: `..` after a name, at the root, at the beginning and twice there, one, two and three slashes before a name, two files of one directory, a file under a file; one path changed by another process at any moment |
| `file_tree_listed` | violation of `ListedAreRemoved` | one file, and nobody else changes the directory |
| `make_directory_file` | violation of `MadeOrThrown` | |

### Fairness

* Threads are scheduled: weak fairness of the worker and of every step the GTK
  thread takes within a handler, of `AsyncFs`'s executing thread, of a client that
  has claimed a start, and of a destructor whose semaphore was posted.
* The GLib main loop dispatches every source of one priority that is ready in an
  iteration, so a notification or typed key is not put off for ever by another
  source: strong fairness of `NotifiedOffset`, `on_player_closed_cb`,
  `on_stdin_data` and `LeaveLoop`, which other handlers disable again and again
  by occupying the thread.
* In `FsWatcher`, weak fairness of the thread and of the steps of a call that the owner
  has begun; nothing of when the owner calls, or of what happens in the directories.
* Nothing is assumed of MPlayer (it need not print, read its keys, or end), of the
  user, of the terminal, of job control, of who calls `m::async_fs`.
* `EchoFails`, `on_delete_cb` and every failure may happen and need not.

### What the violations show

* `on_stdin_data` takes `errno == 0` after a read for the end of the file, and
  `unix_read` sets `errno` to 0 whenever it succeeds: the first chunk typed in the
  terminal is the last one that is read.
* SIGCHLD is delivered for a stopped and a continued MPlayer too, and
  `wait(NULL)` in its handler then blocks a thread until MPlayer ends. If it is the
  worker, or the GTK thread, the subtitles stand still. That MPlayer's end
  still ends the program is what `window_live` shows.
* A file that does not end by a line delimiter loses its last subtitle, and the
  condition meant to report an unfinished file is true in every state.
* Interrupted in `end_writing()` and again in the copy by which the next
  `start_writing()` repairs that, the configuration store has a part of a configuration
  where `start_reading()` prefers it to the whole one beside it.
* A pause of an idle asynchronous file system sets the flag, and the signal that
  the header promises never comes.
* `rm_files_with_empty_dirs()`, which removes "all files" of its list (`fs.hpp:359-365`),
  leaves a link to nothing where it is and reports no error.
* `mkdir_if_not_exists_with_race_conditions()`, which makes the directory and forgives one
  thing only (`fs.hpp:347-350`), returns with no error when a plain file is at the path.

## 4. Proofs

Every theorem holds for all values of the constants that satisfy the assumptions
of the modules: capacities and `LineLimit` of at least one, a read size no larger
than MPlayer's pipe, `Zero` among the positions, times that are naturals, a bound
on the length of a file of at least one, descriptors for the three standard streams
(`ProgramAssumption`), pieces of a file of at least one byte (`SizesAreSizes`), names that are
neither empty nor dots nor `//` (`NameAssumption`, which `FileTreeAssumption` extends by `".name"`, the
name of the directories from which `NormalFormAgrees` and `TreeIsExact` start), a `NoRow`
that is no row, versions of a model with at least one column and each column once
(`TreeViewAssumption`), an upper case that is made of letters (`PlaylistAssumption`), bytes
of a charset that stand for text and never for bytes (`TorrentAssumption`), and a kilobyte of
at least a hundred bytes and at most a ninth above a thousand (`StringsAssumption`: 1024 and 1000
are, and so are the 128 and 125 of the run). No sets are assumed finite.

**`MainWindow_proofs`** (with and without job control)

* `TypeCorrect`: `TypeOK`, by itself inductive.
* `QuitOrder`: `QuitComesLast` with, in `OrderInv`, that there is no worker before
  `Start`: otherwise `Start` could bring a worker back that had already sent its
  last notification.
* `NoUpdateLost`: `NoLostUpdate` is not inductive, because the callback scrolls to
  the value it has read. `SeenInv` says of that value (`Seen`: `time` while
  scrolling, else `shown`) what `NoLostUpdate` says of `shown`, and that the
  callback only runs while the handler is connected.
* `ImplementsViewer`: each step is a step of `Viewer` or a stutter.
  `JoinAndExit` is `Viewer`'s `Finish`: it needs `OrderInv` (the pipe is empty and the
  worker done) and `SeenInv` (so the position shown is the last one).
* `FramedCorrectly`: `FramingCorrect` is not inductive. `FrameInv` says where the worker's
  output and MPlayer's pipe are in the stream, index by index; that the worker stands
  behind an `Eol`, so that the next line it processes begins there; and that nothing is left
  of a whole line when it reads again or quits. `NextLine` finds the last status line when
  one more was processed.
* `LastShown`: from `FrameInv`, `OrderInv` and `SeenInv` at the end.

**`AsyncFs_proofs`** (with and without the Glib signals)

* `TypeCorrect`, `SingleExecutor`: `Inv` adds `FrontInHand` (the task in hand is
  the front of the queue, without which `Tail` and the popped task are unrelated) and
  `NotifiedHasTask` (the callback finds a task).
* `NoneStranded`: inductive with `Inv`.
* `PauseIsKept`: `QuietInv` adds that a promise holds only while paused, so
  that `Take` cannot break it.
* `ClosedAlone`: `EndInv` adds that the semaphore is posted at most once, by a
  thread that has ended, and that no client is left that starts another one.
* `SignalledInOrder`: `DeliveryInv` adds that the executed tasks are those that
  are signalled or queued to be, and one more while `finish_task()` is under way.
* `Implements`: each step is a step of `JobQueue` or a stutter; `Run` is `Finish`,
  `Take` is `Begin`.

**`Subtitles_proofs`**

* `ListIsSorted`: `ListInv` adds that the local `time` is an upper bound of the
  times in the list.
* `HighlightsOne`, `StopsAtThePosition` (that no subtitle begins between the beginning of the
  current one and the position), `ForwardExact`: what the two searches
  return (`ForwardStops`, `BackwardStops`) for any sorted list. That a set of naturals
  has a smallest, and a bounded one a greatest, element is `Least` of `Induction`.
* `TypeCorrect`, `TerminatedIsComplete`: `ReaderInv` says that content stands alone
  on its line in the file read so far, that what is in the buffer was read since the
  last delimiter, that only `GET_TEXT` holds text, and that there is none once
  a `'\n'` was followed by the end of the file.
* `LinesAreCounted`, `TextIsConserved`: `CountInv` is `ReaderInv` with `LineInv` (what is
  behind a `'\r'` that was read is known, so the next step cannot count a line twice),
  `PlainInv` (the line at hand holds what the file has since its last delimiter) and
  `TextInv`. The sets that are counted are followed step by step: each step adds one element
  to one of them, or moves a line's text from one to another (`ParseMoves`; `Numbered` is the bijection).

**`Library_proofs`** (the components do not touch each other; each has an invariant of its own)

* `ConfigTypeCorrect`, `ConfigSurvives`: `PlaceInv` adds to `SavedIsFound` where the
  whole configurations are at each step of a save: the temporary file is whole from the end
  of its writing until the rename, and the configuration is absent only then, or after an
  interruption that left the temporary file whole.
* `DirectoryMade` (any number of callers; nothing is said of those that give up):
  `DirectoryIsThere` with what a caller has seen when
  it goes on (`SeenWell`: what is at the path now, and the nothing that sent it to `mkdir()`),
  and with what a path can be as long as nobody meddles (`Unmeddled`).
* `ButtonsAreRight`: a row is in the list once (`Distinct`), the selected one is in it, and
  the buttons are what `update_buttons()` makes of the list unless the owner came in between.
  Moving a row swaps two places, so it keeps both; removing selects a neighbour.
* `BufferLoads`: `LoadInv` says byte by byte what stands before the position, also where
  the room that was reserved ends; and that the size of a new buffer is what was read, so that
  the limit is met after the piece that reaches it and not before.
* `HeaderIsThere`: `TreeInv` says that the columns of the header are those of the list and the
  fake one, in whatever order (`TreeHolds`), so `check_columns_visibility()` has a column to show
  whatever was hidden. It has to hold after each column that `load_settings()` places
  (`ColumnsLoad`, with `Recursion` of `Induction`), for settings that name any columns in any
  order, some twice. A column that is moved leaves its place and takes another (`WithoutHas`,
  `DragKeeps`), so the columns stay the same.
* `SettingsKept`: `SessionInv` adds that no column is twice in the header, that the list is
  sorted by a column or as it is, and that between two sessions the settings are those
  of the list (`EndSession` is the last step of a session). `LoadedSoFar` says of the last
  n columns that were saved, each moved to the start, that they are in their order and
  look as they did; it needs that no name is saved twice (`SavedIs`), which the header gives.
  The order of a list is reasoned about as which column stands before which (`BeforeOf`,
  `WithoutOrder`), and is stated so in `Restored`.
* `SubtitlesFound`: the upper case of two names is the same exactly when that of each of their
  letters is, as long as no letter grows (`UppercaseOf`, `SameCase`): the length of a name is
  compared with the length of an upper case.
* `AnswersOfStrings`: each step asks once, so `AnswersAreRight` is inductive and what has to be
  proved is about the functions. Sizes: a quotient is the only number `q` with
  `q * unit <= size < (q + 1) * unit` (`QuotientOnly`), so the tenths of a gigabyte, which are
  counted from kilobytes, are those of the size but for a kilobyte
  (`TenthsOfIs`); a unit that has ten thousands of the one below has nine of its own
  (`NumberIs`, where `9 * Kilo <= 10 * Thousand` is needed). Periods: the two largest
  units are the period without the rest of the smaller one (`TwoUnitsShown`). `split()`: after
  each character the words together are the characters so far (`TogetherSplit`), none has a
  separator and the first ends at the first separator (`WordsSplit`).

**`FsWatcher_proofs`**

* `TypeCorrect`, `NoStaleReports`, `OwnerWoken`: the invariant says which watch belongs to
  the directory, that an event of another watch is queued only while the thread of
  its directory still runs (because `wait_for_with_owning()` prefers inotify to the
  stop), and that a file queued before its notification has a thread that is about to
  send it.
* `AbortsOnly`: a watch is missing only when its directory was deleted.
* `AllReported`: `OrderInv` is `ReportedInOrder` queue by queue. `Certain()` of two queues one
  behind the other is the one of the first before the one of the second (`CertainConcat`), so
  a step that moves the front of one queue to the end of the one before changes nothing.

**`Program_proofs`** (any number of descriptors)

* `TypeCorrect`, `PutBack`, `EndsSeen`: `ParentInv` and `ChildInv` say which end of a pipe each
  process has at each point of `start()` and of what the child does before `execvp()`, and that
  it has it under the holder's descriptor only; `TerminalInv` says who would put the terminal
  back, and who can still reach it. A new descriptor is never 0, 1 or 2, since the parent keeps
  these: without that `dup2()` over 0 could close the end it is about to copy next.

**`FileTree_proofs`** (any names, trees, file systems and changes by others)

* `TypeCorrect`: `TypeInv` says how the recursive calls, the system call at hand and the
  file system fit each other: each call's directory is a child of the one of the call that
  made it, what is left of it are children, and what exists has a directory above it.
* `Copied`: `CopyInv`, that each file is *owed* at every step: copied, or reported, or under
  something that is left or reported by a call that is under way, or under what the next
  system call is for.
* `Removed`: `RemoveInv`, that as long as no call has an error each path is *seen to*: gone, or
  staying by rule, or changed by others, or under what is left, or a directory that is being
  emptied, or what the next system call is for. An error is never lost on the way up, although
  a call that throws drops its own.
* `NormalFormIsRight`: `normalize()` and following a path are both recursive over the path;
  that they lead to the same place is shown component by component, for paths of any length
  (`NormalizeLeads`, with `NormalForm`: a `..` stands only at the beginning). What `dirname()`,
  `basename()` and `absolute()` lead to follows from that. It is about paths that do not begin
  with exactly three slashes, and for `absolute()` not with two: the code makes other paths of these.
* `TreeIsRight`: from a place deep enough the place of a normal form is found by cutting off
  as many names as it has `..` (`PlaceIs`); so one file is another or under it exactly when
  its normal form is a beginning of the other's (`SameBeginning`), which is what
  `create()` looks for (`CreateIs`). For files inside the root that says when there is a tree; of
  files that are not, a normal form that `is_simple()` lets through has at most one `..` before a
  name, or is `../..`.
* `PathsOfTorrents`: `TorrentInv` says that the metadata are none, those of the torrent or an
  error, and the paths those of the metadata. The rest is about the functions. What
  `normalize()` makes of an absolute path is a slash and names only, `..` is not left
  (`NormalizeNormal`).
  After each file of the list `utf` says whether the list or a file up to that one is in UTF-8,
  and each file so far has the path made for it, unless the first file has that path
  (`RenamedIs`, an induction over the loop). If what the author wrote is uniform, it is then
  read as he meant it (`ReadIs`).

**`Induction`**

The library's induction theorems take operators as parameters, which the provers cannot
instantiate. `Least`, `AllNumbers` and `UpTo` state the principle of sets of numbers, `Recursion`
that a function defined step by step exists, and `SameValue` that two of them are the same,
from the library's well-foundedness of `<`. So a value that is computed component by
component (`normalize`, `Follow`, `Certain`) can be reasoned about in the modules that write it as
a recursive function.

**Proved and not checked again.** The type invariants of these modules, `ClosedIsQuiet`,
`FinishedInOrder` and `TimesSorted` were checked by TLC before they were proved, and are left
to the proofs now.

**Only model-checked.** All liveness (`PositionIsFollowed`, `PlayerQuitEndsProgram`,
`JobsProgress`, `BusyPauseIsSignalled`, `DestructorReturns`, `UnsetReturns`), which TLAPS
does not reach. Every invariant and every other safety property of the
passing runs is stated by a theorem.

## 5. What is not modelled

* Which bytes a key of the window is translated to, the layout and scrolling of the
  text views, `smart_convert()`, messages, wording and dates.
* `O_NONBLOCK` on stdin, which the terminal keeps when the program has ended, as nothing
  takes it back.
* A `Glib::Dispatcher` pipe that fills in `m::async_fs`, with `paused_signal` written under
  the mutex that the reader waits for; threads that cannot be created (in `Program` a
  death); a `sem_wait()` interrupted by a signal, which `MLIB_A` makes an abort.
* An inotify queue that overflows; what a file system loses when the machine crashes.
* Version numbers, log prefixes, `run()`, the wrappers of one system call, error classes.
* `m::gtk` but for the two lists; the selection of rows and tooltips of `Tree_view`; its
  editing mode, which is compiled out.
* Of `m::libtorrent`: creating torrents, magnet links, trackers, progress. Nothing of it is
  compiled in this build.

## 6. What the models say of the code besides

Facts that the properties had to be stated around.

Some of them disagree with what the repository says of the code. No run shows these as
a violation; the property they limit says where it stops:

* `SubtitlesControl`: when the position goes back between two subtitles, `scroll_to()` highlights
  the next one, not the one that has begun: with subtitles at 1 and 3, the current one at
  3 and the position at 2, it stays at 3 (`main_window.cpp:263-268`). `main_window.cpp:157` says
  "Делает активным субтитр, соответствующий времени offset." (activates the subtitle that
  corresponds to the time). `NoneBetween` holds in both directions and is weaker than that;
  `ForwardIsExact` says it (`SubtitleAt`) of positions that go forward.
* `FsWatcher`: `new_file_signal()` (`fs_watcher.cpp:298`) writes to a bounded pipe that only the
  owner empties. While the owner is in the join of `unset_watching_directory()` (360) the thread
  goes on with the events that are queued, up to 16384 as inotify is set up by default; if
  there are more of them than notifications fit in, both wait for ever and the call does
  not return, where `fs_watcher.hpp:83` says "Снимает текущую директорию с мониторинга" (stops
  the watching of the current directory).
  `Deadlocked` is that state, `UnsetReturns` excepts it and says there is no other. The run
  has a pipe of two and reaches it.
* `PathTree`: of three leading slashes `normalize()` takes one away, and boost takes the two that
  are left for the beginning of a root's name, so that `///a` becomes `//a`, where the
  comment at `fs.cpp:612-615` means to have single ones; `is_absolute()` (573-579) says of
  `//a` that it is relative, so that `absolute()` puts the current directory before it. `NormalFormAgrees`
  is not about the former, nor, of `absolute()`, about the latter.
* `PathTree`: `is_simple()` compares two characters with `../` and `/..` (`fs.cpp:598`), so it
  finds neither at the ends of a path. `create()` makes trees of `../file` and `../..`, whose files
  are outside of the root they are copied to or removed from, although `fs.cpp:280-281` says
  "Какие-либо нестандартные пути вроде "/" и "../file" не поддерживаем." (we do not support unusual
  paths like "/" and "../file") and `fs.hpp:200-202` "Определяет, является ли путь
  простым, а именно, не содержит ли он в себе "../", "/./" и т. д." `TreeIsExact` says how far
  it goes: the directory above the root, what is in it, and the one above that.
* `Strings`: `split()` gives an empty string wherever two separators meet or one is at an
  end, although `string.hpp:260-261` says "Разделяет строку на подстроки, при этом проверяя, чтобы в
  результирующем векторе не было пустых строк." (checking that there are no empty ones).
  `StringsAreKept` says what it does: the words and the separators are the string again.
* `Strings`: `get_time_duration_string()` throws `std::out_of_range` for one to 59 seconds
  (`string.cpp:200`), although `string.hpp:211` says "Возвращает строковое представление периода времени
  вида 1d 5h 50m." `PeriodsAreRight` leaves these durations out.

Of the others nothing is said in the repository:

* `Program`: a child whose first `dup2()` fails puts the terminal back while its parent
  needs it raw. With an unlimited number of descriptors MPlayer keeps the writing end of
  its own stdin and never sees its end. A program that aborts leaves the terminal raw.
* `MainWindow`: a key pressed after MPlayer died and before its end was dispatched ends the program
  as failed. `Viewer` allows a failure at any time, so no property excludes it.
* `FileTree`: a link to nothing stays in `rm_files_with_empty_dirs()`, and so do the directories above it:
  `Stays` has it, so that `RemovedOrReported` can speak of everything else.
* `FsWatcher`: a directory that was moved away is reported as one that was deleted, but its
  watch is still there; `AbortsOnlyIfGone` does not tell the two apart.
* `Playlist`: `film.SRT` is no subtitle file, and neither is one for a film with a letter
  whose upper case is longer (`main.cpp:260` compares lengths of different strings).
* `Strings`: a string of bytes that cannot be converted goes through `isprint()` as a signed
  `char`.
* `Buffer`: `set_pos()` checks the position it leaves, so one behind the end is found at
  the next call; `write_file()` writes the room that `load_file()` reserved as well.
* `Torrent`: after one file with `path.utf-8` all later ones are taken for UTF-8; the
  comparison before a rename is with the first file's path, whatever file is renamed, and
  since the new path begins with a slash it only ever prevents the rename of a file whose
  path is the one the first file was given.
* `TreeView`: a column that was hidden all along loses its width; `remove_column()` may take
  the last visible column. `ControlledList`: rows that the owner adds or drops leave the
  buttons as they were.

## 7. Plan

The models of the plan are written and checked, `MainWindow` with `Mplayer` against `Viewer`,
`SubtitlesControl` on `SubtitlesLoad`, `AsyncFs` against `JobQueue`, `FsConfig`, `FsWatcher`,
`FileTree` on `PathTree`, `Program`, and the components of `MCLibrary`; their safety is proved.

What could follow: the selection and tooltips of `Tree_view`, `smart_convert()` and the
text views, and a file system that loses writes in `FsConfig`.
