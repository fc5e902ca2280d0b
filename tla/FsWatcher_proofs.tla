--------------------------- MODULE FsWatcher_proofs ---------------------------
(***************************************************************************)
(* Theorems about FsWatcher, for any directories, any number of changes of *)
(* the directory and of events: the thread of one directory leaves nothing *)
(* to the thread of the next, and the events that have to be reported are, *)
(* in their order.                                                         *)
(***************************************************************************)
EXTENDS FsWatcher, SequenceTheorems, Induction

\* The watch that inotify has is the last one given out, and the one the owner
\* knows of; it is removed before the thread is told to stop.
WatchInv ==
  /\ live # NoWatch => live = nextWatch /\ watch_fd = nextWatch
  /\ watch_fd # NoWatch => watch_fd = nextWatch /\ watching_directory # NoDir
  /\ watching_directory # NoDir /\ opc \notin {"post", "join"} => watch_fd # NoWatch
  /\ opc \in {"rm", "post", "join", "start"} => watching_directory # NoDir
  /\ opc \in {"clear", "add", "closed"} => watching_directory = NoDir
  /\ opc \in {"post", "join"} => watch_fd = NoWatch
  /\ \/ opc \in {"clear", "add"}
     \/ opc \in {"rm", "post", "join"} /\ after = "clear"
     => target # NoDir /\ nextWatch < MaxWatch

\* There is a thread while a directory is watched, and it ends only when the
\* byte that stops it was written.
ThreadInv ==
  /\ tpc = "none" <=> (watching_directory = NoDir \/ opc = "start")
  /\ tpc = "ended" => opc = "join" /\ connection = 0
  /\ connection # 0 <=> (opc = "join" /\ tpc # "ended")
  /\ tpc \in {"select", "process", "signal"} => local = watching_directory

\* Events are of the last watch; none outlives its thread.
EventInv ==
  /\ \A i \in 1..Len(events) : events[i].wd = nextWatch
  /\ \A i \in 1..Len(batch) : batch[i].wd = nextWatch
  /\ tpc \in {"none", "ended"} /\ opc # "start" => events = <<>>
  /\ tpc \in {"none", "select", "ended"} => batch = <<>>
  /\ tpc = "process" => batch # <<>>
  /\ opc \in {"add", "start"} => new_files = <<>>

Inv == WatcherTypeOK /\ WatchInv /\ ThreadInv /\ EventInv

LEMMA InitInv == WatcherInit => Inv
<1>. SUFFICES ASSUME WatcherInit PROVE Inv
  OBVIOUS
<1>1. WatcherTypeOK
  BY WatcherConstants DEF WatcherInit, WatcherTypeOK, NoWatch
<1>. QED
  BY <1>1 DEF WatcherInit, Inv, WatchInv, ThreadInv, EventInv, NoWatch

\* An event that inotify tells of is of the watch it has.
LEMMA SeenIsEvent ==
  ASSUME WatcherTypeOK, live # NoWatch
  PROVE  /\ live \in Watch
         /\ \A kind \in Kind : Seen(kind) \in Event /\ Seen(kind).wd = live
BY WatcherConstants DEF WatcherTypeOK, NoWatch, Watch, Seen, Event

LEMMA NextType == Inv /\ [WatcherNext]_watcherVars => WatcherTypeOK'
<1>. SUFFICES ASSUME Inv, [WatcherNext]_watcherVars PROVE WatcherTypeOK'
  OBVIOUS
<1>. USE DEF Inv, WatcherTypeOK, kernelVars, ownerVars, threadVars, reportVars
<1>1. CASE Call
  BY <1>1 DEF Call, Unset
<1>2. CASE RemoveWatch
  <2>1. CASE live = NoWatch
    BY <1>2, <2>1, WatcherConstants DEF RemoveWatch, NoWatch
  <2>2. CASE live # NoWatch
    <3>1. Seen("ignored") \in Event
      BY <2>2, SeenIsEvent DEF Kind
    <3>2. events' \in Seq(Event)
      <4>1. events' = Append(events, Seen("ignored"))
        BY <1>2, <2>2 DEF RemoveWatch
      <4>. QED
        BY <3>1, <4>1, AppendProperties
    <3>. QED
      BY <1>2, <2>2, <3>2, WatcherConstants DEF RemoveWatch, NoWatch
  <2>. QED
    BY <2>1, <2>2
<1>3. CASE Post
  BY <1>3 DEF Post, ThreadInv
<1>4. CASE Join
  BY <1>4 DEF Join
<1>5. ASSUME NEW next \in {"idle", "add"}, Clear(next) PROVE WatcherTypeOK'
  <2>1. taken \o new_files \in Seq(Report)
    BY ConcatProperties
  <2>. QED
    BY <1>5, <2>1 DEF Clear
<1>6. CASE AddWatch
  <2>1. nextWatch + 1 \in 0..MaxWatch
    BY <1>6, WatcherConstants DEF AddWatch, WatchInv
  <2>2. nextWatch' \in 0..MaxWatch /\ live' \in 0..MaxWatch /\ watch_fd' \in 0..MaxWatch
    BY <1>6, <2>1 DEF AddWatch
  <2>3. watching_directory' \in Dir \cup {NoDir}
    BY <1>6 DEF AddWatch
  <2>4. opc' \in {"idle", "start"}
    BY <1>6 DEF AddWatch
  <2>. QED
    BY <1>6, <2>2, <2>3, <2>4 DEF AddWatch
<1>7. CASE Start
  BY <1>7 DEF Start
<1>8. CASE OnNewFile
  BY <1>8, WatcherConstants DEF OnNewFile
<1>9. CASE get
  <2>1. CASE new_files = <<>>
    BY <1>9, <2>1 DEF get
  <2>2. CASE new_files # <<>>
    <3>1. /\ Head(new_files) \in Report
          /\ Tail(new_files) \in Seq(Report)
      BY <2>2, HeadTailProperties
    <3>2. Append(taken, Head(new_files)) \in Seq(Report)
      BY <3>1, AppendProperties
    <3>. QED
      BY <1>9, <2>2, <3>1, <3>2 DEF get
  <2>. QED
    BY <2>1, <2>2
<1>10. CASE Select
  <2>1. CASE events # <<>>
    <3>1. PICK n \in 1..Len(events) :
            /\ batch' = SubSeq(events, 1, n)
            /\ events' = SubSeq(events, n + 1, Len(events))
      BY <1>10, <2>1 DEF Select, wait_for_with_owning
    <3>2. batch' \in Seq(Event) /\ events' \in Seq(Event)
      BY <3>1, LenProperties, SubSeqProperties
    <3>. QED
      BY <1>10, <2>1, <3>2 DEF Select, wait_for_with_owning
  <2>2. CASE events = <<>>
    BY <1>10, <2>2 DEF Select, wait_for_with_owning
  <2>. QED
    BY <2>1, <2>2
<1>11. CASE Process
  <2>1. batch # <<>>
    BY <1>11 DEF Process, EventInv
  <2>2. Head(batch) \in Event /\ Tail(batch) \in Seq(Event)
    BY <2>1, HeadTailProperties
  <2>3. ASSUME NEW path \in Dir \cup {NoDir}
        PROVE  Append(new_files, [dir |-> path, wd |-> Head(batch).wd, kind |-> Head(batch).kind])
                 \in Seq(Report)
    <3>1. [dir |-> path, wd |-> Head(batch).wd, kind |-> Head(batch).kind] \in Report
      BY <2>2 DEF Report, Event
    <3>. QED
      BY <3>1, AppendProperties
  <2>4. new_files' \in Seq(Report)
    <3>1. local \in Dir \cup {NoDir}
      OBVIOUS
    <3>. QED
      BY <1>11, <2>3, <3>1 DEF Process
  <2>5. tpc' \in {"select", "process", "signal"}
    BY <1>11 DEF Process, NextEvent
  <2>6. batch' \in Seq(Event)
    BY <1>11, <2>2 DEF Process
  <2>. QED
    BY <1>11, <2>4, <2>5, <2>6 DEF Process
<1>12. CASE Signal
  BY <1>12, WatcherConstants DEF Signal, NextEvent
<1>13. CASE Happens
  <2>1. PICK kind \in {"create", "got", "self"} :
          /\ events' = Append(events, Seen(kind))
          /\ happened' = Append(happened, Seen(kind))
    BY <1>13 DEF Happens
  <2>2. Seen(kind) \in Event
    BY <1>13, SeenIsEvent DEF Happens, Kind
  <2>3. events' \in Seq(Event) /\ happened' \in Seq(Event)
    BY <2>1, <2>2, AppendProperties
  <2>. QED
    BY <1>13, <2>3 DEF Happens
<1>14. CASE Deleted
  <2>1. Seen("self") \in Event /\ Seen("ignored") \in Event
    BY <1>14, SeenIsEvent DEF Deleted, Kind
  <2>2. <<Seen("self"), Seen("ignored")>> \in Seq(Event)
    BY <2>1
  <2>3. events' \in Seq(Event) /\ happened' \in Seq(Event)
    BY <1>14, <2>1, <2>2, AppendProperties, ConcatProperties DEF Deleted
  <2>. QED
    BY <1>14, <2>3, WatcherConstants DEF Deleted, NoWatch
<1>15. CASE UNCHANGED watcherVars
  BY <1>15 DEF watcherVars
<1>. QED
  BY <1>1, <1>2, <1>3, <1>4, <1>5, <1>6, <1>7, <1>8, <1>9, <1>10, <1>11,
     <1>12, <1>13, <1>14, <1>15
     DEF WatcherNext, Owner, Thread, ClearFirst, clear

LEMMA NextWatchInv == Inv /\ [WatcherNext]_watcherVars => WatchInv'
<1>. SUFFICES ASSUME Inv, [WatcherNext]_watcherVars PROVE WatchInv'
  OBVIOUS
<1>. USE WatcherConstants
         DEF Inv, WatcherTypeOK, WatchInv, NoWatch, kernelVars, ownerVars, threadVars, reportVars
<1>1. CASE Call
  BY <1>1 DEF Call, Unset
<1>2. CASE RemoveWatch
  BY <1>2 DEF RemoveWatch
<1>3. CASE Post
  BY <1>3 DEF Post
<1>4. CASE Join
  BY <1>4 DEF Join
<1>5. CASE ClearFirst \/ clear
  BY <1>5 DEF ClearFirst, clear, Clear
<1>6. CASE AddWatch
  <2>1. CASE nextWatch' = nextWatch
    BY <1>6, <2>1 DEF AddWatch
  <2>2. CASE nextWatch' = nextWatch + 1
    <3>1. /\ live' = nextWatch' /\ watch_fd' = nextWatch' /\ nextWatch' # 0
          /\ watching_directory' # NoDir /\ opc' = "start"
      BY <1>6, <2>2 DEF AddWatch
    <3>. QED
      BY <3>1
  <2>. QED
    BY <1>6, <2>1, <2>2 DEF AddWatch
<1>7. CASE Start
  BY <1>7 DEF Start
<1>8. CASE OnNewFile \/ get
  BY <1>8 DEF OnNewFile, get
<1>9. CASE Thread
  BY <1>9 DEF Thread, Select, Process, Signal
<1>10. CASE Happens
  BY <1>10 DEF Happens
<1>11. CASE Deleted
  BY <1>11 DEF Deleted
<1>12. CASE UNCHANGED watcherVars
  BY <1>12 DEF watcherVars
<1>. QED
  BY <1>1, <1>2, <1>3, <1>4, <1>5, <1>6, <1>7, <1>8, <1>9, <1>10, <1>11, <1>12
     DEF WatcherNext, Owner

LEMMA NextThreadInv == Inv /\ [WatcherNext]_watcherVars => ThreadInv'
<1>. SUFFICES ASSUME Inv, [WatcherNext]_watcherVars PROVE ThreadInv'
  OBVIOUS
<1>. USE WatcherConstants
         DEF Inv, WatcherTypeOK, ThreadInv, kernelVars, ownerVars, threadVars, reportVars
<1>1. CASE Call
  BY <1>1 DEF Call, Unset
<1>2. CASE RemoveWatch
  BY <1>2 DEF RemoveWatch
<1>3. CASE Post
  BY <1>3 DEF Post
<1>4. CASE Join
  BY <1>4 DEF Join
<1>5. CASE ClearFirst \/ clear
  BY <1>5 DEF ClearFirst, clear, Clear
<1>6. CASE AddWatch
  BY <1>6 DEF AddWatch, WatchInv
<1>7. CASE Start
  BY <1>7 DEF Start, WatchInv
<1>8. CASE OnNewFile \/ get
  BY <1>8 DEF OnNewFile, get
<1>9. CASE Select
  BY <1>9 DEF Select, wait_for_with_owning
<1>10. CASE Process
  BY <1>10 DEF Process, NextEvent
<1>11. CASE Signal
  BY <1>11 DEF Signal, NextEvent
<1>12. CASE Happens \/ Deleted
  BY <1>12 DEF Happens, Deleted
<1>13. CASE UNCHANGED watcherVars
  BY <1>13 DEF watcherVars
<1>. QED
  BY <1>1, <1>2, <1>3, <1>4, <1>5, <1>6, <1>7, <1>8, <1>9, <1>10, <1>11, <1>12, <1>13
     DEF WatcherNext, Owner, Thread

\* Appending events of the last watch, or dropping some, leaves only such.
LEMMA OfWatch ==
  ASSUME NEW s \in Seq(Event), NEW w, \A i \in 1..Len(s) : s[i].wd = w
  PROVE  /\ \A e \in Event : e.wd = w => \A i \in 1..Len(Append(s, e)) : Append(s, e)[i].wd = w
         /\ \A m \in 1..(Len(s) + 1), n \in 0..Len(s) :
              \A i \in 1..Len(SubSeq(s, m, n)) : SubSeq(s, m, n)[i].wd = w
<1>1. ASSUME NEW e \in Event, e.wd = w, NEW i \in 1..Len(Append(s, e))
      PROVE  Append(s, e)[i].wd = w
  BY <1>1, AppendProperties, LenProperties
<1>2. ASSUME NEW m \in 1..(Len(s) + 1), NEW n \in 0..Len(s), NEW i \in 1..Len(SubSeq(s, m, n))
      PROVE  SubSeq(s, m, n)[i].wd = w
  <2>1. Len(s) \in Nat /\ \A j \in m..n : s[j] \in Event
    BY LenProperties, ElementOfSeq
  <2>2. /\ Len(SubSeq(s, m, n)) = IF m <= n THEN n - m + 1 ELSE 0
        /\ \A j \in 1..(n - m + 1) : SubSeq(s, m, n)[j] = s[m + j - 1]
    BY <2>1, SubSeqProperties
  <2>3. i \in 1..(n - m + 1) /\ m + i - 1 \in 1..Len(s)
    BY <2>1, <2>2
  <2>. QED
    BY <2>2, <2>3
<1>. QED
  BY <1>1, <1>2

LEMMA NextEventInv == Inv /\ [WatcherNext]_watcherVars => EventInv'
<1>. SUFFICES ASSUME Inv, [WatcherNext]_watcherVars PROVE EventInv'
  OBVIOUS
<1>. USE DEF Inv, EventInv, kernelVars, ownerVars, threadVars, reportVars
<1>1. CASE Call
  BY <1>1 DEF Call, Unset
<1>2. CASE RemoveWatch
  <2>1. tpc \notin {"none", "ended"}
    BY <1>2 DEF RemoveWatch, ThreadInv, WatchInv
  <2>2. \A i \in 1..Len(events') : events'[i].wd = nextWatch
    <3>1. CASE live = NoWatch
      BY <1>2, <3>1 DEF RemoveWatch
    <3>2. CASE live # NoWatch
      <4>1. Seen("ignored") \in Event /\ Seen("ignored").wd = nextWatch
        BY <3>2, SeenIsEvent DEF Kind, WatchInv
      <4>2. events' = Append(events, Seen("ignored"))
        BY <1>2, <3>2 DEF RemoveWatch
      <4>3. events \in Seq(Event)
        BY DEF WatcherTypeOK
      <4>. QED
        BY <4>1, <4>2, <4>3, OfWatch
    <3>. QED
      BY <3>1, <3>2
  <2>. QED
    BY <1>2, <2>1, <2>2 DEF RemoveWatch
<1>3. CASE Post
  BY <1>3 DEF Post
<1>4. CASE Join
  BY <1>4 DEF Join, WatcherTypeOK
<1>5. CASE ClearFirst \/ clear
  BY <1>5 DEF ClearFirst, clear, Clear
<1>6. CASE AddWatch
  <2>1. tpc = "none" /\ events = <<>> /\ batch = <<>>
    BY <1>6 DEF AddWatch, ThreadInv, WatchInv
  <2>. QED
    BY <1>6, <2>1 DEF AddWatch
<1>7. CASE Start
  <2>1. tpc = "none"
    BY <1>7 DEF Start, ThreadInv
  <2>. QED
    BY <1>7, <2>1 DEF Start
<1>8. CASE OnNewFile \/ get
  BY <1>8 DEF OnNewFile, get
<1>9. CASE Select
  <2>1. CASE events # <<>>
    <3>1. PICK n \in 1..Len(events) :
            /\ batch' = SubSeq(events, 1, n)
            /\ events' = SubSeq(events, n + 1, Len(events))
      BY <1>9, <2>1 DEF Select, wait_for_with_owning
    <3>2. events \in Seq(Event) /\ Len(events) \in Nat
      BY LenProperties DEF WatcherTypeOK
    <3>3. /\ \A i \in 1..Len(batch') : batch'[i].wd = nextWatch
          /\ \A i \in 1..Len(events') : events'[i].wd = nextWatch
      BY <3>1, <3>2, OfWatch
    <3>4. batch' # <<>>
      <4>1. \A i \in 1..n : events[i] \in Event
        BY <3>1, <3>2, ElementOfSeq
      <4>2. Len(batch') = n
        BY <3>1, <3>2, <4>1, SubSeqProperties
      <4>. QED
        BY <3>1, <3>2, <4>2
    <3>. QED
      BY <1>9, <2>1, <3>3, <3>4 DEF Select, wait_for_with_owning
  <2>2. CASE events = <<>>
    BY <1>9, <2>2 DEF Select, wait_for_with_owning
  <2>. QED
    BY <2>1, <2>2
<1>10. CASE Process
  <2>1. batch \in Seq(Event) /\ batch # <<>>
    BY <1>10 DEF Process, WatcherTypeOK
  <2>2. batch' = SubSeq(batch, 2, Len(batch))
    BY <1>10, <2>1, TailIsSubSeq DEF Process
  <2>3. Len(batch) \in Nat \ {0}
    BY <2>1, LenProperties, EmptySeq
  <2>4. \A i \in 1..Len(batch') : batch'[i].wd = nextWatch
    BY <2>1, <2>2, <2>3, OfWatch
  <2>5. opc \notin {"add", "start"}
    BY <1>10 DEF Process, ThreadInv, WatchInv
  <2>6. tpc' \in {"select", "process", "signal"}
    BY <1>10 DEF Process, NextEvent
  <2>7. (tpc' = "select" => batch' = <<>>) /\ (tpc' = "process" => batch' # <<>>)
    BY <1>10 DEF Process, NextEvent
  <2>. QED
    BY <1>10, <2>4, <2>5, <2>6, <2>7 DEF Process
<1>11. CASE Signal
  BY <1>11 DEF Signal, NextEvent
<1>12. CASE Happens
  <2>1. PICK kind \in Kind : events' = Append(events, Seen(kind))
    BY <1>12 DEF Happens, Kind
  <2>2. Seen(kind) \in Event /\ Seen(kind).wd = nextWatch
    BY <1>12, SeenIsEvent DEF Happens, WatchInv
  <2>3. events \in Seq(Event)
    BY DEF WatcherTypeOK
  <2>4. \A i \in 1..Len(events') : events'[i].wd = nextWatch
    BY <2>1, <2>2, <2>3, OfWatch
  <2>5. tpc \notin {"none", "ended"} \/ opc = "start"
    BY <1>12 DEF Happens, ThreadInv, WatchInv
  <2>. QED
    BY <1>12, <2>4, <2>5 DEF Happens
<1>13. CASE Deleted
  <2>1. /\ Seen("self") \in Event /\ Seen("self").wd = nextWatch
        /\ Seen("ignored") \in Event /\ Seen("ignored").wd = nextWatch
    BY <1>13, SeenIsEvent DEF Deleted, WatchInv, Kind
  <2>2. events \in Seq(Event) /\ Append(events, Seen("self")) \in Seq(Event)
    BY <2>1, AppendProperties DEF WatcherTypeOK
  <2>3. events' = Append(Append(events, Seen("self")), Seen("ignored"))
    BY <1>13, <2>1, <2>2 DEF Deleted
  <2>4. \A i \in 1..Len(Append(events, Seen("self"))) : Append(events, Seen("self"))[i].wd = nextWatch
    BY <2>1, <2>2, OfWatch
  <2>5. \A i \in 1..Len(events') : events'[i].wd = nextWatch
    BY <2>1, <2>2, <2>3, <2>4, OfWatch
  <2>6. tpc \notin {"none", "ended"} \/ opc = "start"
    BY <1>13 DEF Deleted, ThreadInv, WatchInv
  <2>. QED
    BY <1>13, <2>5, <2>6 DEF Deleted
<1>14. CASE UNCHANGED watcherVars
  BY <1>14 DEF watcherVars
<1>. QED
  BY <1>1, <1>2, <1>3, <1>4, <1>5, <1>6, <1>7, <1>8, <1>9, <1>10, <1>11, <1>12, <1>13, <1>14
     DEF WatcherNext, Owner, Thread

LEMMA Invariance == WatcherSpec => []Inv
<1>1. Inv /\ [WatcherNext]_watcherVars => Inv'
  BY NextType, NextWatchInv, NextThreadInv, NextEventInv DEF Inv
<1>. QED
  BY <1>1, InitInv, PTL DEF WatcherSpec

\* m::Fs_watcher: inotify's, the owner's and the thread's state keep their
\* types, and a thread is told to stop by one byte.
THEOREM TypeCorrect == WatcherSpec => []WatcherTypeOK
<1>. QED
  BY Invariance, PTL DEF Inv

LEMMA InitReports == WatcherInit => ReportsAreCurrent /\ OwnerIsWoken /\ AbortsOnlyIfGone
BY DEF WatcherInit, ReportsAreCurrent, OwnerIsWoken, AbortsOnlyIfGone, NoWatch

\* The report that Process makes is of the watch and of the directory of now.
LEMMA NextReports ==
  Inv /\ ReportsAreCurrent /\ [WatcherNext]_watcherVars => ReportsAreCurrent'
<1>. SUFFICES ASSUME Inv, ReportsAreCurrent, [WatcherNext]_watcherVars, watch_fd' # NoWatch,
                     NEW i \in 1..Len(new_files')
              PROVE  /\ new_files'[i].wd = watch_fd'
                     /\ new_files'[i].dir =
                          IF new_files'[i].kind = "self" THEN NoDir ELSE watching_directory'
  BY DEF ReportsAreCurrent
<1>. USE DEF kernelVars, ownerVars, threadVars, reportVars
<1>. DEFINE Same == UNCHANGED <<watch_fd, watching_directory, new_files>>
<1>1. CASE Same
  BY <1>1 DEF ReportsAreCurrent
<1>2. CASE RemoveWatch
  BY <1>2, <1>1 DEF RemoveWatch, NoWatch
<1>3. CASE Join
  BY <1>3 DEF Join, Inv, WatchInv
<1>4. CASE ClearFirst \/ clear
  BY <1>4 DEF ClearFirst, clear, Clear
<1>5. CASE AddWatch
  BY <1>5, <1>1 DEF AddWatch, Inv, EventInv
<1>6. CASE get
  <2>1. CASE new_files = <<>>
    BY <1>6, <2>1, <1>1 DEF get
  <2>2. CASE new_files # <<>>
    <3>1. new_files \in Seq(Report) /\ new_files' = Tail(new_files)
      BY <1>6, <2>2 DEF get, Inv, WatcherTypeOK
    <3>2. Len(new_files') = Len(new_files) - 1 /\ new_files'[i] = new_files[i + 1]
      BY <3>1, <2>2, HeadTailProperties
    <3>3. i + 1 \in 1..Len(new_files)
      BY <3>1, <3>2, LenProperties
    <3>. QED
      BY <1>6, <3>2, <3>3 DEF get, ReportsAreCurrent
  <2>. QED
    BY <2>1, <2>2
<1>7. CASE Process
  <2>1. CASE new_files' = new_files
    BY <1>7, <2>1, <1>1 DEF Process
  <2>2. CASE new_files' # new_files
    <3>. DEFINE e == Head(batch)
                path == IF e.kind = "self" THEN NoDir ELSE local
                r == [dir |-> path, wd |-> e.wd, kind |-> e.kind]
    <3>1. new_files' = Append(new_files, r)
      BY <1>7, <2>2 DEF Process
    <3>2. batch \in Seq(Event) /\ batch # <<>>
      BY <1>7 DEF Process, Inv, WatcherTypeOK, EventInv
    <3>3. e \in Event /\ e.wd = nextWatch
      <4>1. e = batch[1] /\ 1 \in 1..Len(batch)
        BY <3>2, LenProperties, EmptySeq
      <4>. QED
        BY <3>2, <4>1, ElementOfSeq DEF Inv, EventInv
    <3>4. local \in Dir \cup {NoDir} /\ local = watching_directory
      BY <1>7 DEF Process, Inv, WatcherTypeOK, ThreadInv
    <3>5. r \in Report
      BY <3>3, <3>4 DEF Report, Event
    <3>6. new_files \in Seq(Report)
      BY DEF Inv, WatcherTypeOK
    <3>7. UNCHANGED <<watch_fd, watching_directory>>
      BY <1>7 DEF Process
    <3>8. watch_fd = nextWatch
      BY <3>7 DEF Inv, WatchInv
    <3>9. CASE i = Len(new_files) + 1
      BY <3>1, <3>3, <3>4, <3>5, <3>6, <3>7, <3>8, <3>9, AppendProperties
    <3>10. CASE i # Len(new_files) + 1
      <4>1. i \in 1..Len(new_files) /\ new_files'[i] = new_files[i]
        BY <3>1, <3>5, <3>6, <3>10, AppendProperties, LenProperties
      <4>. QED
        BY <4>1, <3>7 DEF ReportsAreCurrent
    <3>. QED
      BY <3>9, <3>10
  <2>. QED
    BY <2>1, <2>2
<1>. QED
  BY <1>1, <1>2, <1>3, <1>4, <1>5, <1>6, <1>7
     DEF WatcherNext, Owner, Thread, Call, Post, Start, OnNewFile, Select, Signal, Happens, Deleted, watcherVars

LEMMA NextWoken == Inv /\ OwnerIsWoken /\ [WatcherNext]_watcherVars => OwnerIsWoken'
<1>. SUFFICES ASSUME Inv, OwnerIsWoken, [WatcherNext]_watcherVars PROVE OwnerIsWoken'
  OBVIOUS
<1>. USE DEF Inv, OwnerIsWoken, WatcherTypeOK, kernelVars, ownerVars, threadVars, reportVars
<1>1. CASE Call
  BY <1>1 DEF Call, Unset
<1>2. CASE RemoveWatch \/ Post \/ AddWatch
  BY <1>2 DEF RemoveWatch, Post, AddWatch
<1>3. CASE Join \/ Start
  BY <1>3 DEF Join, Start, ThreadInv, EventInv
<1>4. CASE ClearFirst \/ clear
  BY <1>4 DEF ClearFirst, clear, Clear
<1>5. CASE OnNewFile \/ get
  BY <1>5 DEF OnNewFile, get
<1>6. CASE Select
  BY <1>6 DEF Select, wait_for_with_owning
<1>7. CASE Process
  BY <1>7 DEF Process
<1>8. CASE Signal
  BY <1>8 DEF Signal
<1>9. CASE Happens \/ Deleted
  BY <1>9 DEF Happens, Deleted
<1>10. CASE UNCHANGED watcherVars
  BY <1>10 DEF watcherVars
<1>. QED
  BY <1>1, <1>2, <1>3, <1>4, <1>5, <1>6, <1>7, <1>8, <1>9, <1>10
     DEF WatcherNext, Owner, Thread

\* A watch that the owner knows of and inotify has no more was deleted with
\* its directory.
Gone == [wd |-> watch_fd, kind |-> "self"] \in Range(happened)
GoneInv ==
  /\ live = NoWatch /\ watch_fd # NoWatch => Gone
  /\ opc = "aborted" => Gone

LEMMA NextGone == Inv /\ GoneInv /\ [WatcherNext]_watcherVars => GoneInv'
<1>. SUFFICES ASSUME Inv, GoneInv, [WatcherNext]_watcherVars PROVE GoneInv'
  OBVIOUS
<1>. USE DEF kernelVars, ownerVars, threadVars, reportVars
<1>1. ASSUME NEW e \in Event, happened' = Append(happened, e)
      PROVE  Range(happened) \subseteq Range(happened') /\ e \in Range(happened')
  <2>1. happened \in Seq(Event) /\ Len(happened) \in Nat
    BY LenProperties DEF Inv, WatcherTypeOK
  <2>2. /\ Len(happened') = Len(happened) + 1
        /\ \A i \in 1..Len(happened) : happened'[i] = happened[i]
        /\ happened'[Len(happened) + 1] = e
        /\ DOMAIN happened' = 1..Len(happened')
        /\ DOMAIN happened = 1..Len(happened)
    BY <1>1, <2>1, AppendProperties, LenProperties
  <2>. QED
    BY <2>1, <2>2 DEF Range
<1>2. CASE Happens
  <2>1. PICK kind \in Kind : happened' = Append(happened, Seen(kind))
    BY <1>2 DEF Happens, Kind
  <2>2. Seen(kind) \in Event
    BY <1>2, SeenIsEvent DEF Happens, Inv
  <2>. QED
    BY <1>1, <1>2, <2>1, <2>2 DEF Happens, GoneInv, Gone
<1>3. CASE Deleted
  <2>1. Seen("self") \in Event /\ happened' = Append(happened, Seen("self"))
    BY <1>3, SeenIsEvent DEF Deleted, Kind, Inv
  <2>2. Seen("self") = [wd |-> watch_fd, kind |-> "self"]
    BY <1>3 DEF Deleted, Inv, WatchInv, Seen
  <2>. QED
    BY <1>1, <1>3, <2>1, <2>2 DEF Deleted, GoneInv, Gone
<1>4. CASE RemoveWatch
  BY <1>4 DEF RemoveWatch, GoneInv, Gone, Inv, WatchInv
<1>5. CASE AddWatch
  BY <1>5, WatcherConstants DEF AddWatch, GoneInv, Gone, NoWatch, Inv, WatcherTypeOK
<1>6. ASSUME UNCHANGED <<happened, live, watch_fd>>, opc' # "aborted" \/ opc' = opc
      PROVE  GoneInv'
  BY <1>6 DEF GoneInv, Gone
<1>7. CASE Call
  BY <1>6, <1>7 DEF Call, Unset
<1>8. CASE Join
  BY <1>6, <1>8 DEF Join, Inv, WatcherTypeOK
<1>. QED
  BY <1>2, <1>3, <1>4, <1>5, <1>6, <1>7, <1>8
     DEF WatcherNext, Owner, Thread, Post, ClearFirst, clear, Clear, Start, OnNewFile, get,
         Select, Process, Signal, watcherVars

\* The directory can be changed at any time and any number of times: a file is
\* queued under the directory it appeared in, and that is the one watched.
THEOREM NoStaleReports == WatcherSpec => []ReportsAreCurrent
<1>. QED
  BY Invariance, InitReports, NextReports, PTL DEF WatcherSpec

\* The owner hears of what is queued.
THEOREM OwnerWoken == WatcherSpec => []OwnerIsWoken
<1>. QED
  BY Invariance, InitReports, NextWoken, PTL DEF WatcherSpec

\* unset_watching_directory() fails only on a directory that was deleted.
THEOREM AbortsOnly == WatcherSpec => []AbortsOnlyIfGone
<1>1. WatcherInit => GoneInv
  BY DEF WatcherInit, GoneInv, NoWatch
<1>2. GoneInv => AbortsOnlyIfGone
  BY DEF GoneInv, Gone, AbortsOnlyIfGone
<1>. QED
  BY <1>1, <1>2, Invariance, NextGone, PTL DEF WatcherSpec

-----------------------------------------------------------------------------
(* The order of the reports.  Certain() goes over a queue from its front,  *)
(* and what it makes of two queues is what it makes of them together.      *)

Entry == Event \cup Report
Note(e) == [wd |-> e.wd, kind |-> e.kind]

\* What Certain() has after each entry of s.
Noted(s, g) ==
  /\ g \in [0..Len(s) -> Seq(Event)]
  /\ g[0] = <<>>
  /\ \A n \in 1..Len(s) : g[n] = IF IsCertain(s[n]) THEN Append(g[n - 1], Note(s[n])) ELSE g[n - 1]

LEMMA CertainIs ==
  ASSUME NEW s \in Seq(Entry)
  PROVE  \E g : Noted(s, g) /\ Certain(s) = g[Len(s)]
<1> DEFINE N == Len(s)
           X == Seq(Event)
           Next1(n, q) == IF IsCertain(s[n]) THEN Append(q, Note(s[n])) ELSE q
           step == [n \in 1..N |-> [q \in X |-> Next1(n, q)]]
           first[n \in 0..N] ==
             IF n = 0 THEN <<>>
             ELSE IF IsCertain(s[n]) THEN Append(first[n - 1], [wd |-> s[n].wd, kind |-> s[n].kind])
             ELSE first[n - 1]
<1>1. Certain(s) = first[N]
  BY DEF Certain
<1>2. N \in Nat /\ <<>> \in X
  BY LenProperties, EmptySeq
<1>3. \A n \in 1..N, q \in X : Next1(n, q) \in X
  <2>1. ASSUME NEW n \in 1..N
        PROVE  Note(s[n]) \in Event
    <3>1. s[n] \in Entry
      BY ElementOfSeq
    <3>. QED
      BY <3>1 DEF Entry, Event, Report, Note
  <2>. QED
    BY <2>1, AppendProperties
<1> HIDE DEF N, X
<1>4. \A n \in 1..N, q \in X : step[n][q] = Next1(n, q)
  OBVIOUS
<1>5. step \in Steps(N, X)
  BY <1>3 DEF Steps
<1> HIDE DEF step
<1>6. PICK g \in [0..N -> X] : g[0] = <<>> /\ \A n \in 1..N : g[n] = step[n][g[n - 1]]
  <2>1. Runs(N, X, <<>>, step) # {}
    BY <1>2, <1>5, Recursion
  <2>. QED
    BY <2>1 DEF Runs
<1>7. \A n \in 1..N : g[n] = Next1(n, g[n - 1])
  <2>1. \A n \in 1..N : n - 1 \in 0..N
    BY <1>2
  <2>. QED
    BY <1>4, <1>6, <2>1
<1>8. g = [n \in 0..N |->
             IF n = 0 THEN <<>>
             ELSE IF IsCertain(s[n]) THEN Append(g[n - 1], [wd |-> s[n].wd, kind |-> s[n].kind])
             ELSE g[n - 1]]
  <2>1. ASSUME NEW n \in 0..N
        PROVE  g[n] = IF n = 0 THEN <<>>
                      ELSE IF IsCertain(s[n]) THEN Append(g[n - 1], [wd |-> s[n].wd, kind |-> s[n].kind])
                      ELSE g[n - 1]
    <3>1. n = 0 \/ n \in 1..N
      BY <1>2
    <3>. QED
      BY <1>6, <1>7, <3>1 DEF Note
  <2>. QED
    BY <1>6, <2>1
<1>9. first = [n \in 0..N |->
             IF n = 0 THEN <<>>
             ELSE IF IsCertain(s[n]) THEN Append(first[n - 1], [wd |-> s[n].wd, kind |-> s[n].kind])
             ELSE first[n - 1]]
  BY <1>8
<1> HIDE DEF first
<1>10. Alike(N, first, g)
  <2>1. first[0] = g[0]
    BY <1>2, <1>6, <1>9
  <2>2. ASSUME NEW n \in 1..N, first[n - 1] = g[n - 1]
        PROVE  first[n] = g[n]
    <3>1. n \in 0..N /\ n # 0
      BY <1>2
    <3>2. first[n] = IF IsCertain(s[n]) THEN Append(first[n - 1], Note(s[n])) ELSE first[n - 1]
      BY <1>9, <3>1 DEF Note
    <3>. QED
      BY <1>7, <2>2, <3>2
  <2>. QED
    BY <2>1, <2>2 DEF Alike
<1>11. first[N] = g[N]
  BY <1>2, <1>10, SameValue
<1>12. Noted(s, g)
  BY <1>6, <1>7 DEF Noted, N, X
<1>. QED
  BY <1>1, <1>11, <1>12 DEF N

LEMMA CertainType ==
  ASSUME NEW s \in Seq(Entry)
  PROVE  Certain(s) \in Seq(Event)
<1>1. PICK g : Noted(s, g) /\ Certain(s) = g[Len(s)]
  BY CertainIs
<1>2. Len(s) \in 0..Len(s)
  BY LenProperties
<1>. QED
  BY <1>1, <1>2 DEF Noted

LEMMA CertainEmpty == Certain(<<>>) = <<>>
<1>1. <<>> \in Seq(Entry) /\ Len(<<>>) = 0
  BY EmptySeq
<1>2. PICK g : Noted(<<>>, g) /\ Certain(<<>>) = g[0]
  BY <1>1, CertainIs
<1>. QED
  BY <1>2 DEF Noted

LEMMA CertainAppend ==
  ASSUME NEW s \in Seq(Entry), NEW e \in Entry
  PROVE  /\ Append(s, e) \in Seq(Entry)
         /\ Certain(Append(s, e)) = IF IsCertain(e) THEN Append(Certain(s), Note(e)) ELSE Certain(s)
<1>1. PICK t : t = Append(s, e)
  OBVIOUS
<1>2. /\ t \in Seq(Entry)
      /\ Len(t) = Len(s) + 1
      /\ \A i \in 1..Len(s) : t[i] = s[i]
      /\ t[Len(s) + 1] = e
  BY <1>1, AppendProperties
<1>3. Len(s) \in Nat
  BY LenProperties
<1>4. PICK g : Noted(s, g) /\ Certain(s) = g[Len(s)]
  BY CertainIs
<1>5. PICK h : Noted(t, h) /\ Certain(t) = h[Len(t)]
  BY <1>2, CertainIs
<1>6. Alike(Len(s), g, h)
  <2>1. g[0] = h[0]
    BY <1>4, <1>5 DEF Noted
  <2>2. ASSUME NEW n \in 1..Len(s), g[n - 1] = h[n - 1]
        PROVE  g[n] = h[n]
    <3>1. n \in 1..Len(t) /\ t[n] = s[n]
      BY <1>2, <1>3
    <3>2. g[n] = IF IsCertain(s[n]) THEN Append(g[n - 1], Note(s[n])) ELSE g[n - 1]
      BY <1>4 DEF Noted
    <3>3. h[n] = IF IsCertain(t[n]) THEN Append(h[n - 1], Note(t[n])) ELSE h[n - 1]
      BY <1>5, <3>1 DEF Noted
    <3>. QED
      BY <2>2, <3>1, <3>2, <3>3
  <2>. QED
    BY <2>1, <2>2 DEF Alike
<1>7. g[Len(s)] = h[Len(s)]
  <2>1. Len(s) \in 0..Len(s)
    BY <1>3
  <2>. QED
    BY <1>3, <1>6, <2>1, SameValue
<1>8. h[Len(t)] = IF IsCertain(e) THEN Append(h[Len(s)], Note(e)) ELSE h[Len(s)]
  <2>1. Len(t) \in 1..Len(t) /\ Len(t) - 1 = Len(s) /\ t[Len(t)] = e
    BY <1>2, <1>3
  <2>2. h[Len(t)] = IF IsCertain(t[Len(t)]) THEN Append(h[Len(t) - 1], Note(t[Len(t)])) ELSE h[Len(t) - 1]
    BY <1>5, <2>1 DEF Noted
  <2>. QED
    BY <2>1, <2>2
<1>. QED
  BY <1>1, <1>2, <1>4, <1>5, <1>7, <1>8

LEMMA NoteIsEvent == \A e \in Entry : Note(e) \in Event
BY DEF Entry, Event, Report, Note

LEMMA AppendInside ==
  ASSUME NEW S, NEW s \in Seq(S), NEW t \in Seq(S), NEW e \in S
  PROVE  s \o Append(t, e) = Append(s \o t, e)
<1>1. <<e>> \in Seq(S) /\ s \o t \in Seq(S)
  BY ConcatProperties
<1>2. Append(t, e) = t \o <<e>> /\ Append(s \o t, e) = (s \o t) \o <<e>>
  BY <1>1, AppendIsConcat
<1>. QED
  BY <1>1, <1>2, ConcatAssociative

LEMMA CertainConcat ==
  ASSUME NEW s \in Seq(Entry), NEW t \in Seq(Entry)
  PROVE  Certain(s \o t) = Certain(s) \o Certain(t)
<1> DEFINE Splits(u) == Certain(s \o u) = Certain(s) \o Certain(u)
           S == {n \in Nat : \A u \in Seq(Entry) : Len(u) = n => Splits(u)}
<1>1. 0 \in S
  <2>1. \A u \in Seq(Entry) : Len(u) = 0 => u = <<>>
    BY EmptySeq
  <2>2. s \o <<>> = s /\ Certain(s) \o <<>> = Certain(s)
    BY CertainType, ConcatEmptySeq
  <2>. QED
    BY <2>1, <2>2, CertainEmpty
<1>2. ASSUME NEW n \in S
      PROVE  n + 1 \in S
  <2>1. n \in Nat
    OBVIOUS
  <2>2. SUFFICES ASSUME NEW u \in Seq(Entry), Len(u) = n + 1
                 PROVE  Splits(u)
    BY <2>1
  <2>3. u # <<>>
    BY <2>1, <2>2, EmptySeq
  <2>4. PICK v \in Seq(Entry), e \in Entry : u = Append(v, e)
    BY <2>3, SequenceEmptyOrAppend
  <2>5. Len(u) = Len(v) + 1 /\ Len(v) \in Nat
    BY <2>4, AppendProperties, LenProperties
  <2>6. Len(v) = n
    BY <2>1, <2>2, <2>5
  <2>7. Certain(s \o v) = Certain(s) \o Certain(v)
    BY <2>6
  <2>8. s \o v \in Seq(Entry)
    BY ConcatProperties
  <2>9. s \o u = Append(s \o v, e)
    BY <2>4, AppendInside
  <2>10. /\ Certain(s \o u)
               = IF IsCertain(e) THEN Append(Certain(s \o v), Note(e)) ELSE Certain(s \o v)
         /\ Certain(u) = IF IsCertain(e) THEN Append(Certain(v), Note(e)) ELSE Certain(v)
    BY <2>4, <2>8, <2>9, CertainAppend
  <2>11. Certain(s) \o Append(Certain(v), Note(e)) = Append(Certain(s) \o Certain(v), Note(e))
    <3>1. Note(e) \in Event
      BY NoteIsEvent
    <3>. QED
      BY <3>1, CertainType, AppendInside
  <2> HIDE DEF S
  <2>. QED
    BY <2>7, <2>10, <2>11
<1>3. S = Nat
  <2>1. S \in SUBSET Nat
    OBVIOUS
  <2> HIDE DEF S
  <2>. QED
    BY <1>1, <1>2, <2>1, AllNumbers
<1>4. Len(t) \in S
  BY <1>3, LenProperties
<1>. QED
  BY <1>4

\* What is known of sequences, for those of events.
LEMMA EventSequences ==
  /\ \A a, b, c \in Seq(Event) : (a \o b) \o c = a \o (b \o c)
  /\ \A a, b \in Seq(Event), n \in Event : a \o Append(b, n) = Append(a \o b, n)
BY ConcatAssociative, AppendInside

\* Queue by queue: what the owner took, what waits for it, what the thread has
\* read, and what inotify has.
InOrder(h, t, f, b, e) == Certain(h) = (Certain(t) \o Certain(f)) \o (Certain(b) \o Certain(e))
OrderInv == InOrder(happened, taken, new_files, batch, events)

LEMMA QueuesTyped ==
  ASSUME WatcherTypeOK
  PROVE  /\ happened \in Seq(Entry) /\ events \in Seq(Entry) /\ batch \in Seq(Entry)
         /\ taken \in Seq(Entry) /\ new_files \in Seq(Entry)
BY SeqMonotonic DEF WatcherTypeOK, Entry

LEMMA OrderGives ==
  ASSUME WatcherTypeOK, OrderInv
  PROVE  ReportedInOrder
<1>1. /\ taken \o new_files \in Seq(Entry)
      /\ (taken \o new_files) \o batch \in Seq(Entry)
      /\ Certain((taken \o new_files) \o batch \o events)
           = Certain((taken \o new_files) \o batch) \o Certain(events)
      /\ Certain((taken \o new_files) \o batch) = Certain(taken \o new_files) \o Certain(batch)
      /\ Certain(taken \o new_files) = Certain(taken) \o Certain(new_files)
  BY QueuesTyped, ConcatProperties, CertainConcat
<1>2. /\ Certain(taken) \o Certain(new_files) \in Seq(Event)
      /\ Certain(batch) \in Seq(Event) /\ Certain(events) \in Seq(Event)
  BY QueuesTyped, CertainType, ConcatProperties
<1>3. (Certain(taken) \o Certain(new_files)) \o (Certain(batch) \o Certain(events))
        = ((Certain(taken) \o Certain(new_files)) \o Certain(batch)) \o Certain(events)
  BY <1>2, EventSequences
<1>. QED
  BY <1>1, <1>3 DEF OrderInv, InOrder, ReportedInOrder

\* An event goes to the end of what happened and of inotify's queue.
LEMMA EventInOrder ==
  ASSUME NEW h \in Seq(Entry), NEW t \in Seq(Entry), NEW f \in Seq(Entry),
         NEW b \in Seq(Entry), NEW e \in Seq(Entry), InOrder(h, t, f, b, e), NEW x \in Entry
  PROVE  /\ InOrder(Append(h, x), t, f, b, Append(e, x))
         /\ ~IsCertain(x) => InOrder(h, t, f, b, Append(e, x))
<1>1. /\ Certain(t) \in Seq(Event) /\ Certain(f) \in Seq(Event)
      /\ Certain(b) \in Seq(Event) /\ Certain(e) \in Seq(Event) /\ Note(x) \in Event
  BY CertainType, NoteIsEvent
<1>2. PICK q : q = Certain(t) \o Certain(f)
  OBVIOUS
<1>3. PICK r : r = Certain(b) \o Certain(e)
  OBVIOUS
<1>4. q \in Seq(Event) /\ r \in Seq(Event)
  BY <1>1, <1>2, <1>3, ConcatProperties
<1>5. Certain(b) \o Append(Certain(e), Note(x)) = Append(r, Note(x))
  <2>1. Certain(b) \o Append(Certain(e), Note(x)) = Append(Certain(b) \o Certain(e), Note(x))
    BY <1>1, EventSequences
  <2>. QED
    BY <1>3, <2>1
<1>6. q \o Append(r, Note(x)) = Append(q \o r, Note(x))
  BY <1>1, <1>4, EventSequences
<1>7. Certain(h) = q \o r
  BY <1>2, <1>3 DEF InOrder
<1>8. /\ Certain(Append(h, x)) = IF IsCertain(x) THEN Append(Certain(h), Note(x)) ELSE Certain(h)
      /\ Certain(Append(e, x)) = IF IsCertain(x) THEN Append(Certain(e), Note(x)) ELSE Certain(e)
  BY CertainAppend
<1>9. CASE IsCertain(x)
  BY <1>2, <1>5, <1>6, <1>7, <1>8, <1>9 DEF InOrder
<1>10. CASE ~IsCertain(x)
  BY <1>2, <1>3, <1>7, <1>8, <1>10 DEF InOrder
<1>. QED
  BY <1>9, <1>10

\* What is read is the beginning of inotify's queue.
LEMMA ReadInOrder ==
  ASSUME NEW h, NEW t \in Seq(Entry), NEW f \in Seq(Entry),
         NEW e \in Seq(Entry), InOrder(h, t, f, <<>>, e),
         NEW n \in 1..Len(e), NEW b \in Seq(Entry), NEW r \in Seq(Entry),
         b = SubSeq(e, 1, n), r = SubSeq(e, n + 1, Len(e))
  PROVE  InOrder(h, t, f, b, r)
<1>1. Len(e) \in Nat
  BY LenProperties
<1>2. b \o r = e
  <2>1. /\ 1 \in 1..Len(e) + 1 /\ n \in (1 - 1)..Len(e) /\ Len(e) \in n..Len(e)
    BY <1>1
  <2>2. SubSeq(e, 1, n) \o SubSeq(e, n + 1, Len(e)) = SubSeq(e, 1, Len(e))
    BY <2>1, ConcatAdjacentSubSeq
  <2>. QED
    BY <2>2, SubSeqFull
<1>3. Certain(b) \o Certain(r) = Certain(e)
  BY <1>2, CertainConcat
<1>4. Certain(<<>>) \o Certain(e) = Certain(e)
  BY CertainType, CertainEmpty, ConcatEmptySeq
<1>. QED
  BY <1>3, <1>4 DEF InOrder

LEMMA FirstAndRest ==
  ASSUME NEW S, NEW s \in Seq(S), s # <<>>
  PROVE  /\ s = <<Head(s)>> \o Tail(s)
         /\ <<Head(s)>> \in Seq(S)
<1>1. Len(s) \in Nat \ {0}
  BY EmptySeq
<1>2. SubSeq(s, 1, Len(s)) = <<s[1]>> \o SubSeq(s, 1 + 1, Len(s))
  BY <1>1, SubSeqRecursiveFirst
<1>3. SubSeq(s, 1 + 1, Len(s)) = Tail(s)
  BY TailIsSubSeq
<1>4. Head(s) = s[1] /\ s[1] \in S
  BY <1>1, ElementOfSeq
<1>. QED
  BY <1>2, <1>3, <1>4, SubSeqFull

LEMMA CertainOne ==
  ASSUME NEW e \in Entry
  PROVE  Certain(<<e>>) = IF IsCertain(e) THEN <<Note(e)>> ELSE <<>>
<1>1. <<>> \in Seq(Entry) /\ <<e>> = Append(<<>>, e) /\ <<Note(e)>> = Append(<<>>, Note(e))
  BY EmptySeq
<1>2. Certain(Append(<<>>, e)) = IF IsCertain(e) THEN Append(Certain(<<>>), Note(e)) ELSE Certain(<<>>)
  BY <1>1, CertainAppend
<1>. QED
  BY <1>1, <1>2, CertainEmpty

\* What is reported is the first of what was read; a report is left out only
\* for an event that need not be reported.
LEMMA ReportInOrder ==
  ASSUME NEW h, NEW t \in Seq(Entry), NEW f \in Seq(Entry), NEW b \in Seq(Entry), b # <<>>,
         NEW e \in Seq(Entry), InOrder(h, t, f, b, e)
  PROVE  /\ \A r \in Entry : Note(r) = Note(Head(b)) => InOrder(h, t, Append(f, r), Tail(b), e)
         /\ ~IsCertain(Head(b)) => InOrder(h, t, f, Tail(b), e)
<1>1. PICK x \in Entry, u \in Seq(Entry) : x = Head(b) /\ u = Tail(b)
  BY HeadTailProperties
<1>2. b = <<x>> \o u /\ <<x>> \in Seq(Entry)
  BY <1>1, FirstAndRest
<1>3. PICK c \in Seq(Event) : c = Certain(<<x>>)
  BY <1>2, CertainType
<1>4. Certain(b) = c \o Certain(u)
  BY <1>2, <1>3, CertainConcat
<1>5. /\ Certain(t) \in Seq(Event) /\ Certain(f) \in Seq(Event) /\ Certain(u) \in Seq(Event)
      /\ Certain(e) \in Seq(Event)
  BY CertainType
<1>6. PICK q : q = Certain(t) \o Certain(f)
  OBVIOUS
<1>7. PICK v : v = Certain(u) \o Certain(e)
  OBVIOUS
<1>8. q \in Seq(Event) /\ v \in Seq(Event)
  BY <1>5, <1>6, <1>7, ConcatProperties
<1>9. Certain(b) \o Certain(e) = c \o v
  <2>1. (c \o Certain(u)) \o Certain(e) = c \o (Certain(u) \o Certain(e))
    BY <1>5, EventSequences
  <2>. QED
    BY <1>4, <1>7, <2>1
<1>10. Certain(h) = q \o (c \o v)
  BY <1>6, <1>9 DEF InOrder
<1>11. Certain(h) = (q \o c) \o v
  BY <1>8, <1>10, EventSequences
<1>12. ASSUME NEW r \in Entry, Note(r) = Note(x)
       PROVE  InOrder(h, t, Append(f, r), u, e)
  <2>1. IsCertain(r) = IsCertain(x)
    BY <1>12 DEF IsCertain, Note
  <2>2. Certain(Append(f, r)) = Certain(f) \o c
    <3>1. CASE IsCertain(x)
      <4>1. c = <<Note(x)>> /\ Note(x) \in Event
        BY <1>3, <3>1, CertainOne, NoteIsEvent
      <4>2. Certain(Append(f, r)) = Append(Certain(f), Note(x))
        BY <1>12, <2>1, <3>1, CertainAppend
      <4>. QED
        BY <1>5, <4>1, <4>2, AppendIsConcat
    <3>2. CASE ~IsCertain(x)
      <4>1. c = <<>>
        BY <1>3, <3>2, CertainOne
      <4>2. Certain(Append(f, r)) = Certain(f)
        BY <2>1, <3>2, CertainAppend
      <4>. QED
        BY <1>5, <4>1, <4>2, ConcatEmptySeq
    <3>. QED
      BY <3>1, <3>2
  <2>3. Certain(t) \o (Certain(f) \o c) = q \o c
    BY <1>5, <1>6, EventSequences
  <2>. QED
    BY <1>7, <1>11, <2>2, <2>3 DEF InOrder
<1>13. ASSUME ~IsCertain(x)
       PROVE  InOrder(h, t, f, u, e)
  <2>1. c = <<>>
    BY <1>3, <1>13, CertainOne
  <2>2. <<>> \o v = v
    BY <1>8, ConcatEmptySeq
  <2>. QED
    BY <1>6, <1>7, <1>10, <2>1, <2>2 DEF InOrder
<1>. QED
  BY <1>1, <1>12, <1>13

\* The owner's takings: what is taken is the first of what waits.
LEMMA TakenInOrder ==
  ASSUME NEW h, NEW t \in Seq(Entry), NEW f \in Seq(Entry), NEW b, NEW e, InOrder(h, t, f, b, e),
         NEW t1 \in Seq(Entry), NEW f1 \in Seq(Entry), t1 \o f1 = t \o f
  PROVE  InOrder(h, t1, f1, b, e)
<1>1. Certain(t1) \o Certain(f1) = Certain(t) \o Certain(f)
  <2>1. Certain(t1 \o f1) = Certain(t1) \o Certain(f1)
    BY CertainConcat
  <2>2. Certain(t \o f) = Certain(t) \o Certain(f)
    BY CertainConcat
  <2>. QED
    BY <2>1, <2>2
<1>. QED
  BY <1>1 DEF InOrder

LEMMA TakingKeeps ==
  ASSUME NEW t \in Seq(Entry), NEW f \in Seq(Entry)
  PROVE  /\ (t \o f) \o <<>> = t \o f
         /\ f # <<>> => Append(t, Head(f)) \o Tail(f) = t \o f
<1>1. (t \o f) \o <<>> = t \o f
  BY ConcatProperties, ConcatEmptySeq
<1>2. ASSUME f # <<>>
      PROVE  Append(t, Head(f)) \o Tail(f) = t \o f
  <2>1. PICK x \in Entry, u \in Seq(Entry) : x = Head(f) /\ u = Tail(f)
    BY <1>2, HeadTailProperties
  <2>2. PICK o \in Seq(Entry) : o = <<x>> /\ f = o \o u
    BY <1>2, <2>1, FirstAndRest
  <2>3. Append(t, x) = t \o o
    BY <2>2, AppendIsConcat
  <2>4. (t \o o) \o u = t \o (o \o u)
    BY ConcatAssociative
  <2>. QED
    BY <2>1, <2>2, <2>3, <2>4
<1>. QED
  BY <1>1, <1>2

LEMMA NextOrder == Inv /\ OrderInv /\ [WatcherNext]_watcherVars => OrderInv'
<1>. SUFFICES ASSUME Inv, OrderInv, [WatcherNext]_watcherVars
              PROVE  InOrder(happened', taken', new_files', batch', events')
  BY DEF OrderInv
<1>. USE DEF kernelVars, ownerVars, threadVars, reportVars
<1>1. /\ happened \in Seq(Entry) /\ events \in Seq(Entry) /\ batch \in Seq(Entry)
      /\ taken \in Seq(Entry) /\ new_files \in Seq(Entry)
      /\ InOrder(happened, taken, new_files, batch, events)
  BY QueuesTyped DEF Inv, OrderInv
<1>2. WatcherTypeOK'
  BY NextType
<1>3. /\ events' \in Seq(Entry) /\ batch' \in Seq(Entry)
      /\ taken' \in Seq(Entry) /\ new_files' \in Seq(Entry)
  BY <1>2, SeqMonotonic DEF WatcherTypeOK, Entry
<1>4. ASSUME UNCHANGED <<happened, taken, new_files, batch, events>>
      PROVE  InOrder(happened', taken', new_files', batch', events')
  BY <1>1, <1>4
<1>5. ASSUME live # NoWatch, NEW kind \in Kind
      PROVE  Seen(kind) \in Entry /\ (IsCertain(Seen(kind)) <=> kind \in {"got", "self"})
  <2>1. Seen(kind) \in Event
    BY <1>5, SeenIsEvent DEF Inv
  <2>. QED
    BY <2>1 DEF Entry, IsCertain, Seen
<1>6. CASE Happens
  <2>1. PICK kind \in Kind : events' = Append(events, Seen(kind)) /\ happened' = Append(happened, Seen(kind))
    BY <1>6 DEF Happens, Kind
  <2>2. live # NoWatch /\ UNCHANGED <<taken, new_files, batch>>
    BY <1>6 DEF Happens
  <2>. QED
    BY <1>1, <1>5, <2>1, <2>2, EventInOrder
<1>7. CASE Deleted
  <2>1. PICK x, y : x = Seen("self") /\ y = Seen("ignored")
    OBVIOUS
  <2>2. /\ live # NoWatch /\ UNCHANGED <<taken, new_files, batch>>
        /\ happened' = Append(happened, x)
        /\ events' = events \o <<x, y>>
    BY <1>7, <2>1 DEF Deleted
  <2>3. x \in Entry /\ y \in Entry /\ ~IsCertain(y)
    BY <1>5, <2>1, <2>2 DEF Kind
  <2>4. /\ Append(happened, x) \in Seq(Entry) /\ Append(events, x) \in Seq(Entry)
        /\ InOrder(Append(happened, x), taken, new_files, batch, Append(events, x))
    BY <1>1, <2>3, AppendProperties, EventInOrder
  <2>5. InOrder(Append(happened, x), taken, new_files, batch, Append(Append(events, x), y))
    BY <1>1, <2>3, <2>4, EventInOrder
  <2>6. events \o <<x, y>> = Append(Append(events, x), y)
    BY <1>1, <2>3
  <2>. QED
    BY <2>2, <2>5, <2>6
<1>8. CASE RemoveWatch
  <2>1. UNCHANGED <<happened, taken, new_files, batch>>
    BY <1>8 DEF RemoveWatch
  <2>2. CASE live = NoWatch
    BY <1>4, <1>8, <2>1, <2>2 DEF RemoveWatch
  <2>3. CASE live # NoWatch
    <3>1. events' = Append(events, Seen("ignored"))
      BY <1>8, <2>3 DEF RemoveWatch
    <3>2. Seen("ignored") \in Entry /\ ~IsCertain(Seen("ignored"))
      BY <1>5, <2>3 DEF Kind
    <3>. QED
      BY <1>1, <2>1, <3>1, <3>2, EventInOrder
  <2>. QED
    BY <2>2, <2>3
<1>9. CASE ClearFirst \/ clear
  <2>1. /\ taken' = taken \o new_files /\ new_files' = <<>>
        /\ UNCHANGED <<happened, batch, events>>
    BY <1>9 DEF ClearFirst, clear, Clear
  <2>2. taken' \o new_files' = taken \o new_files
    BY <1>1, <2>1, TakingKeeps
  <2>. QED
    BY <1>1, <1>3, <2>1, <2>2, TakenInOrder
<1>10. CASE get
  <2>1. UNCHANGED <<happened, batch, events>>
    BY <1>10 DEF get
  <2>2. CASE new_files = <<>>
    BY <1>4, <1>10, <2>1, <2>2 DEF get
  <2>3. CASE new_files # <<>>
    <3>1. taken' = Append(taken, Head(new_files)) /\ new_files' = Tail(new_files)
      BY <1>10, <2>3 DEF get
    <3>2. taken' \o new_files' = taken \o new_files
      BY <1>1, <2>3, <3>1, TakingKeeps
    <3>. QED
      BY <1>1, <1>3, <2>1, <3>2, TakenInOrder
  <2>. QED
    BY <2>2, <2>3
<1>11. CASE Select
  <2>1. UNCHANGED <<happened, taken, new_files>>
    BY <1>11 DEF Select
  <2>2. CASE events # <<>>
    <3>1. PICK n \in 1..Len(events) :
            batch' = SubSeq(events, 1, n) /\ events' = SubSeq(events, n + 1, Len(events))
      BY <1>11, <2>2 DEF Select, wait_for_with_owning
    <3>2. batch = <<>>
      BY <1>11 DEF Select, Inv, EventInv
    <3>. QED
      BY <1>1, <1>3, <2>1, <3>1, <3>2, ReadInOrder
  <2>3. CASE events = <<>>
    BY <1>4, <1>11, <2>1, <2>3 DEF Select, wait_for_with_owning
  <2>. QED
    BY <2>2, <2>3
<1>12. CASE Process
  <2>1. /\ batch # <<>> /\ batch' = Tail(batch)
        /\ UNCHANGED <<happened, taken, events>>
    BY <1>12 DEF Process, Inv, EventInv
  <2>2. Head(batch) \in Event
    BY <2>1, HeadTailProperties DEF Inv, WatcherTypeOK
  <2>3. PICK instant \in BOOLEAN :
          LET event == Head(batch)
              path == IF event.kind = "self" THEN NoDir ELSE local
          IN  IF IsInteresting(event, instant)
                THEN new_files' = Append(new_files, [dir |-> path, wd |-> event.wd, kind |-> event.kind])
                ELSE UNCHANGED new_files
    BY <1>12 DEF Process
  <2>4. CASE IsInteresting(Head(batch), instant)
    <3>1. PICK r : /\ r = [dir |-> IF Head(batch).kind = "self" THEN NoDir ELSE local,
                           wd |-> Head(batch).wd, kind |-> Head(batch).kind]
                   /\ new_files' = Append(new_files, r)
      BY <2>3, <2>4
    <3>2. r \in Entry /\ Note(r) = Note(Head(batch))
      BY <2>2, <3>1 DEF Inv, WatcherTypeOK, Entry, Event, Report, Note
    <3>. QED
      BY <1>1, <2>1, <3>1, <3>2, ReportInOrder
  <2>5. CASE ~IsInteresting(Head(batch), instant)
    <3>1. ~IsCertain(Head(batch)) /\ new_files' = new_files
      BY <2>3, <2>5 DEF IsInteresting, IsCertain
    <3>. QED
      BY <1>1, <2>1, <3>1, ReportInOrder
  <2>. QED
    BY <2>4, <2>5
<1>. QED
  BY <1>4, <1>6, <1>7, <1>8, <1>9, <1>10, <1>11, <1>12
     DEF WatcherNext, Owner, Thread, Call, Post, Join, AddWatch, Start, OnNewFile, Signal, watcherVars

\* Every event that has to be reported is, once and in its order, however the
\* events are cut into reads, whenever the thread is stopped and however often
\* the directory is changed.
THEOREM AllReported == WatcherSpec => []ReportedInOrder
<1>1. WatcherInit => OrderInv
  <2> SUFFICES ASSUME WatcherInit
               PROVE  OrderInv
    OBVIOUS
  <2>1. happened = <<>> /\ taken = <<>> /\ new_files = <<>> /\ batch = <<>> /\ events = <<>>
    BY DEF WatcherInit
  <2>2. <<>> \o <<>> = <<>>
    OBVIOUS
  <2>. QED
    BY <2>1, <2>2, CertainEmpty DEF OrderInv, InOrder
<1>2. Inv /\ OrderInv => ReportedInOrder
  BY OrderGives DEF Inv
<1>. QED
  BY <1>1, <1>2, Invariance, NextOrder, PTL DEF WatcherSpec
=============================================================================
