---------------------------- MODULE Library_proofs ----------------------------
(***************************************************************************)
(* Theorems about the components of the library that nothing else of the   *)
(* program interleaves with: configuration files, a directory that several *)
(* programs make, the list with its buttons, the buffer, the columns of a   *)
(* Tree_view, the subtitles that main() finds, what the string functions   *)
(* answer.                                                                 *)
(***************************************************************************)
EXTENDS FsConfig, MakeDirectory, ControlledList, Buffer, TreeView, Playlist, Strings,
        Induction, SequenceTheorems, TLAPS

-----------------------------------------------------------------------------
(***************************************************************************)
(* FsConfig, for any number of configurations saved and of interruptions.  *)
(***************************************************************************)

\* What is where while the program writes.
WritingInv ==
  /\ saved <= saving
  /\ pc # "idle" => saving # 0
  /\ pc \in {"end", "rename"} => temp = Whole(saving)
  /\ pc \in {"copy", "rename"} => config = Absent
  /\ pc = "copying" => config # Absent

\* Once something was saved, there is a whole file in one of the two places:
\* the configuration, or the temporary file while that is missing or copied.
PlaceInv ==
  saved # 0 =>
    /\ pc \in {"save", "saving", "end"} => config # Absent
    /\ config # Absent /\ pc # "copying" /\ ~torn
         => config.whole /\ config.version >= saved
    /\ config = Absent \/ pc = "copying"
         => temp.whole /\ temp.version >= saved

ConfigInv == ConfigTypeOK /\ WritingInv /\ PlaceInv

\* The parts of a file, and that a file with a version is there.
LEMMA FileParts ==
  /\ \A f \in File : f.version \in 0..MaxVersion /\ f.whole \in BOOLEAN
  /\ \A f \in File : f = Absent \/ Part(f.version) \in File
  /\ \A v \in Version : /\ Part(v) \in File /\ Part(v) # Absent
                        /\ Whole(v) \in File /\ Whole(v) # Absent
                        /\ Whole(v).whole /\ Whole(v).version = v
  /\ Absent \in File /\ ~Absent.whole
<1>1. \A v \in Version : v \in 0..MaxVersion /\ v # 0
  BY MaxVersionIsNat DEF Version
<1>2. \A v \in Version : /\ Part(v) \in File /\ Part(v) # Absent
                         /\ Whole(v) \in File /\ Whole(v) # Absent
                         /\ Whole(v).whole /\ Whole(v).version = v
  BY <1>1 DEF File, Part, Whole, Absent
<1>3. ASSUME NEW f \in File
      PROVE  /\ f.version \in 0..MaxVersion /\ f.whole \in BOOLEAN
             /\ f = Absent \/ Part(f.version) \in File
  <2>1. CASE f = Absent
    BY <2>1, MaxVersionIsNat DEF Absent
  <2>2. ASSUME NEW v \in Version, f = Part(v) PROVE f.version = v /\ f.whole = FALSE
    BY <2>2 DEF Part
  <2>3. ASSUME NEW v \in Version, f = Whole(v) PROVE f.version = v /\ f.whole = TRUE
    BY <2>3 DEF Whole
  <2>4. f = Absent \/ \E v \in Version : f = Part(v) \/ f = Whole(v)
    BY DEF File
  <2>. QED
    BY <1>1, <1>2, <2>1, <2>2, <2>3, <2>4
<1>. QED
  BY <1>2, <1>3 DEF File, Absent

LEMMA ConfigStarts == ConfigInit => ConfigInv
<1>. SUFFICES ASSUME ConfigInit PROVE ConfigInv
  OBVIOUS
<1>1. ConfigTypeOK
  <2>1. Absent \in File
    BY FileParts
  <2>2. torn \in BOOLEAN
    BY Zenon DEF ConfigInit
  <2>3. config \in File /\ temp \in File
    BY <2>1 DEF ConfigInit
  <2>4. 0 \in 0..MaxVersion
    BY MaxVersionIsNat
  <2>. QED
    BY <2>2, <2>3, <2>4 DEF ConfigInit, ConfigTypeOK
<1>. QED
  BY <1>1, MaxVersionIsNat DEF ConfigInit, ConfigInv, WritingInv, PlaceInv

\* Every step keeps the files where they are looked for.
LEMMA ConfigSteps == ConfigInv /\ [ConfigNext]_configVars => ConfigInv'
<1>. SUFFICES ASSUME ConfigInv, [ConfigNext]_configVars PROVE ConfigInv'
  OBVIOUS
<1>. USE MaxVersionIsNat DEF ConfigInv
<1>1. CASE start_writing
  <2>1. ConfigTypeOK'
    BY <1>1 DEF start_writing, ConfigTypeOK
  <2>2. WritingInv'
    BY <1>1 DEF start_writing, ConfigTypeOK, WritingInv
  <2>3. PlaceInv'
    BY <1>1, FileParts DEF start_writing, ConfigTypeOK, PlaceInv
  <2>. QED
    BY <2>1, <2>2, <2>3
<1>2. CASE CopyCreates
  <2>1. temp \in File /\ temp # Absent
    BY <1>2 DEF CopyCreates, ConfigTypeOK
  <2>2. config' \in File /\ config' # Absent
    BY <1>2, <2>1, FileParts DEF CopyCreates, File, Part, Whole, Absent, Version
  <2>. QED
    BY <1>2, <2>1, <2>2 DEF CopyCreates, ConfigTypeOK, WritingInv, PlaceInv
<1>3. CASE CopyFills
  BY <1>3 DEF CopyFills, ConfigTypeOK, WritingInv, PlaceInv
<1>4. CASE SaveCreates
  <2>1. saving \in Version
    BY <1>4 DEF SaveCreates, ConfigTypeOK, WritingInv, Version
  <2>2. temp' \in File
    BY <1>4, <2>1, FileParts DEF SaveCreates
  <2>. QED
    BY <1>4, <2>2 DEF SaveCreates, ConfigTypeOK, WritingInv, PlaceInv
<1>5. CASE SaveFills
  <2>1. saving \in Version
    BY <1>5 DEF SaveFills, ConfigTypeOK, WritingInv, Version
  <2>2. temp' \in File
    BY <1>5, <2>1, FileParts DEF SaveFills
  <2>. QED
    BY <1>5, <2>2 DEF SaveFills, ConfigTypeOK, WritingInv, PlaceInv
<1>6. CASE RemoveConfig
  <2>1. saving \in Version /\ temp = Whole(saving)
    BY <1>6 DEF RemoveConfig, ConfigTypeOK, WritingInv, Version
  <2>2. temp.whole /\ temp.version >= saved
    BY <2>1, FileParts DEF ConfigTypeOK, WritingInv
  <2>. QED
    BY <1>6, <2>2, FileParts DEF RemoveConfig, ConfigTypeOK, WritingInv, PlaceInv
<1>7. CASE Rename
  <2>1. saving \in Version /\ temp = Whole(saving)
    BY <1>7 DEF Rename, ConfigTypeOK, WritingInv, Version
  <2>2. config' # Absent /\ config'.whole /\ config'.version = saving
    BY <1>7, <2>1, FileParts DEF Rename
  <2>. QED
    BY <1>7, <2>1, <2>2, FileParts DEF Rename, ConfigTypeOK, WritingInv, PlaceInv
<1>8. CASE Stop
  BY <1>8 DEF Stop, ConfigTypeOK, WritingInv, PlaceInv
<1>9. CASE UNCHANGED configVars
  BY <1>9 DEF configVars, ConfigTypeOK, WritingInv, PlaceInv
<1>. QED
  BY <1>1, <1>2, <1>3, <1>4, <1>5, <1>6, <1>7, <1>8, <1>9
     DEF ConfigNext, end_writing, Finished

\* The inductive invariant gives what the runs check.
LEMMA ConfigGives == ConfigInv => ConfigTypeOK /\ SavedIsFound
<1>. SUFFICES ASSUME ConfigInv PROVE SavedIsFound
  BY DEF ConfigInv
<1>. SUFFICES ASSUME saved # 0, pc # "copying", ~torn
              PROVE  start_reading.whole /\ start_reading.version >= saved
  BY DEF SavedIsFound
<1>1. CASE config # Absent
  BY <1>1 DEF ConfigInv, PlaceInv, start_reading
<1>2. CASE config = Absent
  <2>1. temp.whole /\ temp.version >= saved
    BY <1>2 DEF ConfigInv, PlaceInv
  <2>2. temp # Absent
    BY <2>1, FileParts
  <2>. QED
    BY <1>2, <2>1, <2>2 DEF start_reading
<1>. QED
  BY <1>1, <1>2

LEMMA ConfigInvariance == ConfigSpec => []ConfigInv
<1>. QED
  BY ConfigStarts, ConfigSteps, PTL DEF ConfigSpec

\* m::fs::config: the files and the program's state keep their types, for any
\* number of versions; what start_writing() copies is there.
THEOREM ConfigTypeCorrect == ConfigSpec => []ConfigTypeOK
<1>. QED
  BY ConfigInvariance, ConfigGives, PTL

\* start_reading() finds a whole configuration that is no older than the one
\* saved last, wherever the program was interrupted but in the copying.
THEOREM ConfigSurvives == ConfigSpec => []SavedIsFound
<1>. QED
  BY ConfigInvariance, ConfigGives, PTL

-----------------------------------------------------------------------------
(***************************************************************************)
(* MakeDirectory, for any number of callers and any meddling.              *)
(*                                                                         *)
(* What a caller knows after its first system call is outdated at once;    *)
(* the invariant says what stays true: "seen" has what is at the path now  *)
(* and what the caller went on, and as long as nobody meddles a path can   *)
(* only become a directory.                                                *)
(***************************************************************************)

DirSteps == Inside \cup {"idle", "created", "existed", "gave_up", Threw}

DirTypeOK ==
  /\ place \in Place
  /\ step \in [Caller -> DirSteps]
  /\ lenient \in [Caller -> BOOLEAN]
  /\ created \in [Caller -> BOOLEAN]
  /\ seen \in [Caller -> SUBSET Place]
  /\ meddlings \in Nat

\* What a caller inside the call has seen: what is there, and what it went on.
SeenWell(c) ==
  /\ step[c] \in Inside => place \in seen[c]
  /\ step[c] = "mkdir" => "nothing" \in seen[c]
  /\ step[c] = "stat_again" => lenient[c]

\* Without meddling.
Unmeddled(c) ==
  meddlings = 0 =>
    /\ step[c] # "idle" /\ "nothing" \in seen[c] => place \in {"nothing", "directory"}
    /\ step[c] \in {"stat", "stat_again"} => place # "nothing"
    /\ created[c] => place = "directory"

\* DirectoryIsThere, for one caller and for two.
Returned(c) ==
  /\ step[c] \in {"created", "existed"} => "directory" \in seen[c]
  /\ step[c] = "gave_up" => lenient[c] /\ "file" \in seen[c]
  /\ step[c] = Threw => seen[c] # {"directory"}
  /\ step[c] = Threw /\ lenient[c] => meddlings > 0 \/ "nothing" \notin seen[c]
OneMade == \A c, d \in Caller : created[c] /\ created[d] /\ meddlings = 0 => c = d

DirInv ==
  /\ DirTypeOK
  /\ \A c \in Caller : SeenWell(c) /\ Unmeddled(c) /\ Returned(c)
  /\ OneMade

USE DEF Place, Threw, Inside, DirSteps

-----------------------------------------------------------------------------
LEMMA DirInitKeeps == DirInit => DirInv
  <1> SUFFICES ASSUME DirInit PROVE DirInv
    OBVIOUS
  <1>1. DirTypeOK
    BY DEF DirInit, DirTypeOK
  <1>2. ASSUME NEW c \in Caller PROVE step[c] = "idle" /\ ~created[c] /\ seen[c] = {}
    BY DEF DirInit
  <1>3. ASSUME NEW c \in Caller PROVE SeenWell(c) /\ Unmeddled(c) /\ Returned(c)
    BY <1>2 DEF SeenWell, Unmeddled, Returned
  <1>4. OneMade
    BY <1>2 DEF OneMade
  <1> QED BY <1>1, <1>3, <1>4 DEF DirInv

\* A step that leaves the path and everything but where its caller is alone.
LEMMA DirStepAlone ==
  ASSUME DirInv, NEW c \in Caller, NEW to \in DirSteps, Goes(c, to), Alone,
         step[c] \in Inside,
         to \in Inside => (to = "mkdir" => "nothing" \in seen[c])
                          /\ (to = "stat_again" => lenient[c])
                          /\ (to \in {"stat", "stat_again"} /\ meddlings = 0 => place # "nothing"),
         to \in {"created", "existed"} => "directory" \in seen[c],
         to = "gave_up" => lenient[c] /\ "file" \in seen[c],
         to = Threw => seen[c] # {"directory"},
         to = Threw /\ lenient[c] => meddlings > 0 \/ "nothing" \notin seen[c]
  PROVE  DirInv'
  <1>1. DirTypeOK'
    BY DEF DirInv, DirTypeOK, Goes, Alone
  <1>2. ASSUME NEW d \in Caller
        PROVE  SeenWell(d)' /\ Unmeddled(d)' /\ Returned(d)'
    <2>1. CASE d = c
      BY <2>1 DEF DirInv, DirTypeOK, Goes, Alone, SeenWell, Unmeddled, Returned
    <2>2. CASE d # c
      BY <2>2 DEF DirInv, DirTypeOK, Goes, Alone, SeenWell, Unmeddled, Returned
    <2> QED BY <2>1, <2>2
  <1>3. OneMade'
    BY DEF DirInv, OneMade, Alone
  <1> QED BY <1>1, <1>2, <1>3 DEF DirInv

LEMMA DirStepKeeps == DirInv /\ [DirNext]_dirVars => DirInv'
  <1> SUFFICES ASSUME DirInv, [DirNext]_dirVars PROVE DirInv'
    OBVIOUS
  <1>1. ASSUME NEW c \in Caller, mkdir_if_not_exists(c) PROVE DirInv'
    <2>1. DirTypeOK'
      BY <1>1 DEF DirInv, DirTypeOK, mkdir_if_not_exists, Goes
    <2>2. ASSUME NEW d \in Caller
          PROVE  SeenWell(d)' /\ Unmeddled(d)' /\ Returned(d)'
      BY <1>1 DEF DirInv, DirTypeOK, mkdir_if_not_exists, Goes, SeenWell, Unmeddled, Returned
    <2>3. OneMade'
      BY <1>1 DEF DirInv, OneMade, mkdir_if_not_exists
    <2> QED BY <2>1, <2>2, <2>3 DEF DirInv
  <1>2. ASSUME NEW c \in Caller, is_lexists(c) PROVE DirInv'
    <2>1. place \in seen[c] /\ step[c] = "is_lexists"
      BY <1>2 DEF DirInv, SeenWell, is_lexists
    <2>2. CASE place = "nothing"
      <3>1. Goes(c, "mkdir") /\ Alone
        BY <1>2, <2>2 DEF is_lexists
      <3> QED BY <2>1, <2>2, <3>1, DirStepAlone
    <2>3. CASE place = "no_parent" /\ lenient[c]
      <3>1. Goes(c, "stat_again") /\ Alone
        BY <1>2, <2>3 DEF is_lexists, Throws
      <3> QED BY <2>1, <2>3, <3>1, DirStepAlone
    <2>4. CASE place = "no_parent" /\ ~lenient[c]
      <3>1. Goes(c, Threw) /\ Alone
        BY <1>2, <2>4 DEF is_lexists, Throws
      <3> QED BY <2>1, <2>4, <3>1, DirStepAlone
    <2>5. CASE place \notin {"nothing", "no_parent"}
      <3>1. Goes(c, "stat") /\ Alone
        BY <1>2, <2>5 DEF is_lexists
      <3> QED BY <2>1, <2>5, <3>1, DirStepAlone
    <2> QED BY <2>2, <2>3, <2>4, <2>5
  <1>3. ASSUME NEW c \in Caller, unix_stat(c) PROVE DirInv'
    <2>1. place \in seen[c] /\ step[c] = "stat" /\ (meddlings = 0 => place # "nothing")
      BY <1>3 DEF DirInv, SeenWell, Unmeddled, unix_stat
    <2>2. CASE place = "directory"
      <3>1. Goes(c, "existed") /\ Alone
        BY <1>3, <2>2 DEF unix_stat
      <3> QED BY <2>1, <2>2, <3>1, DirStepAlone
    <2>3. CASE place # "directory" /\ lenient[c]
      <3>1. Goes(c, "stat_again") /\ Alone
        BY <1>3, <2>3 DEF unix_stat, Throws
      <3> QED BY <2>1, <2>3, <3>1, DirStepAlone
    <2>4. CASE place # "directory" /\ ~lenient[c]
      <3>1. Goes(c, Threw) /\ Alone
        BY <1>3, <2>4 DEF unix_stat, Throws
      <3> QED BY <2>1, <2>4, <3>1, DirStepAlone
    <2> QED BY <2>2, <2>3, <2>4
  <1>4. ASSUME NEW c \in Caller, unix_mkdir(c) PROVE DirInv'
    <2>1. place \in seen[c] /\ step[c] = "mkdir" /\ "nothing" \in seen[c]
      BY <1>4 DEF DirInv, SeenWell, unix_mkdir
    <2>2. CASE place = "nothing"
      <3>1. /\ Becomes("directory") /\ Goes(c, "created")
            /\ created' = [created EXCEPT ![c] = TRUE]
            /\ UNCHANGED <<lenient, meddlings>>
        BY <1>4, <2>2 DEF unix_mkdir
      <3>2. DirTypeOK'
        BY <3>1 DEF DirInv, DirTypeOK, Becomes, Goes
      <3>3. ASSUME NEW d \in Caller
            PROVE  SeenWell(d)' /\ Unmeddled(d)' /\ Returned(d)'
        <4>1. CASE d = c
          BY <2>1, <3>1, <4>1 DEF DirInv, DirTypeOK, Becomes, Goes, SeenWell, Unmeddled, Returned
        <4>2. CASE d # c
          BY <3>1, <4>2 DEF DirInv, DirTypeOK, Becomes, Goes, SeenWell, Unmeddled, Returned
        <4> QED BY <4>1, <4>2
      <3>4. OneMade'
        BY <2>2, <3>1 DEF DirInv, DirTypeOK, OneMade, Unmeddled
      <3> QED BY <3>2, <3>3, <3>4 DEF DirInv
    <2>3. CASE place # "nothing" /\ lenient[c]
      <3>1. Goes(c, "stat_again") /\ Alone
        BY <1>4, <2>3 DEF unix_mkdir, Throws
      <3> QED BY <2>1, <2>3, <3>1, DirStepAlone
    <2>4. CASE place # "nothing" /\ ~lenient[c]
      <3>1. Goes(c, Threw) /\ Alone
        BY <1>4, <2>4 DEF unix_mkdir, Throws
      <3> QED BY <2>1, <2>4, <3>1, DirStepAlone
    <2> QED BY <2>2, <2>3, <2>4
  <1>5. ASSUME NEW c \in Caller, StatAgain(c) PROVE DirInv'
    <2>1. /\ place \in seen[c] /\ step[c] = "stat_again" /\ lenient[c]
          /\ meddlings = 0 => place # "nothing"
          /\ meddlings = 0 /\ "nothing" \in seen[c] => place \in {"nothing", "directory"}
          /\ meddlings \in Nat
      BY <1>5 DEF DirInv, DirTypeOK, SeenWell, Unmeddled, StatAgain
    <2>2. CASE place = "directory"
      <3>1. Goes(c, "existed") /\ Alone
        BY <1>5, <2>2 DEF StatAgain
      <3> QED BY <2>1, <2>2, <3>1, DirStepAlone
    <2>3. CASE place = "file"
      <3>1. Goes(c, "gave_up") /\ Alone
        BY <1>5, <2>3 DEF StatAgain
      <3> QED BY <2>1, <2>3, <3>1, DirStepAlone
    <2>4. CASE place \notin {"directory", "file"}
      <3>1. Goes(c, Threw) /\ Alone
        BY <1>5, <2>4 DEF StatAgain
      <3>2. seen[c] # {"directory"}
        BY <2>1, <2>4
      <3>3. meddlings > 0 \/ "nothing" \notin seen[c]
        BY <2>1, <2>4
      <3> QED BY <2>1, <3>1, <3>2, <3>3, DirStepAlone
    <2> QED BY <2>2, <2>3, <2>4
  <1>6. ASSUME NEW what, what \in Place, Meddle(what) PROVE DirInv'
    <2>0. /\ meddlings' = meddlings + 1
          /\ place' = what
          /\ seen' = [c \in Caller |-> IF step[c] \in Inside THEN seen[c] \cup {what} ELSE seen[c]]
          /\ UNCHANGED <<step, created, lenient>>
      BY <1>6 DEF Meddle, Becomes
    <2>1. DirTypeOK'
      <3>1. seen' \in [Caller -> SUBSET Place]
        <4>1. seen \in [Caller -> SUBSET Place] /\ what \in Place
          BY <1>6 DEF DirInv, DirTypeOK
        <4>2. \A c \in Caller : seen[c] \cup {what} \in SUBSET Place
          BY <4>1
        <4> QED BY <2>0, <4>1, <4>2
      <3> QED BY <1>6, <2>0, <3>1 DEF DirInv, DirTypeOK
    <2>2. meddlings' > 0
      BY <2>0 DEF DirInv, DirTypeOK
    <2>3. ASSUME NEW d \in Caller
          PROVE  SeenWell(d)' /\ Unmeddled(d)' /\ Returned(d)'
      <3>1. /\ step'[d] = step[d] /\ lenient'[d] = lenient[d]
            /\ IF step[d] \in Inside THEN seen'[d] = seen[d] \cup {what} ELSE seen'[d] = seen[d]
            /\ place' = what
        BY <2>0 DEF DirInv, DirTypeOK
      <3>2. SeenWell(d) /\ Returned(d)
        BY DEF DirInv
      <3>3. SeenWell(d)'
        BY <3>1, <3>2 DEF SeenWell
      <3>4. Unmeddled(d)'
        BY <2>2 DEF Unmeddled
      <3>5. Returned(d)'
        BY <2>2, <3>1, <3>2 DEF Returned
      <3> QED BY <3>3, <3>4, <3>5
    <2>4. OneMade'
      BY <2>2 DEF OneMade
    <2> QED BY <2>1, <2>3, <2>4 DEF DirInv
  <1>7. CASE UNCHANGED dirVars
    BY <1>7 DEF DirInv, DirTypeOK, SeenWell, Unmeddled, Returned, OneMade, dirVars
  <1> QED BY <1>1, <1>2, <1>3, <1>4, <1>5, <1>6, <1>7 DEF DirNext

LEMMA InvImplies == DirInv => DirectoryIsThere
  BY DEF DirInv, DirTypeOK, Returned, OneMade, DirectoryIsThere

-----------------------------------------------------------------------------
\* mkdir_if_not_exists(): whatever other processes do at the path, and however
\* many call the function, who has made or found the directory has had it during
\* its call, and who throws has had something else there.
THEOREM DirectoryMade == DirSpec => []DirectoryIsThere
  BY DirInitKeeps, DirStepKeeps, InvImplies, PTL DEF DirSpec

-----------------------------------------------------------------------------
(***************************************************************************)
(* ControlledList, for any rows and any of the buttons.                    *)
(*                                                                         *)
(* A row is in the list once, so that the selected one has one place; the  *)
(* buttons are those of the last update unless the owner came in between,  *)
(* and without a selection they are grey whoever changed the model.        *)
(***************************************************************************)

ListTypeOK ==
  /\ rows \in Seq(Row)
  /\ selected \in Row \cup {NoRow}
  /\ outdated \in BOOLEAN

\* No row is at two places.
Distinct(model) == \A i, j \in 1 .. Len(model) : model[i] = model[j] => i = j

Has(model, row) == \E i \in 1 .. Len(model) : model[i] = row

\* The buttons as update_buttons() leaves them.
Updated == buttons = update_buttons(DOMAIN buttons, rows, selected)

ListInv ==
  /\ ListTypeOK
  /\ Distinct(rows)
  /\ selected = NoRow \/ Has(rows, selected)
  /\ selected = NoRow \/ ~outdated => Updated

\* What the buttons say is worth what they say when nothing is selected: it
\* does not depend on the model.
LEMMA Grey ==
  ASSUME NEW given, NEW model
  PROVE  update_buttons(given, model, NoRow) = [b \in given |-> FALSE]
  BY DEF update_buttons

\* The place of the selected row.
LEMMA Place1 ==
  ASSUME NEW model \in Seq(Row), NEW row, Has(model, row)
  PROVE  LET at == CHOOSE i \in DOMAIN model : model[i] = row
         IN  at \in 1 .. Len(model) /\ model[at] = row
  <1>1. DOMAIN model = 1 .. Len(model)
    BY LenProperties
  <1> QED BY <1>1 DEF Has

\* Two rows change places: none is lost, none is doubled.
LEMMA SwappedKeeps ==
  ASSUME NEW model \in Seq(Row), Distinct(model),
         NEW i \in 1 .. Len(model), NEW j \in 1 .. Len(model)
  PROVE  /\ Swapped(model, i, j) \in Seq(Row)
         /\ Distinct(Swapped(model, i, j))
         /\ \A row : Has(model, row) => Has(Swapped(model, i, j), row)
  <1>1. /\ model \in [1 .. Len(model) -> Row] /\ Len(model) \in Nat
        /\ model[i] \in Row /\ model[j] \in Row
    BY LenProperties, ElementOfSeq
  <1> DEFINE new == Swapped(model, i, j)
  <1>2. /\ new \in [1 .. Len(model) -> Row]
        /\ \A k \in 1 .. Len(model) :
             new[k] = IF k = j THEN model[i] ELSE IF k = i THEN model[j] ELSE model[k]
    BY <1>1 DEF Swapped
  <1>3. new \in Seq(Row) /\ Len(new) = Len(model)
    BY <1>1, <1>2, LenProperties
  <1>4. Distinct(new)
    BY <1>2, <1>3 DEF Distinct
  <1>5. ASSUME NEW row, Has(model, row) PROVE Has(new, row)
    <2>1. PICK k \in 1 .. Len(model) : model[k] = row
      BY <1>5 DEF Has
    <2>2. CASE k = i
      BY <1>2, <1>3, <2>1, <2>2 DEF Has
    <2>3. CASE k = j
      BY <1>2, <1>3, <2>1, <2>3 DEF Has
    <2>4. CASE k # i /\ k # j
      BY <1>2, <1>3, <2>1, <2>4 DEF Has
    <2> QED BY <2>2, <2>3, <2>4
  <1> QED BY <1>3, <1>4, <1>5

\* A row is erased: the others stay, once each.
LEMMA RemovedRow ==
  ASSUME NEW model \in Seq(Row), Distinct(model), NEW i \in 1 .. Len(model)
  PROVE  /\ RemoveAt(model, i) \in Seq(Row)
         /\ Len(RemoveAt(model, i)) = Len(model) - 1
         /\ Distinct(RemoveAt(model, i))
         /\ \A row : Has(model, row) /\ row # model[i] => Has(RemoveAt(model, i), row)
  <1> DEFINE before == SubSeq(model, 1, i - 1)
             after == SubSeq(model, i + 1, Len(model))
             new == RemoveAt(model, i)
  <1>1. Len(model) \in Nat /\ \A k \in 1 .. Len(model) : model[k] \in Row
    BY LenProperties, ElementOfSeq
  <1>2. /\ before \in Seq(Row) /\ Len(before) = i - 1
        /\ \A k \in 1 .. i - 1 : before[k] = model[k]
    <2>1. \A k \in 1 .. i - 1 : model[k] \in Row
      BY <1>1
    <2>2. /\ before \in Seq(Row) /\ Len(before) = IF 1 <= i - 1 THEN (i - 1) - 1 + 1 ELSE 0
          /\ \A k \in 1 .. (i - 1) - 1 + 1 : before[k] = model[1 + k - 1]
      BY <2>1, SubSeqProperties
    <2> QED BY <1>1, <2>2
  <1>3. /\ after \in Seq(Row) /\ Len(after) = Len(model) - i
        /\ \A k \in 1 .. Len(model) - i : after[k] = model[i + k]
    <2>1. \A k \in i + 1 .. Len(model) : model[k] \in Row
      BY <1>1
    <2>2. /\ after \in Seq(Row)
          /\ Len(after) = IF i + 1 <= Len(model) THEN Len(model) - (i + 1) + 1 ELSE 0
          /\ \A k \in 1 .. Len(model) - (i + 1) + 1 : after[k] = model[i + 1 + k - 1]
      BY <1>1, <2>1, SubSeqProperties
    <2> QED BY <1>1, <2>2
  <1> HIDE DEF before, after
  <1>4. new = before \o after
    BY DEF RemoveAt, before, after
  <1>5. /\ new \in Seq(Row) /\ Len(new) = Len(model) - 1
        /\ \A k \in 1 .. Len(model) - 1 :
             new[k] = IF k <= i - 1 THEN before[k] ELSE after[k - (i - 1)]
    BY <1>1, <1>2, <1>3, <1>4, ConcatProperties
  <1> HIDE DEF new
  <1>6. ASSUME NEW k \in 1 .. Len(model) - 1
        PROVE  new[k] = IF k < i THEN model[k] ELSE model[k + 1]
    <2>1. CASE k < i
      <3>1. k <= i - 1 /\ k \in 1 .. i - 1
        BY <1>1, <2>1
      <3> QED
        BY <1>2, <1>5, <2>1, <3>1
    <2>2. CASE k >= i
      <3> DEFINE j == k - (i - 1)
      <3>1. ~(k <= i - 1) /\ j \in 1 .. Len(model) - i /\ i + j = k + 1
        BY <1>1, <2>2
      <3>2. new[k] = after[j]
        BY <1>5, <3>1
      <3> HIDE DEF j
      <3>3. new[k] = model[k + 1]
        BY <1>3, <3>1, <3>2
      <3> QED
        BY <1>1, <2>2, <3>3
    <2> QED
      BY <1>1, <2>1, <2>2
  <1>7. Distinct(new)
    <2> SUFFICES ASSUME NEW j \in 1 .. Len(model) - 1, NEW k \in 1 .. Len(model) - 1,
                        new[j] = new[k]
                 PROVE  j = k
      BY <1>5 DEF Distinct
    <2> DEFINE was(n) == IF n < i THEN n ELSE n + 1
    <2>1. was(j) \in 1 .. Len(model) /\ was(k) \in 1 .. Len(model)
      BY <1>1
    <2>2. model[was(j)] = new[j] /\ model[was(k)] = new[k]
      BY <1>6
    <2>3. was(j) = was(k)
      BY <2>1, <2>2 DEF Distinct
    <2> QED BY <1>1, <2>3
  <1>8. ASSUME NEW row, Has(model, row), row # model[i] PROVE Has(new, row)
    <2>1. PICK k \in 1 .. Len(model) : model[k] = row
      BY <1>8 DEF Has
    <2>2. CASE k < i
      <3>1. k \in 1 .. Len(model) - 1
        BY <1>1, <2>2
      <3>2. new[k] = row
        BY <1>6, <2>1, <2>2, <3>1
      <3> QED BY <1>5, <3>1, <3>2 DEF Has
    <2>3. CASE k > i
      <3>1. k - 1 \in 1 .. Len(model) - 1 /\ ~(k - 1 < i) /\ (k - 1) + 1 = k
        BY <1>1, <2>3
      <3>2. new[k - 1] = row
        BY <1>6, <2>1, <3>1
      <3> QED BY <1>5, <3>1, <3>2 DEF Has
    <2> QED BY <1>8, <2>1, <2>2, <2>3
  <1> QED BY <1>5, <1>7, <1>8 DEF new

\* A row that is new to the list is put anywhere: the others stay.
LEMMA InsertedRow ==
  ASSUME NEW model \in Seq(Row), Distinct(model), NEW i \in 1 .. Len(model) + 1,
         NEW e \in Row, ~Has(model, e)
  PROVE  /\ InsertAt(model, i, e) \in Seq(Row)
         /\ Distinct(InsertAt(model, i, e))
         /\ \A row : Has(model, row) => Has(InsertAt(model, i, e), row)
  <1> DEFINE before == SubSeq(model, 1, i - 1)
             after == SubSeq(model, i, Len(model))
             new == InsertAt(model, i, e)
  <1>1. Len(model) \in Nat /\ \A k \in 1 .. Len(model) : model[k] \in Row
    BY LenProperties, ElementOfSeq
  <1>2. /\ before \in Seq(Row) /\ Len(before) = i - 1
        /\ \A k \in 1 .. i - 1 : before[k] = model[k]
    <2>1. \A k \in 1 .. i - 1 : model[k] \in Row
      BY <1>1
    <2>2. /\ before \in Seq(Row) /\ Len(before) = IF 1 <= i - 1 THEN (i - 1) - 1 + 1 ELSE 0
          /\ \A k \in 1 .. (i - 1) - 1 + 1 : before[k] = model[1 + k - 1]
      BY <2>1, SubSeqProperties
    <2> QED BY <1>1, <2>2
  <1>3. /\ after \in Seq(Row) /\ Len(after) = Len(model) - i + 1
        /\ \A k \in 1 .. Len(model) - i + 1 : after[k] = model[i + k - 1]
    <2>1. \A k \in i .. Len(model) : model[k] \in Row
      BY <1>1
    <2>2. /\ after \in Seq(Row)
          /\ Len(after) = IF i <= Len(model) THEN Len(model) - i + 1 ELSE 0
          /\ \A k \in 1 .. Len(model) - i + 1 : after[k] = model[i + k - 1]
      BY <1>1, <2>1, SubSeqProperties
    <2> QED BY <1>1, <2>2
  <1> DEFINE left == before \o <<e>>
  <1>5. new = left \o after
    BY DEF InsertAt
  <1> HIDE DEF before, after
  <1>4. /\ left \in Seq(Row) /\ Len(left) = i
        /\ \A k \in 1 .. i : left[k] = IF k <= i - 1 THEN before[k] ELSE e
    <2> DEFINE one == <<e>>
    <2>1. one \in Seq(Row) /\ Len(one) = 1 /\ one[1] = e
      BY <1>1
    <2> HIDE DEF one
    <2>2. /\ before \o one \in Seq(Row) /\ Len(before \o one) = Len(before) + Len(one)
          /\ \A k \in 1 .. Len(before) + Len(one) :
               (before \o one)[k] = IF k <= Len(before) THEN before[k] ELSE one[k - Len(before)]
      BY <1>2, <2>1, ConcatProperties
    <2>3. left = before \o one
      BY DEF left, one
    <2>4. ASSUME NEW k \in 1 .. i PROVE left[k] = IF k <= i - 1 THEN before[k] ELSE e
      <3>1. k \in 1 .. Len(before) + Len(one)
        BY <1>1, <1>2, <2>1
      <3>2. left[k] = IF k <= i - 1 THEN before[k] ELSE one[k - (i - 1)]
        BY <1>2, <2>2, <2>3, <3>1
      <3>3. CASE k <= i - 1
        BY <3>2, <3>3
      <3>4. CASE ~(k <= i - 1)
        <4>1. k - (i - 1) = 1
          BY <1>1, <3>4
        <4> QED
          BY <2>1, <3>2, <3>4, <4>1
      <3> QED
        BY <3>3, <3>4
    <2> QED
      BY <1>1, <1>2, <2>1, <2>2, <2>3, <2>4
  <1> HIDE DEF left
  <1>6. /\ new \in Seq(Row) /\ Len(new) = Len(model) + 1
        /\ \A k \in 1 .. Len(model) + 1 :
             new[k] = IF k <= i THEN left[k] ELSE after[k - i]
    <2>1. Len(left) + Len(after) = Len(model) + 1
      BY <1>1, <1>3, <1>4
    <2>2. /\ left \o after \in Seq(Row) /\ Len(left \o after) = Len(left) + Len(after)
          /\ \A k \in 1 .. Len(left) + Len(after) :
               (left \o after)[k] = IF k <= Len(left) THEN left[k] ELSE after[k - Len(left)]
      BY <1>3, <1>4, ConcatProperties
    <2> QED BY <1>4, <1>5, <2>1, <2>2
  <1> HIDE DEF new
  <1>7. \A k \in 1 .. Len(model) + 1 :
          new[k] = IF k < i THEN model[k] ELSE IF k = i THEN e ELSE model[k - 1]
    <2> SUFFICES ASSUME NEW k \in 1 .. Len(model) + 1
                 PROVE  new[k] = IF k < i THEN model[k] ELSE IF k = i THEN e ELSE model[k - 1]
      OBVIOUS
    <2>1. CASE k < i
      BY <1>1, <1>2, <1>4, <1>6, <2>1
    <2>2. CASE k = i
      BY <1>1, <1>4, <1>6, <2>2
    <2>3. CASE k > i
      <3>1. k - i \in 1 .. Len(model) - i + 1 /\ i + (k - i) - 1 = k - 1
        BY <1>1, <2>3
      <3>2. new[k] = after[k - i]
        BY <1>1, <1>6, <2>3
      <3>3. after[k - i] = model[i + (k - i) - 1]
        BY <1>3, <3>1
      <3> QED BY <2>3, <3>1, <3>2, <3>3
    <2> QED BY <1>1, <2>1, <2>2, <2>3
  <1>8. Distinct(new)
    <2> SUFFICES ASSUME NEW j \in 1 .. Len(model) + 1, NEW k \in 1 .. Len(model) + 1,
                        new[j] = new[k]
                 PROVE  j = k
      BY <1>6 DEF Distinct
    <2> DEFINE was(n) == IF n < i THEN n ELSE n - 1
    <2>1. \A n \in 1 .. Len(model) + 1 : n # i => was(n) \in 1 .. Len(model) /\ model[was(n)] = new[n]
      BY <1>1, <1>7
    <2>2. \A n \in 1 .. Len(model) + 1 : n # i => new[n] # e
      BY <2>1 DEF Has
    <2>3. new[i] = e
      BY <1>1, <1>7
    <2>4. CASE j = i \/ k = i
      BY <2>2, <2>3, <2>4
    <2>5. CASE j # i /\ k # i
      <3>1. was(j) = was(k)
        BY <2>1, <2>5 DEF Distinct
      <3> QED BY <1>1, <2>5, <3>1
    <2> QED BY <2>4, <2>5
  <1>9. ASSUME NEW row, Has(model, row) PROVE Has(new, row)
    <2>1. PICK k \in 1 .. Len(model) : model[k] = row
      BY <1>9 DEF Has
    <2>2. CASE k < i
      BY <1>1, <1>6, <1>7, <2>1, <2>2 DEF Has
    <2>3. CASE k >= i
      <3>1. k + 1 \in 1 .. Len(model) + 1 /\ k + 1 > i /\ (k + 1) - 1 = k
        BY <1>1, <2>3
      <3>2. new[k + 1] = row
        BY <1>7, <2>1, <3>1
      <3> QED BY <1>6, <3>1, <3>2 DEF Has
    <2> QED BY <1>1, <2>1, <2>2, <2>3
  <1> QED BY <1>6, <1>8, <1>9 DEF new

LEMMA ListInitKeeps == ListInit => ListInv
  <1> SUFFICES ASSUME ListInit PROVE ListInv
    OBVIOUS
  <1>1. rows \in Seq(Row) /\ Len(rows) = 0 /\ selected = NoRow /\ outdated = FALSE
    BY EmptySeq DEF ListInit
  <1>2. PICK given \in SUBSET Button : buttons = update_buttons(given, rows, selected)
    BY DEF ListInit
  <1>3. DOMAIN buttons = given
    BY <1>2 DEF update_buttons
  <1>4. Updated
    BY <1>2, <1>3 DEF Updated
  <1>5. outdated \in BOOLEAN
    BY <1>1
  <1>6. Distinct(rows)
    BY <1>1 DEF Distinct
  <1> QED BY <1>1, <1>4, <1>5, <1>6 DEF ListInv, ListTypeOK

\* push() moves nothing but the selected row and its neighbour.
LEMMA PushKeeps ==
  ASSUME ListInv, NEW direction, push(direction)
  PROVE  ListInv'
  <1> DEFINE at == CHOOSE i \in DOMAIN rows : rows[i] = selected
             target == IF direction = "up" THEN at - 1 ELSE at + 1
  <1>1. rows \in Seq(Row) /\ Distinct(rows) /\ Has(rows, selected) /\ selected \in Row
    BY DEF push, ListInv, ListTypeOK
  <1>2. at \in 1 .. Len(rows) /\ DOMAIN rows = 1 .. Len(rows)
    BY <1>1, Place1, LenProperties
  <1>3. rows' = IF target \in DOMAIN rows THEN Swapped(rows, at, target) ELSE rows
    BY DEF push
  <1> HIDE DEF at, target
  <1>4. rows' \in Seq(Row) /\ Distinct(rows)' /\ Has(rows', selected)
    <2>1. CASE target \in DOMAIN rows
      BY <1>1, <1>2, <1>3, <2>1, SwappedKeeps
    <2>2. CASE target \notin DOMAIN rows
      BY <1>1, <1>3, <2>2
    <2> QED BY <2>1, <2>2
  <1>5. selected' = selected /\ outdated' = FALSE
    BY DEF push
  <1>6. buttons' = update_buttons(DOMAIN buttons, rows', selected')
    BY <1>5 DEF push
  <1>7. DOMAIN buttons' = DOMAIN buttons
    BY <1>6 DEF update_buttons
  <1>8. Updated'
    BY <1>6, <1>7 DEF Updated
  <1> QED BY <1>1, <1>4, <1>5, <1>8 DEF ListInv, ListTypeOK

LEMMA RemoveKeeps ==
  ASSUME ListInv, remove
  PROVE  ListInv'
  <1> DEFINE at == CHOOSE i \in DOMAIN rows : rows[i] = selected
  <1>1. rows \in Seq(Row) /\ Distinct(rows) /\ Has(rows, selected)
    BY DEF remove, ListInv, ListTypeOK
  <1>2. at \in 1 .. Len(rows)
    BY <1>1, Place1
  <1>3. /\ rows' = RemoveAt(rows, at)
        /\ selected' = IF rows' = <<>> THEN NoRow
                       ELSE IF at \in DOMAIN rows' THEN rows'[at] ELSE Last(rows')
    BY DEF remove
  <1> HIDE DEF at
  <1>4. rows' \in Seq(Row) /\ Distinct(rows)'
    BY <1>1, <1>2, <1>3, RemovedRow
  <1>5. selected' = NoRow \/ (selected' \in Row /\ Has(rows', selected'))
    <2>1. CASE rows' = <<>>
      BY <1>3, <2>1
    <2>2. CASE rows' # <<>>
      <3>1. Len(rows') \in Nat \ {0} /\ DOMAIN rows' = 1 .. Len(rows')
        BY <1>4, <2>2, EmptySeq, LenProperties
      <3>2. PICK k \in 1 .. Len(rows') : selected' = rows'[k]
        BY <1>3, <2>2, <3>1 DEF Last
      <3> QED BY <1>4, <3>2, ElementOfSeq DEF Has
    <2> QED BY <2>1, <2>2
  <1>6. buttons' = update_buttons(DOMAIN buttons, rows', selected') /\ outdated' = FALSE
    BY DEF remove
  <1>7. DOMAIN buttons' = DOMAIN buttons
    BY <1>6 DEF update_buttons
  <1>8. Updated'
    BY <1>6, <1>7 DEF Updated
  <1> QED BY <1>4, <1>5, <1>6, <1>8 DEF ListInv, ListTypeOK

\* The owner leaves the buttons alone, unless it erases the selected row; grey
\* ones are right for the model as it is now as well.
LEMMA OwnerKeeps ==
  ASSUME ListInv, UNCHANGED <<selected, buttons>>, outdated' = TRUE,
         rows' \in Seq(Row), Distinct(rows)',
         \A row : Has(rows, row) /\ row = selected => Has(rows', row)
  PROVE  ListInv'
  <1>1. selected = NoRow => Updated'
    <2> SUFFICES ASSUME selected = NoRow PROVE Updated'
      OBVIOUS
    <2>1. buttons = update_buttons(DOMAIN buttons, rows, NoRow)
      BY DEF ListInv, Updated
    <2>2. buttons = update_buttons(DOMAIN buttons, rows', NoRow)
      BY <2>1, Grey
    <2> QED BY <2>2 DEF Updated
  <1> QED BY <1>1 DEF ListInv, ListTypeOK

LEMMA ListStepKeeps == ListInv /\ [ListNext]_listVars => ListInv'
  <1> SUFFICES ASSUME ListInv, [ListNext]_listVars PROVE ListInv'
    OBVIOUS
  <1>0. rows \in Seq(Row) /\ Distinct(rows) /\ DOMAIN rows = 1 .. Len(rows)
    BY LenProperties DEF ListInv, ListTypeOK
  <1>1. ASSUME NEW given \in SUBSET Button, set_buttons(given) PROVE ListInv'
    <2>1. DOMAIN buttons' = given
      BY <1>1 DEF set_buttons, update_buttons
    <2>2. Updated'
      BY <1>1, <2>1 DEF set_buttons, Updated
    <2> QED BY <1>1, <2>2 DEF ListInv, ListTypeOK, set_buttons
  <1>2. ASSUME NEW row \in Range(rows) \cup {NoRow}, select(row) PROVE ListInv'
    <2>1. DOMAIN buttons' = DOMAIN buttons
      BY <1>2 DEF select, update_buttons
    <2>2. Updated'
      BY <1>2, <2>1 DEF select, Updated
    <2>3. row = NoRow \/ (row \in Row /\ Has(rows, row))
      BY <1>0, <1>2, ElementOfSeq DEF Has, Range
    <2> QED BY <1>2, <2>2, <2>3 DEF ListInv, ListTypeOK, select
  <1>3. CASE up
    BY <1>3, PushKeeps DEF up
  <1>4. CASE down
    BY <1>4, PushKeeps DEF down
  <1>5. CASE remove
    BY <1>5, RemoveKeeps
  <1>6. ASSUME NEW row \in Row, NEW i \in 1 .. Len(rows) + 1, OwnerInserts(row, i) PROVE ListInv'
    <2>1. ~Has(rows, row)
      BY <1>0, <1>6 DEF OwnerInserts, Has, Range
    <2>2. rows' = InsertAt(rows, i, row) /\ outdated' = TRUE /\ UNCHANGED <<selected, buttons>>
      BY <1>6 DEF OwnerInserts
    <2>3. rows' \in Seq(Row) /\ Distinct(rows)' /\ \A r : Has(rows, r) => Has(rows', r)
      BY <1>0, <2>1, <2>2, InsertedRow
    <2> QED BY <2>2, <2>3, OwnerKeeps
  <1>7. ASSUME NEW i \in DOMAIN rows, OwnerErases(i) PROVE ListInv'
    <2>1. rows' = RemoveAt(rows, i)
      BY <1>7 DEF OwnerErases
    <2>2. /\ rows' \in Seq(Row) /\ Distinct(rows)'
          /\ \A r : Has(rows, r) /\ r # rows[i] => Has(rows', r)
      BY <1>0, <2>1, RemovedRow
    <2>3. CASE rows[i] = selected
      <3>1. /\ selected' = NoRow /\ outdated' = FALSE
            /\ buttons' = update_buttons(DOMAIN buttons, rows', selected')
        BY <1>7, <2>3 DEF OwnerErases
      <3>2. DOMAIN buttons' = DOMAIN buttons
        BY <3>1 DEF update_buttons
      <3>3. Updated'
        BY <3>1, <3>2 DEF Updated
      <3> QED BY <2>2, <3>1, <3>3 DEF ListInv, ListTypeOK
    <2>4. CASE rows[i] # selected
      <3>1. outdated' = TRUE /\ UNCHANGED <<selected, buttons>>
        BY <1>7, <2>4 DEF OwnerErases
      <3> QED BY <2>2, <2>4, <3>1, OwnerKeeps
    <2> QED BY <2>3, <2>4
  <1>8. CASE UNCHANGED listVars
    BY <1>8 DEF listVars, ListInv, ListTypeOK, Updated
  <1> QED BY <1>1, <1>2, <1>3, <1>4, <1>5, <1>6, <1>7, <1>8 DEF ListNext

\* Sensitive is what would do something, as long as the buttons are up to date.
LEMMA ListGives == ListInv => ButtonsMatch
  <1> SUFFICES ASSUME ListInv PROVE ButtonsMatch
    OBVIOUS
  <1>1. rows \in Seq(Row) /\ DOMAIN rows = 1 .. Len(rows)
    BY LenProperties DEF ListInv, ListTypeOK
  <1>2. ASSUME selected = NoRow, NEW b \in DOMAIN buttons PROVE ~buttons[b] /\ ~WouldDo(b)
    <2>1. buttons = [x \in DOMAIN buttons |-> FALSE]
      BY <1>2, Grey DEF ListInv, Updated
    <2>2. buttons[b] = FALSE
      BY <1>2, <2>1
    <2> QED BY <1>2, <2>2 DEF WouldDo
  <1>3. ASSUME selected # NoRow
        PROVE  /\ selected \in Range(rows)
               /\ ~outdated => \A b \in DOMAIN buttons : buttons[b] <=> WouldDo(b)
    <2>1. Has(rows, selected)
      BY <1>3 DEF ListInv
    <2>2. selected \in Range(rows)
      BY <1>1, <2>1 DEF Has, Range
    <2>3. Head(rows) = rows[1] /\ Last(rows) = rows[Len(rows)]
      BY <1>1, <2>1 DEF Last, Has
    <2>4. ASSUME ~outdated, NEW b \in DOMAIN buttons PROVE buttons[b] <=> WouldDo(b)
      <3>1. buttons = update_buttons(DOMAIN buttons, rows, selected)
        BY <2>4 DEF ListInv, Updated
      <3>2. buttons[b] = (/\ selected # NoRow
                          /\ b = "up" => selected # Head(rows)
                          /\ b = "down" => selected # Last(rows))
        BY <2>4, <3>1, Zenon DEF update_buttons
      <3>3. WouldDo(b) = (/\ selected # NoRow
                          /\ b = "up" => selected # Head(rows)
                          /\ b = "down" => selected # Last(rows))
        BY <2>3 DEF WouldDo
      <3> QED BY <3>2, <3>3, Zenon
    <2> QED BY <2>2, <2>4
  <1> QED BY <1>2, <1>3 DEF ButtonsMatch

\* m::gtk::Controlled_list: whatever the user and the owner of the model do, a
\* selected row is one of the list, without one every button is grey, and a
\* button that is up to date is sensitive exactly when it would do something.
THEOREM ButtonsAreRight == ListSpec => []ButtonsMatch
  <1>1. ListSpec => []ListInv
    BY ListInitKeeps, ListStepKeeps, PTL DEF ListSpec
  <1> QED BY <1>1, ListGives, PTL

-----------------------------------------------------------------------------
(***************************************************************************)
(* Buffer, for any bytes, any size of a piece and any limit.               *)
(*                                                                         *)
(* What is before the position is told byte by byte: the kept ones, then   *)
(* those of the file.  As long as a new buffer is being filled, all of it  *)
(* is before the position, which is why the limit on its size is a limit   *)
(* on the file.                                                            *)
(***************************************************************************)

Stuff == Byte \cup {Junk}

LoadState == {"reading", "loaded", "failed", "too_big"}

BufferTypeOK ==
  /\ data \in Seq(Stuff)
  /\ position \in Nat
  /\ disk \in Seq(Stuff)
  /\ loading = NotLoading \/ loading \in [state : LoadState, start : Nat, got : Nat,
                                          fresh : BOOLEAN, before : Seq(Stuff)]
  /\ aborted \in BOOLEAN /\ misplaced \in BOOLEAN
  /\ calls \in Nat

\* The byte at i, where there may be none.
At(bytes, i) == IF i <= Len(bytes) THEN bytes[i] ELSE Junk

\* Before the position: the bytes that were there, then those of the file.
BytesKept(bytes, at, file, load) ==
  /\ at = load.start + load.got
  /\ Len(load.before) = load.start
  /\ load.got <= Len(file)
  /\ \A i \in 1 .. at :
       At(bytes, i) = IF i <= load.start THEN load.before[i] ELSE file[i - load.start]

\* A new buffer is as long as what was read, and the end is met below the limit.
Filled(bytes, at, file, load) ==
  load.fresh /\ load.start = 0 =>
    /\ load.state = "reading" => Len(bytes) = at
    /\ load.state = "too_big" => Len(file) >= BUFFER_MAX_FILE_SIZE
    /\ load.state = "loaded" => Len(file) < BUFFER_MAX_FILE_SIZE + IO_BUF_SIZE

LoadInv(bytes, at, file, load) ==
  load # NotLoading =>
    /\ BytesKept(bytes, at, file, load)
    /\ Filled(bytes, at, file, load)
    /\ load.state = "loaded" => load.got = Len(file) /\ at <= Len(bytes)

BufferInv ==
  /\ BufferTypeOK
  /\ ~misplaced => position <= Len(data)
  /\ LoadInv(data, position, disk, loading)

-----------------------------------------------------------------------------
\* A function on 1..n is a sequence of that length.
LEMMA FunctionIsSeq ==
  ASSUME NEW S, NEW n \in Nat, NEW f \in [1 .. n -> S]
  PROVE  f \in Seq(S) /\ Len(f) = n
  <1>1. f \in Seq(S)
    BY SeqDef
  <1>2. Len(f) \in Nat /\ DOMAIN f = 1 .. Len(f) /\ DOMAIN f = 1 .. n
    BY <1>1, LenProperties
  <1> QED BY <1>1, <1>2

LEMMA ResizedIs ==
  ASSUME NEW bytes \in Seq(Stuff), NEW n \in Nat
  PROVE  /\ Resized(bytes, n) \in Seq(Stuff) /\ Len(Resized(bytes, n)) = n
         /\ \A i \in 1 .. n : Resized(bytes, n)[i] = At(bytes, i)
  <1>1. \A i \in 1 .. n : i <= Len(bytes) => bytes[i] \in Stuff
    BY LenProperties, ElementOfSeq
  <1>2. Resized(bytes, n) \in [1 .. n -> Stuff]
    BY <1>1 DEF Resized, Stuff
  <1>3. \A i \in 1 .. n : Resized(bytes, n)[i] = At(bytes, i)
    BY DEF Resized, At
  <1> QED BY <1>2, <1>3, FunctionIsSeq

\* Room behind the position changes no byte that was there.
LEMMA ReservedIs ==
  ASSUME NEW bytes \in Seq(Stuff), NEW at \in Nat, NEW n \in Nat
  PROVE  LET room == Reserved(bytes, at, n)
         IN  /\ room \in Seq(Stuff)
             /\ Len(room) = IF at + n > Len(bytes) THEN at + n ELSE Len(bytes)
             /\ \A i \in Nat \ {0} : At(room, i) = At(bytes, i)
  <1> DEFINE room == Reserved(bytes, at, n)
  <1>0. Len(bytes) \in Nat
    BY LenProperties
  <1>1. CASE at + n > Len(bytes)
    <2>1. room = Resized(bytes, at + n)
      BY <1>1 DEF Reserved
    <2> HIDE DEF room
    <2>2. /\ room \in Seq(Stuff) /\ Len(room) = at + n
          /\ \A i \in 1 .. at + n : room[i] = At(bytes, i)
      <3>1. at + n \in Nat
        OBVIOUS
      <3> DEFINE size == at + n
      <3> HIDE DEF size
      <3>2. /\ Resized(bytes, size) \in Seq(Stuff) /\ Len(Resized(bytes, size)) = size
            /\ \A i \in 1 .. size : Resized(bytes, size)[i] = At(bytes, i)
        BY <3>1, ResizedIs DEF size
      <3> QED BY <2>1, <3>2 DEF size
    <2>3. ASSUME NEW i \in Nat \ {0} PROVE At(room, i) = At(bytes, i)
      <3>1. CASE i <= at + n
        BY <2>2, <3>1 DEF At
      <3>2. CASE i > at + n
        BY <1>0, <1>1, <2>2, <3>2 DEF At
      <3> QED BY <3>1, <3>2
    <2> QED BY <1>1, <2>2, <2>3 DEF room
  <1>2. CASE ~(at + n > Len(bytes))
    BY <1>2 DEF Reserved
  <1> QED BY <1>1, <1>2

LEMMA StoredIs ==
  ASSUME NEW bytes \in Seq(Stuff), NEW at \in Nat, NEW some \in Seq(Stuff),
         at + Len(some) <= Len(bytes)
  PROVE  LET new == Stored(bytes, at, some)
         IN  /\ new \in Seq(Stuff) /\ Len(new) = Len(bytes)
             /\ \A i \in 1 .. at : At(new, i) = At(bytes, i)
             /\ \A i \in at + 1 .. at + Len(some) : At(new, i) = some[i - at]
  <1> DEFINE new == Stored(bytes, at, some)
  <1>1. /\ Len(bytes) \in Nat /\ DOMAIN bytes = 1 .. Len(bytes) /\ Len(some) \in Nat
        /\ \A i \in 1 .. Len(bytes) : bytes[i] \in Stuff
        /\ \A i \in 1 .. Len(some) : some[i] \in Stuff
    BY LenProperties, ElementOfSeq
  <1>2. \A i \in 1 .. Len(bytes) :
          new[i] = IF i \in at + 1 .. at + Len(some) THEN some[i - at] ELSE bytes[i]
    BY <1>1 DEF Stored
  <1>3. new \in [1 .. Len(bytes) -> Stuff]
    BY <1>1 DEF Stored
  <1> HIDE DEF new
  <1>4. new \in Seq(Stuff) /\ Len(new) = Len(bytes)
    BY <1>1, <1>3, FunctionIsSeq
  <1>5. \A i \in 1 .. at : At(new, i) = At(bytes, i)
    BY <1>1, <1>2, <1>4 DEF At
  <1>6. \A i \in at + 1 .. at + Len(some) : At(new, i) = some[i - at]
    BY <1>1, <1>2, <1>4 DEF At
  <1> QED BY <1>4, <1>5, <1>6 DEF new

\* How much of the file a turn reads.
IsPiece(file, got, n, piece) ==
  /\ n \in 0 .. IO_BUF_SIZE /\ got + n <= Len(file)
  /\ n < IO_BUF_SIZE => got + n = Len(file)
  /\ piece \in Seq(Stuff) /\ Len(piece) = n
  /\ \A i \in 1 .. n : piece[i] = file[got + i]

\* A part of a sequence that lies in it.
LEMMA SubSeqIs ==
  ASSUME NEW S, NEW s \in Seq(S), NEW m \in Nat \ {0}, NEW n \in Nat, m <= n + 1, n <= Len(s)
  PROVE  /\ SubSeq(s, m, n) \in Seq(S) /\ Len(SubSeq(s, m, n)) = n - m + 1
         /\ \A i \in 1 .. n - m + 1 : SubSeq(s, m, n)[i] = s[m + i - 1]
  <1>1. \A i \in m .. n : s[i] \in S
    BY LenProperties, ElementOfSeq
  <1>2. /\ SubSeq(s, m, n) \in Seq(S)
        /\ Len(SubSeq(s, m, n)) = IF m <= n THEN n - m + 1 ELSE 0
        /\ \A i \in 1 .. n - m + 1 : SubSeq(s, m, n)[i] = s[m + i - 1]
    BY <1>1, SubSeqProperties
  <1> QED BY <1>2

\* Less than a whole piece is all that is left of the file.
LEMMA PieceIs ==
  ASSUME NEW file \in Seq(Stuff), NEW got \in Nat, got <= Len(file),
         NEW n, n = Min({IO_BUF_SIZE, Len(file) - got})
  PROVE  IsPiece(file, got, n, SubSeq(file, got + 1, got + n))
  <1> DEFINE first == got + 1
             last == got + n
             piece == SubSeq(file, got + 1, got + n)
  <1>1. Len(file) \in Nat
    BY LenProperties
  <1>2. n = IF IO_BUF_SIZE <= Len(file) - got THEN IO_BUF_SIZE ELSE Len(file) - got
    BY <1>1, SizesAreSizes DEF Min
  <1>3. /\ n \in 0 .. IO_BUF_SIZE /\ n \in Nat /\ got + n <= Len(file)
        /\ n < IO_BUF_SIZE => got + n = Len(file)
    BY <1>1, <1>2, SizesAreSizes
  <1>4. /\ first \in Nat \ {0} /\ last \in Nat /\ first <= last + 1 /\ last <= Len(file)
        /\ last - first + 1 = n /\ \A i \in 1 .. n : first + i - 1 = got + i
    BY <1>3
  <1>5. piece = SubSeq(file, first, last)
    OBVIOUS
  <1> HIDE DEF first, last, piece
  <1>6. /\ piece \in Seq(Stuff) /\ Len(piece) = last - first + 1
        /\ \A i \in 1 .. last - first + 1 : piece[i] = file[first + i - 1]
    BY <1>1, <1>4, <1>5, SubSeqIs
  <1>7. IsPiece(file, got, n, piece)
    BY <1>3, <1>4, <1>6 DEF IsPiece
  <1> QED BY <1>7 DEF piece

\* A call of the owner ends what is known of the last load_file().
LEMMA CallKeeps ==
  ASSUME BufferInv, loading' = NotLoading, calls' \in Nat,
         data' \in Seq(Stuff), position' \in Nat, disk' \in Seq(Stuff),
         aborted' \in BOOLEAN, misplaced' \in BOOLEAN,
         ~misplaced' => position' <= Len(data')
  PROVE  BufferInv'
  <1>1. BufferTypeOK'
    BY DEF BufferTypeOK
  <1>2. LoadInv(data, position, disk, loading)'
    BY DEF LoadInv
  <1> QED BY <1>1, <1>2 DEF BufferInv

LEMMA BufferInitKeeps == BufferInit => BufferInv
  <1> SUFFICES ASSUME BufferInit PROVE BufferInv
    OBVIOUS
  <1>1. /\ data = <<>> /\ position = 0 /\ loading = NotLoading
        /\ aborted = FALSE /\ misplaced = FALSE /\ calls = 0
    BY DEF BufferInit
  <1>2. data \in Seq(Stuff) /\ Len(data) = 0
    BY <1>1, EmptySeq
  <1>3. disk \in Seq(Stuff)
    <2>1. PICK n \in 0 .. MaxBytes : disk \in [1 .. n -> Byte]
      BY DEF BufferInit, BoundedSeq, SeqOf
    <2>2. disk \in [1 .. n -> Stuff]
      BY <2>1 DEF Stuff
    <2> QED BY <2>2, FunctionIsSeq, SizesAreSizes
  <1>4. BufferTypeOK
    BY <1>1, <1>2, <1>3 DEF BufferTypeOK
  <1>5. position <= Len(data)
    BY <1>1, <1>2
  <1> QED BY <1>1, <1>4, <1>5 DEF BufferInv, LoadInv

\* load_file() keeps what is before the position, wherever it is.
LEMMA LoadKeeps ==
  ASSUME BufferInv, load_file
  PROVE  BufferInv'
  <1> DEFINE before == SubSeq(Resized(data, position), 1, position)
  <1>1. /\ data \in Seq(Stuff) /\ position \in Nat /\ disk \in Seq(Stuff)
        /\ Len(data) \in Nat /\ Len(disk) \in Nat
    BY LenProperties DEF BufferInv, BufferTypeOK
  <1>2. /\ Resized(data, position) \in Seq(Stuff) /\ Len(Resized(data, position)) = position
        /\ \A i \in 1 .. position : Resized(data, position)[i] = At(data, i)
    BY <1>1, ResizedIs
  <1>3. before = Resized(data, position)
    BY <1>2, SubSeqFull
  <1>4. loading' = [state |-> "reading", start |-> position, got |-> 0, fresh |-> data = <<>>,
                    before |-> before]
    BY DEF load_file
  <1>5. UNCHANGED <<data, position, disk, aborted, misplaced>> /\ calls' = calls + 1
    BY DEF load_file, Call
  <1> HIDE DEF before
  <1>6. (data = <<>>) \in BOOLEAN
    OBVIOUS
  <1>7. /\ loading'.state = "reading" /\ loading'.start = position /\ loading'.got = 0
        /\ loading'.fresh = (data = <<>>) /\ loading'.before = before
    BY <1>4
  <1>8. loading' \in [state : LoadState, start : Nat, got : Nat, fresh : BOOLEAN, before : Seq(Stuff)]
    BY <1>1, <1>2, <1>3, <1>4, <1>6 DEF LoadState
  <1>9. BufferTypeOK'
    BY <1>5, <1>8 DEF BufferInv, BufferTypeOK
  <1>10. BytesKept(data', position', disk', loading')
    BY <1>1, <1>2, <1>3, <1>5, <1>7 DEF BytesKept
  <1>11. Filled(data', position', disk', loading')
    <2>1. data = <<>> => Len(data) = 0
      BY EmptySeq
    <2> QED BY <1>5, <1>7, <2>1 DEF Filled
  <1> QED BY <1>5, <1>7, <1>9, <1>10, <1>11 DEF BufferInv, LoadInv

\* What the invariant says while the file is read.
Reading == loading.state = "reading"

LEMMA ReadingIs ==
  ASSUME BufferInv, Reading
  PROVE  /\ loading \in [state : LoadState, start : Nat, got : Nat, fresh : BOOLEAN, before : Seq(Stuff)]
         /\ BytesKept(data, position, disk, loading)
         /\ loading.fresh /\ loading.start = 0 => Len(data) = position
         /\ data \in Seq(Stuff) /\ position \in Nat /\ disk \in Seq(Stuff)
         /\ Len(data) \in Nat /\ Len(disk) \in Nat
  <1>1. loading # NotLoading
    BY DEF Reading, NotLoading
  <1> QED BY <1>1, LenProperties DEF BufferInv, BufferTypeOK, LoadInv, Filled, Reading

LEMMA ReadPieceKeeps ==
  ASSUME BufferInv, ReadPiece
  PROVE  BufferInv'
  <1> DEFINE n == Min({IO_BUF_SIZE, Len(disk) - loading.got})
             room == Reserved(data, position, IO_BUF_SIZE)
             piece == SubSeq(disk, loading.got + 1, loading.got + n)
             new == Stored(room, position, piece)
             to == IF n < IO_BUF_SIZE THEN "loaded" ELSE loading.state
  <1>0. Reading /\ Len(data) < BUFFER_MAX_FILE_SIZE
    BY DEF ReadPiece, Reading
  <1>1. /\ loading \in [state : LoadState, start : Nat, got : Nat, fresh : BOOLEAN, before : Seq(Stuff)]
        /\ BytesKept(data, position, disk, loading)
        /\ loading.fresh /\ loading.start = 0 => Len(data) = position
        /\ data \in Seq(Stuff) /\ position \in Nat /\ disk \in Seq(Stuff)
        /\ Len(data) \in Nat /\ Len(disk) \in Nat
    BY <1>0, ReadingIs
  <1>2. loading.got \in Nat /\ loading.start \in Nat /\ loading.got <= Len(disk)
    BY <1>1 DEF BytesKept
  <1>3. /\ n \in 0 .. IO_BUF_SIZE /\ loading.got + n <= Len(disk)
        /\ n < IO_BUF_SIZE => loading.got + n = Len(disk)
        /\ piece \in Seq(Stuff) /\ Len(piece) = n
        /\ \A i \in 1 .. n : piece[i] = disk[loading.got + i]
    <2>1. n = Min({IO_BUF_SIZE, Len(disk) - loading.got})
      OBVIOUS
    <2> HIDE DEF n
    <2>2. IsPiece(disk, loading.got, n, SubSeq(disk, loading.got + 1, loading.got + n))
      BY <1>1, <1>2, <2>1, PieceIs
    <2> QED BY <2>2 DEF IsPiece
  <1>4. /\ room \in Seq(Stuff)
        /\ Len(room) = IF position + IO_BUF_SIZE > Len(data) THEN position + IO_BUF_SIZE ELSE Len(data)
        /\ \A i \in Nat \ {0} : At(room, i) = At(data, i)
    BY <1>1, ReservedIs, SizesAreSizes
  <1>5. /\ data' = new /\ position' = position + n
        /\ loading' = [loading EXCEPT !.got = @ + n, !.state = to]
        /\ UNCHANGED <<disk, aborted, misplaced, calls>>
    BY DEF ReadPiece
  <1> HIDE DEF n, room, piece, to
  <1>6. position + Len(piece) <= Len(room)
    BY <1>1, <1>3, <1>4, SizesAreSizes
  <1>7. /\ new \in Seq(Stuff) /\ Len(new) = Len(room)
        /\ \A i \in 1 .. position : At(new, i) = At(room, i)
        /\ \A i \in position + 1 .. position + Len(piece) : At(new, i) = piece[i - position]
    BY <1>1, <1>3, <1>4, <1>6, StoredIs
  <1> HIDE DEF new
  <1>8. /\ loading'.start = loading.start /\ loading'.got = loading.got + n
        /\ loading'.before = loading.before /\ loading'.fresh = loading.fresh
        /\ loading'.state = to
    BY <1>1, <1>5
  <1>9. to \in LoadState /\ loading.got + n \in Nat
    BY <1>0, <1>2, <1>3 DEF to, LoadState, Reading
  <1>10. loading' \in [state : LoadState, start : Nat, got : Nat, fresh : BOOLEAN, before : Seq(Stuff)]
    BY <1>1, <1>5, <1>9
  <1>11. BufferTypeOK'
    BY <1>1, <1>3, <1>5, <1>7, <1>10 DEF BufferInv, BufferTypeOK
  <1>12. position' <= Len(data')
    BY <1>3, <1>5, <1>6, <1>7
  <1>13. BytesKept(data', position', disk', loading')
    <2>1. /\ position = loading.start + loading.got /\ Len(loading.before) = loading.start
          /\ \A i \in 1 .. position :
               At(data, i) = IF i <= loading.start THEN loading.before[i] ELSE disk[i - loading.start]
      BY <1>1 DEF BytesKept
    <2>2. ASSUME NEW i \in 1 .. position + n
          PROVE  At(new, i) = IF i <= loading.start THEN loading.before[i] ELSE disk[i - loading.start]
      <3>1. CASE i <= position
        <4>1. i \in 1 .. position /\ i \in Nat \ {0}
          BY <1>1, <1>3, <3>1
        <4>2. At(new, i) = At(room, i) /\ At(room, i) = At(data, i)
          BY <1>4, <1>7, <4>1
        <4> QED BY <2>1, <4>1, <4>2
      <3>2. CASE i > position
        <4>1. i \in position + 1 .. position + Len(piece) /\ i - position \in 1 .. n
          BY <1>1, <1>3, <3>2
        <4>2. At(new, i) = disk[loading.got + (i - position)]
          BY <1>3, <1>7, <4>1
        <4>3. loading.got + (i - position) = i - loading.start /\ ~(i <= loading.start)
          BY <1>1, <1>2, <1>3, <2>1, <3>2
        <4> QED BY <4>2, <4>3
      <3> QED BY <1>1, <1>3, <3>1, <3>2
    <2>3. position + n = loading.start + (loading.got + n)
      BY <1>2, <1>3, <2>1
    <2> QED BY <1>3, <1>5, <1>8, <2>1, <2>2, <2>3 DEF BytesKept
  <1>14. Filled(data', position', disk', loading')
    <2> SUFFICES ASSUME loading'.fresh /\ loading'.start = 0
                 PROVE  /\ loading'.state = "reading" => Len(data') = position'
                        /\ loading'.state = "too_big" => Len(disk') >= BUFFER_MAX_FILE_SIZE
                        /\ loading'.state = "loaded" =>
                             Len(disk') < BUFFER_MAX_FILE_SIZE + IO_BUF_SIZE
      BY DEF Filled
    <2>1. Len(data) = position /\ loading.start = 0 /\ loading.got = position
      BY <1>1, <1>2, <1>8 DEF BytesKept
    <2>2. Len(new) = position + IO_BUF_SIZE
      BY <1>1, <1>4, <1>7, <2>1, SizesAreSizes
    <2>3. CASE n < IO_BUF_SIZE
      <3>1. loading'.state = "loaded"
        BY <1>8, <2>3 DEF to
      <3>2. Len(disk) = position + n
        BY <1>3, <2>1, <2>3
      <3>3. Len(disk) < BUFFER_MAX_FILE_SIZE + IO_BUF_SIZE
        BY <1>0, <1>1, <1>3, <2>1, <2>3, <3>2, SizesAreSizes
      <3> QED BY <1>5, <3>1, <3>3
    <2>4. CASE ~(n < IO_BUF_SIZE)
      <3>1. loading'.state = "reading"
        BY <1>0, <1>8, <2>4 DEF to, Reading
      <3>2. n = IO_BUF_SIZE
        BY <1>3, <2>4, SizesAreSizes
      <3> QED BY <1>5, <2>2, <3>1, <3>2
    <2> QED BY <2>3, <2>4
  <1>15. loading'.state = "loaded" => loading'.got = Len(disk')
    BY <1>0, <1>3, <1>5, <1>8 DEF to, Reading
  <1> QED BY <1>11, <1>12, <1>13, <1>14, <1>15 DEF BufferInv, LoadInv

\* Room may be added.
Longer(bytes, new) ==
  /\ Len(new) >= Len(bytes)
  /\ \A i \in Nat \ {0} : At(new, i) = At(bytes, i)

\* The other steps of load_file() leave the bytes before the position alone.
LoadEnds(to) ==
  /\ loading' = [loading EXCEPT !.state = to]
  /\ UNCHANGED <<position, disk, aborted, misplaced, calls>>
  /\ data' \in Seq(Stuff)
  /\ Longer(data, data')
  /\ to = "too_big" => Len(data) >= BUFFER_MAX_FILE_SIZE

LEMMA LoadEndKeeps ==
  ASSUME BufferInv, Reading, NEW to \in {"failed", "too_big"}, LoadEnds(to)
  PROVE  BufferInv'
  <1>1. /\ loading \in [state : LoadState, start : Nat, got : Nat, fresh : BOOLEAN, before : Seq(Stuff)]
        /\ BytesKept(data, position, disk, loading)
        /\ loading.fresh /\ loading.start = 0 => Len(data) = position
        /\ position \in Nat /\ Len(data) \in Nat /\ Len(disk) \in Nat
    BY ReadingIs
  <1>2. /\ loading' = [loading EXCEPT !.state = to]
        /\ UNCHANGED <<position, disk, aborted, misplaced, calls>>
        /\ data' \in Seq(Stuff)
    BY DEF LoadEnds
  <1>3. /\ loading'.start = loading.start /\ loading'.got = loading.got
        /\ loading'.before = loading.before /\ loading'.fresh = loading.fresh
        /\ loading'.state = to /\ to \in LoadState
    BY <1>1, <1>2 DEF LoadState
  <1>4. loading' \in [state : LoadState, start : Nat, got : Nat, fresh : BOOLEAN, before : Seq(Stuff)]
    BY <1>1, <1>2, <1>3
  <1>5. BufferTypeOK'
    BY <1>2, <1>4 DEF BufferInv, BufferTypeOK
  <1>6. BytesKept(data', position', disk', loading')
    <2>1. \A i \in 1 .. position : i \in Nat \ {0}
      <3>1. position \in Nat
        BY <1>1
      <3> QED BY <3>1
    <2>2. \A i \in Nat \ {0} : At(data', i) = At(data, i)
      BY DEF LoadEnds, Longer
    <2>3. \A i \in 1 .. position : At(data', i) = At(data, i)
      BY <2>1, <2>2
    <2> QED BY <1>1, <1>2, <1>3, <2>3 DEF BytesKept
  <1>7. Filled(data', position', disk', loading')
    <2> SUFFICES ASSUME loading'.fresh, loading'.start = 0, to = "too_big"
                 PROVE  Len(disk) >= BUFFER_MAX_FILE_SIZE
      BY <1>2, <1>3 DEF Filled
    <2>1. Len(data) = position /\ position = 0 + loading.got /\ loading.got <= Len(disk)
      BY <1>1, <1>3 DEF BytesKept
    <2>2. loading.got \in Nat
      BY <1>1
    <2>3. Len(data) >= BUFFER_MAX_FILE_SIZE
      BY DEF LoadEnds
    <2>4. Len(data) <= Len(disk)
      BY <1>1, <2>1, <2>2
    <2> QED BY <1>1, <2>3, <2>4, SizesAreSizes
  <1>8. ~misplaced' => position' <= Len(data')
    <2>1. Len(data') \in Nat /\ position' = position
      BY <1>2, LenProperties
    <2>2. Len(data') >= Len(data)
      BY DEF LoadEnds, Longer
    <2>3. ~misplaced => position <= Len(data)
      BY Zenon DEF BufferInv
    <2>4. position <= Len(data) => position' <= Len(data')
      BY <1>1, <2>1, <2>2
    <2>5. misplaced' = misplaced
      BY <1>2
    <2> QED BY <2>3, <2>4, <2>5, Zenon
  <1> QED BY <1>3, <1>5, <1>6, <1>7, <1>8 DEF BufferInv, LoadInv

\* The file may only get longer while it is read.
LEMMA GrowKeeps ==
  ASSUME BufferInv, NEW b \in Byte, FileGrows(b)
  PROVE  BufferInv'
  <1>0. Reading /\ disk' = Append(disk, b) /\ calls' = calls + 1
        /\ UNCHANGED <<data, position, loading, aborted, misplaced>>
    BY DEF FileGrows, Reading
  <1>1. /\ loading \in [state : LoadState, start : Nat, got : Nat, fresh : BOOLEAN, before : Seq(Stuff)]
        /\ BytesKept(data, position, disk, loading)
        /\ disk \in Seq(Stuff) /\ Len(disk) \in Nat
    BY <1>0, ReadingIs
  <1>2. /\ disk' \in Seq(Stuff) /\ Len(disk') = Len(disk) + 1
        /\ \A i \in 1 .. Len(disk) : disk'[i] = disk[i]
    BY <1>0, <1>1, AppendProperties DEF Stuff
  <1>3. BufferTypeOK'
    BY <1>0, <1>2 DEF BufferInv, BufferTypeOK
  <1>4. BytesKept(data, position, disk', loading)
    <2>1. /\ position = loading.start + loading.got /\ Len(loading.before) = loading.start
          /\ loading.got <= Len(disk)
          /\ \A i \in 1 .. position :
               At(data, i) = IF i <= loading.start THEN loading.before[i] ELSE disk[i - loading.start]
      BY <1>1 DEF BytesKept
    <2>2. loading.got \in Nat /\ loading.start \in Nat
      BY <1>1
    <2>3. ASSUME NEW i \in 1 .. position
          PROVE  At(data, i) = IF i <= loading.start THEN loading.before[i] ELSE disk'[i - loading.start]
      <3>1. CASE i <= loading.start
        BY <2>1, <3>1
      <3>2. CASE i > loading.start
        <4>1. i - loading.start \in 1 .. Len(disk)
          BY <1>1, <2>1, <2>2, <3>2
        <4>2. disk'[i - loading.start] = disk[i - loading.start]
          BY <1>2, <4>1
        <4> QED BY <2>1, <2>2, <3>2, <4>2
      <3> QED BY <2>1, <2>2, <3>1, <3>2
    <2>4. loading.got <= Len(disk')
      BY <1>1, <1>2, <2>1, <2>2
    <2> QED BY <2>1, <2>3, <2>4 DEF BytesKept
  <1>5. Filled(data, position, disk', loading)
    BY <1>0, <1>1, ReadingIs DEF Filled, Reading
  <1>6. loading.state # "loaded"
    BY <1>0 DEF Reading
  <1> QED BY <1>0, <1>3, <1>4, <1>5, <1>6 DEF BufferInv, LoadInv

LEMMA BufferStepKeeps == BufferInv /\ [BufferNext]_bufferVars => BufferInv'
  <1> SUFFICES ASSUME BufferInv, [BufferNext]_bufferVars PROVE BufferInv'
    OBVIOUS
  <1>0. /\ data \in Seq(Stuff) /\ position \in Nat /\ disk \in Seq(Stuff) /\ calls \in Nat
        /\ Len(data) \in Nat /\ aborted \in BOOLEAN /\ misplaced \in BOOLEAN
        /\ ~misplaced => position <= Len(data)
    BY LenProperties DEF BufferInv, BufferTypeOK
  <1>1. ASSUME NEW inc \in -2 .. 2, increase_pos(inc) PROVE BufferInv'
    <2>1. loading' = NotLoading /\ calls' = calls + 1 /\ UNCHANGED <<data, disk, misplaced>>
      BY <1>1 DEF increase_pos, Call
    <2>2. CASE position + inc \in 0 .. Len(data)
      <3>1. position' = position + inc /\ aborted' = aborted
        BY <1>1, <2>2 DEF increase_pos
      <3> QED BY <1>0, <2>1, <2>2, <3>1, CallKeeps
    <2>3. CASE position + inc \notin 0 .. Len(data)
      <3>1. position' = position /\ aborted' = TRUE
        BY <1>1, <2>3 DEF increase_pos
      <3> QED BY <1>0, <2>1, <3>1, CallKeeps
    <2> QED BY <2>2, <2>3
  <1>2. ASSUME NEW new_pos \in 0 .. MaxBytes, set_pos(new_pos) PROVE BufferInv'
    <2>1. loading' = NotLoading /\ calls' = calls + 1 /\ UNCHANGED <<data, disk>>
      BY <1>2 DEF set_pos, Call
    <2>2. CASE position > Len(data)
      <3>1. aborted' = TRUE /\ UNCHANGED <<position, misplaced>>
        BY <1>2, <2>2 DEF set_pos
      <3> QED BY <1>0, <2>1, <3>1, CallKeeps
    <2>3. CASE ~(position > Len(data))
      <3>1. position' = new_pos /\ misplaced' = (misplaced \/ new_pos > Len(data)) /\ aborted' = aborted
        BY <1>2, <2>3 DEF set_pos
      <3>2. misplaced' \in BOOLEAN /\ position' \in Nat
        BY <3>1, SizesAreSizes
      <3>3. ~misplaced' => ~(new_pos > Len(data))
        BY <3>1, Zenon
      <3>4. ~(new_pos > Len(data)) => position' <= Len(data')
        BY <1>0, <2>1, <3>1, SizesAreSizes
      <3> QED BY <1>0, <2>1, <3>1, <3>2, <3>3, <3>4, CallKeeps
    <2> QED BY <2>2, <2>3
  <1>3. ASSUME NEW n \in 0 .. MaxBytes, reserve(n) PROVE BufferInv'
    <2>1. /\ loading' = NotLoading /\ calls' = calls + 1 /\ UNCHANGED <<position, disk, aborted, misplaced>>
          /\ data' = Reserved(data, position, n)
      BY <1>3 DEF reserve, Call
    <2>2. n \in Nat
      BY SizesAreSizes
    <2>3. /\ data' \in Seq(Stuff)
          /\ Len(data') = IF position + n > Len(data) THEN position + n ELSE Len(data)
      BY <1>0, <2>1, <2>2, ReservedIs
    <2>4. ~misplaced' => position' <= Len(data')
      BY <1>0, <2>1, <2>2, <2>3
    <2> QED BY <1>0, <2>1, <2>3, <2>4, CallKeeps
  <1>4. ASSUME NEW n \in 0 .. MaxBytes, resize(n) PROVE BufferInv'
    <2>1. /\ loading' = NotLoading /\ calls' = calls + 1 /\ UNCHANGED <<position, disk, aborted>>
          /\ data' = Resized(data, n) /\ misplaced' = (misplaced \/ position > n)
      BY <1>4 DEF resize, Call
    <2>2. n \in Nat
      BY SizesAreSizes
    <2>3. data' \in Seq(Stuff) /\ Len(data') = n
      BY <1>0, <2>1, <2>2, ResizedIs
    <2>4. misplaced' \in BOOLEAN /\ (~misplaced' => ~(position > n))
      BY <2>1, Zenon
    <2>5. ~(position > n) => position' <= Len(data')
      BY <1>0, <2>1, <2>2, <2>3
    <2> QED BY <1>0, <2>1, <2>3, <2>4, <2>5, CallKeeps
  <1>5. ASSUME NEW n \in 0 .. MaxBytes, write_file(n) PROVE BufferInv'
    <2>1. /\ loading' = NotLoading /\ calls' = calls + 1 /\ UNCHANGED <<data, position, aborted, misplaced>>
      BY <1>5 DEF write_file, Call
    <2>2. disk' = SubSeq(data, 1, n) /\ n \in 0 .. Len(data)
      BY <1>5 DEF write_file
    <2>3. disk' \in Seq(Stuff)
      BY <1>0, <2>2, SubSeqIs
    <2> QED BY <1>0, <2>1, <2>3, CallKeeps
  <1>6. ASSUME NEW b \in Byte, Assign(<<b>>) PROVE BufferInv'
    <2>1. /\ loading' = NotLoading /\ calls' = calls + 1 /\ UNCHANGED <<position, disk, aborted>>
          /\ data' = <<b>> /\ misplaced' = (misplaced \/ position > Len(<<b>>))
      BY <1>6 DEF Assign, Call
    <2>2. data' \in Seq(Stuff) /\ Len(data') = 1
      BY <2>1 DEF Stuff
    <2>3. misplaced' \in BOOLEAN /\ (~misplaced' => ~(position > Len(<<b>>)))
      BY <2>1, Zenon
    <2>4. ~(position > Len(<<b>>)) => position' <= Len(data')
      BY <1>0, <2>1, <2>2
    <2> QED BY <1>0, <2>1, <2>2, <2>3, <2>4, CallKeeps
  <1>7. ASSUME NEW b \in Byte, Store(b) PROVE BufferInv'
    <2>1. /\ loading' = NotLoading /\ calls' = calls + 1 /\ UNCHANGED <<position, disk, aborted, misplaced>>
          /\ data' = Stored(data, position, <<b>>) /\ position < Len(data)
      BY <1>7 DEF Store, Call
    <2>2. <<b>> \in Seq(Stuff) /\ Len(<<b>>) = 1
      BY DEF Stuff
    <2>3. position + Len(<<b>>) <= Len(data)
      BY <1>0, <2>1, <2>2
    <2>4. data' \in Seq(Stuff) /\ Len(data') = Len(data)
      BY <1>0, <2>1, <2>2, <2>3, StoredIs
    <2> QED BY <1>0, <2>1, <2>4, CallKeeps
  <1>8. ASSUME NEW b \in Byte, FileGrows(b) PROVE BufferInv'
    BY <1>8, GrowKeeps
  <1>9. CASE load_file
    BY <1>9, LoadKeeps
  <1>10. CASE ReadPiece
    BY <1>10, ReadPieceKeeps
  <1>11. CASE TooBig
    <2>1. /\ Reading /\ Len(data) >= BUFFER_MAX_FILE_SIZE
          /\ loading' = [loading EXCEPT !.state = "too_big"]
          /\ UNCHANGED <<data, position, disk, aborted, misplaced, calls>>
      BY <1>11 DEF TooBig, Reading
    <2>2. Longer(data, data')
      BY <1>0, <2>1 DEF Longer
    <2>3. LoadEnds("too_big")
      BY <1>0, <2>1, <2>2 DEF LoadEnds
    <2> QED BY <2>1, <2>3, LoadEndKeeps
  <1>12. CASE ReadFails
    <2>1. /\ Reading /\ data' = Reserved(data, position, IO_BUF_SIZE)
          /\ loading' = [loading EXCEPT !.state = "failed"]
          /\ UNCHANGED <<position, disk, aborted, misplaced, calls>>
      BY <1>12 DEF ReadFails, Reading
    <2>2. /\ data' \in Seq(Stuff)
          /\ Len(data') = IF position + IO_BUF_SIZE > Len(data) THEN position + IO_BUF_SIZE ELSE Len(data)
          /\ \A i \in Nat \ {0} : At(data', i) = At(data, i)
      BY <1>0, <2>1, ReservedIs, SizesAreSizes
    <2>3. Longer(data, data')
      BY <1>0, <2>2, SizesAreSizes DEF Longer
    <2>4. LoadEnds("failed")
      BY <2>1, <2>2, <2>3 DEF LoadEnds
    <2> QED BY <2>1, <2>4, LoadEndKeeps
  <1>13. CASE UNCHANGED bufferVars
    BY <1>13 DEF bufferVars, BufferInv, BufferTypeOK, LoadInv, BytesKept, Filled
  <1> QED BY <1>1, <1>2, <1>3, <1>4, <1>5, <1>6, <1>7, <1>8, <1>9, <1>10, <1>11, <1>12, <1>13
             DEF BufferNext

\* Byte by byte is sequence by sequence.
LEMMA BufferGives == BufferInv => LoadedExactly
  <1> SUFFICES ASSUME BufferInv PROVE LoadedExactly
    OBVIOUS
  <1>1. data \in Seq(Stuff) /\ position \in Nat /\ disk \in Seq(Stuff) /\ Len(disk) \in Nat
    BY LenProperties DEF BufferInv, BufferTypeOK
  <1>2. ASSUME loading.state # "none"
        PROVE  /\ position = loading.start + loading.got
               /\ SubSeq(Resized(data, position), 1, position)
                    = loading.before \o SubSeq(disk, 1, loading.got)
               /\ loading.state = "loaded" => loading.got = Len(disk) /\ position <= Len(data)
               /\ Filled(data, position, disk, loading)
    <2>1. loading # NotLoading
      BY <1>2 DEF NotLoading
    <2>2. /\ loading \in [state : LoadState, start : Nat, got : Nat, fresh : BOOLEAN, before : Seq(Stuff)]
          /\ BytesKept(data, position, disk, loading)
          /\ Filled(data, position, disk, loading)
          /\ loading.state = "loaded" => loading.got = Len(disk) /\ position <= Len(data)
      BY <2>1 DEF BufferInv, BufferTypeOK, LoadInv
    <2>3. loading.start \in Nat /\ loading.got \in Nat /\ loading.before \in Seq(Stuff)
      BY <2>2
    <2>4. /\ position = loading.start + loading.got /\ Len(loading.before) = loading.start
          /\ loading.got <= Len(disk)
          /\ \A i \in 1 .. position :
               At(data, i) = IF i <= loading.start THEN loading.before[i] ELSE disk[i - loading.start]
      BY <2>2 DEF BytesKept
    <2> DEFINE have == Resized(data, position)
               file == SubSeq(disk, 1, loading.got)
               want == loading.before \o file
    <2>5. /\ have \in Seq(Stuff) /\ Len(have) = position
          /\ \A i \in 1 .. position : have[i] = At(data, i)
      BY <1>1, ResizedIs
    <2>6. SubSeq(have, 1, position) = have
      BY <2>5, SubSeqFull
    <2>7. /\ file \in Seq(Stuff) /\ Len(file) = loading.got
          /\ \A i \in 1 .. loading.got : file[i] = disk[i]
      <3>1. /\ file \in Seq(Stuff) /\ Len(file) = loading.got - 1 + 1
            /\ \A i \in 1 .. loading.got - 1 + 1 : file[i] = disk[1 + i - 1]
        BY <1>1, <2>3, <2>4, SubSeqIs
      <3> QED BY <2>3, <3>1
    <2> HIDE DEF have, file
    <2>8. /\ want \in Seq(Stuff) /\ Len(want) = loading.start + loading.got
          /\ \A i \in 1 .. loading.start + loading.got :
               want[i] = IF i <= loading.start THEN loading.before[i] ELSE file[i - loading.start]
      <3> DEFINE kept == loading.before
      <3>1. kept \in Seq(Stuff) /\ Len(kept) = loading.start
        BY <2>3, <2>4
      <3>2. want = kept \o file
        OBVIOUS
      <3> HIDE DEF kept
      <3>3. /\ kept \o file \in Seq(Stuff) /\ Len(kept \o file) = Len(kept) + Len(file)
            /\ \A i \in 1 .. Len(kept) + Len(file) :
                 (kept \o file)[i] = IF i <= Len(kept) THEN kept[i] ELSE file[i - Len(kept)]
        BY <2>7, <3>1, ConcatProperties
      <3> QED BY <2>7, <3>1, <3>2, <3>3 DEF kept
    <2> HIDE DEF want
    <2>9. ASSUME NEW i \in 1 .. position PROVE have[i] = want[i]
      <3>0. i \in 1 .. loading.start + loading.got
        BY <2>4
      <3>1. CASE i <= loading.start
        <4>1. have[i] = loading.before[i]
          BY <2>4, <2>5, <3>1
        <4>2. want[i] = loading.before[i]
          BY <2>8, <3>0, <3>1
        <4> QED BY <4>1, <4>2
      <3>2. CASE i > loading.start
        <4>1. i - loading.start \in 1 .. loading.got
          BY <1>1, <2>3, <2>4, <3>2
        <4>2. want[i] = disk[i - loading.start]
          BY <2>3, <2>4, <2>7, <2>8, <3>2, <4>1
        <4> QED BY <2>3, <2>4, <2>5, <3>2, <4>2
      <3> QED BY <1>1, <2>3, <3>1, <3>2
    <2>10. have = want
      BY <2>4, <2>5, <2>8, <2>9, SeqEqual
    <2> QED BY <2>2, <2>4, <2>6, <2>10 DEF have, want, file
  <1> QED BY <1>2 DEF LoadedExactly, BufferInv, Filled

\* m::Buffer::load_file(): whatever was in the buffer, however the file grows
\* meanwhile and wherever the reading ends, the kept bytes and those of the file
\* are before the position, in order; the limit on the size is kept to one piece.
THEOREM BufferLoads == BufferSpec => []LoadedExactly
  <1>1. BufferSpec => []BufferInv
    BY BufferInitKeeps, BufferStepKeeps, PTL DEF BufferSpec
  <1> QED BY <1>1, BufferGives, PTL

-----------------------------------------------------------------------------
(***************************************************************************)
(* TreeView, for any columns of any number of versions of a model, and any *)
(* settings that are there.                                                *)
(***************************************************************************)

\* What Without() has after each column.
Sieved(S, order, c, g) ==
  /\ g \in [0 .. Len(order) -> Seq(S)]
  /\ g[0] = <<>>
  /\ \A n \in 1 .. Len(order) : g[n] = IF order[n] = c THEN g[n - 1] ELSE Append(g[n - 1], order[n])

LEMMA WithoutIs ==
  ASSUME NEW S, NEW order \in Seq(S), NEW c
  PROVE  \E g : Sieved(S, order, c, g) /\ Without(order, c) = g[Len(order)]
<1> DEFINE N == Len(order)
           Next1(d, n) == IF order[n] = c THEN d ELSE Append(d, order[n])
           stepOf == [n \in 1 .. N |-> [d \in Seq(S) |-> Next1(d, n)]]
           at[n \in 0 .. N] ==
             IF n = 0 THEN <<>> ELSE IF order[n] = c THEN at[n - 1] ELSE Append(at[n - 1], order[n])
<1>1. Without(order, c) = at[N]
  BY DEF Without
<1>2. N \in Nat /\ \A n \in 1 .. N : order[n] \in S
  OBVIOUS
<1>3. <<>> \in Seq(S) /\ \A d \in Seq(S), n \in 1 .. N : Next1(d, n) \in Seq(S)
  BY <1>2
<1> HIDE DEF N
<1>4. ASSUME NEW d \in Seq(S), NEW n \in 1 .. N PROVE stepOf[n][d] = Next1(d, n)
  <2>1. stepOf[n] = [f \in Seq(S) |-> Next1(f, n)]
    OBVIOUS
  <2> QED
    BY <2>1
<1>5. stepOf \in Steps(N, Seq(S))
  BY <1>3 DEF Steps
<1> HIDE DEF stepOf
<1>6. PICK g \in [0 .. N -> Seq(S)] : g[0] = <<>> /\ \A n \in 1 .. N : g[n] = stepOf[n][g[n - 1]]
  <2>1. Runs(N, Seq(S), <<>>, stepOf) # {}
    BY <1>2, <1>3, <1>5, Recursion
  <2> QED
    BY <2>1 DEF Runs
<1>7. ASSUME NEW n \in 1 .. N
      PROVE  n - 1 \in 0 .. N /\ g[n - 1] \in Seq(S) /\ g[n] = Next1(g[n - 1], n)
  <2>1. n - 1 \in 0 .. N
    BY <1>2
  <2>2. g[n - 1] \in Seq(S)
    BY <1>6, <2>1
  <2> QED
    BY <1>4, <1>6, <2>1, <2>2
<1>8. g = [n \in 0 .. N |->
             IF n = 0 THEN <<>> ELSE IF order[n] = c THEN g[n - 1] ELSE Append(g[n - 1], order[n])]
  <2>1. ASSUME NEW n \in 0 .. N
        PROVE  g[n] = IF n = 0 THEN <<>> ELSE IF order[n] = c THEN g[n - 1] ELSE Append(g[n - 1], order[n])
    <3>1. n = 0 \/ n \in 1 .. N
      BY <1>2
    <3> QED
      BY <1>6, <1>7, <3>1
  <2> QED
    BY <1>6, <2>1
<1>9. at = [n \in 0 .. N |->
             IF n = 0 THEN <<>> ELSE IF order[n] = c THEN at[n - 1] ELSE Append(at[n - 1], order[n])]
  BY <1>8
<1> HIDE DEF at
<1>10. Alike(N, at, g)
  <2>1. at[0] = g[0]
    BY <1>2, <1>6, <1>9
  <2>2. ASSUME NEW n \in 1 .. N, at[n - 1] = g[n - 1]
        PROVE  at[n] = g[n]
    <3>1. at[n] = IF order[n] = c THEN at[n - 1] ELSE Append(at[n - 1], order[n])
      <4>1. n \in 0 .. N /\ n # 0
        BY <1>2
      <4> DEFINE Body(m) ==
                   IF m = 0 THEN <<>> ELSE IF order[m] = c THEN at[m - 1] ELSE Append(at[m - 1], order[m])
      <4>2. at[n] = Body(n)
        <5> HIDE DEF Body
        <5>1. at = [m \in 0 .. N |-> Body(m)]
          BY <1>9 DEF Body
        <5> QED
          BY <4>1, <5>1
      <4> QED
        BY <4>1, <4>2
    <3> QED
      BY <1>7, <2>2, <3>1
  <2> QED
    BY <2>1, <2>2 DEF Alike
<1>11. at[N] = g[N]
  BY <1>2, <1>10, SameValue
<1>12. Sieved(S, order, c, g)
  BY <1>6, <1>7 DEF Sieved, N
<1> QED
  BY <1>1, <1>11, <1>12 DEF N

\* After n columns: those but c, in the order they were.
Sieve(order, c, n, some) ==
  /\ Len(some) <= n
  /\ \A i \in 1 .. n : order[i] = c => Len(some) < n
  /\ \A j \in 1 .. Len(some) : some[j] # c /\ \E i \in 1 .. n : order[i] = some[j]
  /\ \A i \in 1 .. n : order[i] = c \/ \E j \in 1 .. Len(some) : some[j] = order[i]
  /\ Distinct(order) => Distinct(some)

LEMMA SieveStep ==
  ASSUME NEW S, NEW order \in Seq(S), NEW c, NEW n \in 1 .. Len(order),
         NEW some \in Seq(S), Sieve(order, c, n - 1, some),
         NEW more, more = IF order[n] = c THEN some ELSE Append(some, order[n])
  PROVE  Sieve(order, c, n, more)
<1>1. n \in Nat /\ n > 0 /\ Len(some) \in Nat /\ order[n] \in S
  OBVIOUS
<1>2. \A i \in 1 .. n : i = n \/ i \in 1 .. (n - 1)
  BY <1>1
<1>3. 1 .. (n - 1) \subseteq 1 .. n
  BY <1>1
<1>4. CASE order[n] = c
  BY <1>1, <1>2, <1>3, <1>4 DEF Sieve
<1>5. CASE order[n] # c
  <2>1. /\ more = Append(some, order[n]) /\ Len(more) = Len(some) + 1
        /\ more[Len(some) + 1] = order[n]
        /\ \A j \in 1 .. Len(some) : more[j] = some[j]
    BY <1>1, <1>5
  <2>2. \A j \in 1 .. Len(more) : j = Len(some) + 1 \/ j \in 1 .. Len(some)
    BY <1>1, <2>1
  <2>3. \A j \in 1 .. Len(some) : j \in 1 .. Len(more)
    BY <1>1, <2>1
  <2>4. Len(some) + 1 \in 1 .. Len(more)
    BY <1>1, <2>1
  <2>5. Len(more) <= n /\ \A i \in 1 .. n : order[i] = c => Len(more) < n
    BY <1>1, <1>2, <1>5, <2>1 DEF Sieve
  <2>6. \A j \in 1 .. Len(more) : more[j] # c /\ \E i \in 1 .. n : order[i] = more[j]
    BY <1>1, <1>3, <1>5, <2>1, <2>2 DEF Sieve
  <2>7. \A i \in 1 .. n : order[i] = c \/ \E j \in 1 .. Len(more) : more[j] = order[i]
    BY <1>2, <2>1, <2>3, <2>4 DEF Sieve
  <2>8. ASSUME Distinct(order) PROVE Distinct(more)
    <3>1. Distinct(some)
      BY <2>8 DEF Sieve
    <3>2. \A j \in 1 .. Len(some) : some[j] # order[n]
      <4>1. ASSUME NEW j \in 1 .. Len(some), some[j] = order[n] PROVE FALSE
        <5>1. PICK i \in 1 .. (n - 1) : order[i] = some[j]
          BY DEF Sieve
        <5>2. i \in 1 .. Len(order) /\ i # n
          BY <1>1
        <5> QED
          BY <2>8, <4>1, <5>1, <5>2 DEF Distinct
      <4> QED
        BY <4>1
    <3> QED
      BY <2>1, <2>2, <3>1, <3>2 DEF Distinct
  <2> QED
    BY <2>5, <2>6, <2>7, <2>8 DEF Sieve
<1> QED
  BY <1>4, <1>5

\* The columns but one are the others, each once if each was there once; and
\* the last one stays the last one.
LEMMA WithoutHas ==
  ASSUME NEW S, NEW order \in Seq(S), NEW c
  PROVE  /\ Without(order, c) \in Seq(S)
         /\ Range(Without(order, c)) = Range(order) \ {c}
         /\ c \in Range(order) => Len(Without(order, c)) < Len(order)
         /\ Distinct(order) => Distinct(Without(order, c))
         /\ order # <<>> /\ Last(order) # c =>
              Without(order, c) # <<>> /\ Last(Without(order, c)) = Last(order)
<1>1. PICK g : Sieved(S, order, c, g) /\ Without(order, c) = g[Len(order)]
  BY WithoutIs
<1> DEFINE N == Len(order)
           W == {n \in 0 .. N : Sieve(order, c, n, g[n])}
<1>2. N \in Nat /\ DOMAIN order = 1 .. N
  OBVIOUS
<1>3. \A n \in 0 .. N : g[n] \in Seq(S)
  BY <1>1 DEF Sieved
<1>4. 0 \in W
  <2>1. g[0] = <<>>
    BY <1>1 DEF Sieved
  <2> QED
    BY <1>2, <2>1 DEF Sieve, Distinct
<1>5. ASSUME NEW n \in 1 .. N, n - 1 \in W
      PROVE  n \in W
  <2>1. g[n] = IF order[n] = c THEN g[n - 1] ELSE Append(g[n - 1], order[n])
    BY <1>1 DEF Sieved
  <2>2. g[n - 1] \in Seq(S) /\ Sieve(order, c, n - 1, g[n - 1])
    BY <1>3, <1>5
  <2>3. Sieve(order, c, n, g[n])
    BY <2>1, <2>2, SieveStep
  <2> QED
    BY <1>2, <2>3
<1>6. N \in W
  <2> HIDE DEF W, N
  <2>1. \A n \in 1 .. N : n - 1 \in W => n \in W
    BY <1>5
  <2> QED
    BY <1>2, <1>4, <2>1, UpTo
<1> DEFINE w == Without(order, c)
<1>7. w \in Seq(S) /\ Sieve(order, c, N, w)
  BY <1>1, <1>2, <1>3, <1>6
<1>8. DOMAIN w = 1 .. Len(w)
  BY <1>7
<1>9. ASSUME order # <<>>, order[N] # c
      PROVE  w # <<>> /\ w[Len(w)] = order[N]
  <2>1. N \in 1 .. N
    BY <1>2, <1>9
  <2>2. w = Append(g[N - 1], order[N])
    BY <1>1, <1>9, <2>1 DEF Sieved
  <2>3. g[N - 1] \in Seq(S)
    BY <1>2, <1>3, <2>1
  <2> HIDE DEF w, N
  <2> QED
    BY <2>2, <2>3
<1> HIDE DEF w
<1>10. Range(w) = Range(order) \ {c}
  <2>1. ASSUME NEW d PROVE d \in Range(w) <=> \E j \in 1 .. Len(w) : w[j] = d
    BY <1>8 DEF Range
  <2>2. ASSUME NEW d PROVE d \in Range(order) <=> \E i \in 1 .. N : order[i] = d
    BY <1>2 DEF Range
  <2>3. ASSUME NEW d PROVE d \in Range(w) <=> d \in Range(order) /\ d # c
    <3> HIDE DEF N
    <3> QED
      BY <1>7, <2>1, <2>2 DEF Sieve
  <2> QED
    BY <2>3
<1>11. c \in Range(order) => Len(w) < N
  BY <1>2, <1>7 DEF Sieve, Range
<1>12. Distinct(order) => Distinct(w)
  BY <1>7 DEF Sieve
<1> QED
  BY <1>7, <1>9, <1>10, <1>11, <1>12 DEF w, Last

-----------------------------------------------------------------------------
Position == Columns \cup {FakeColumn}

Tree ==
  [all : Seq(Columns), order : Seq(Position), visible : [Columns -> BOOLEAN],
   fixed_width : [Columns -> Nat], width : [Columns -> Nat], sort : [id : Int, order : Order]]

\* A list has a column, each of them once, and the header has the same ones.
TreeHolds(t) ==
  /\ t \in Tree
  /\ t.all # <<>> /\ Distinct(t.all)
  /\ Range(t.order) \ {FakeColumn} = Range(t.all)

SettingsHold(s) == s.columns \in Seq(SavedColumn) /\ s.sort_order \in Order

TreeInv ==
  /\ TreeHolds(tree)
  /\ DOMAIN menu \subseteq Columns
  /\ SettingsHold(settings)

\* What a step may not do.
HeaderKept(t, u) ==
  /\ SomeVisible(t) /\ ~SomeVisible(u) => Len(u.all) < Len(t.all)
  /\ Last(t.order) = FakeColumn => Last(u.order) = FakeColumn

LEMMA ColumnsAre ==
  /\ Columns \subseteq Nat /\ FakeColumn \notin Columns
  /\ \A all \in Versions : all \in Seq(Columns)
<1>1. ASSUME NEW all \in Versions
      PROVE  Range(all) \subseteq Nat \ {FakeColumn} /\ Range(all) \subseteq Columns
  <2>1. all \in Seq(Nat \ {FakeColumn})
    BY TreeViewAssumption
  <2> QED
    BY <2>1 DEF Range, Columns
<1>2. Columns \subseteq Nat \ {FakeColumn}
  BY <1>1 DEF Columns
<1>3. ASSUME NEW all \in Versions PROVE all \in Seq(Columns)
  <2>1. all \in Seq(Nat \ {FakeColumn})
    BY TreeViewAssumption
  <2>2. \A i \in 1 .. Len(all) : all[i] \in Columns
    BY <1>1, <2>1 DEF Range
  <2> QED
    BY <2>1, <2>2
<1> QED
  BY <1>2, <1>3

LEMMA KnownIs ==
  ASSUME NEW t, TreeHolds(t), NEW c, Known(t, c)
  PROVE  c \in Columns /\ c # FakeColumn /\ c \in Range(t.order)
<1>1. t.all \in Seq(Columns) /\ c \in Range(t.all)
  BY DEF TreeHolds, Tree, Known
<1>2. c \in Columns
  BY <1>1 DEF Range
<1>3. c \in Range(t.order)
  BY <1>1 DEF TreeHolds
<1> QED
  BY <1>2, <1>3, ColumnsAre

LEMMA OrderIs ==
  ASSUME NEW t, TreeHolds(t)
  PROVE  t.order \in Seq(Position) /\ t.order # <<>> /\ t.all[1] \in Range(t.all)
<1>1. t.all \in Seq(Columns) /\ t.all # <<>> /\ t.order \in Seq(Position)
  BY DEF TreeHolds, Tree
<1>2. t.all[1] \in Range(t.all)
  BY <1>1 DEF Range
<1>3. t.all[1] \in Range(t.order)
  BY <1>2 DEF TreeHolds
<1> QED
  BY <1>1, <1>2, <1>3 DEF Range

\* What may change without further ado.
LEMMA FieldsKept ==
  ASSUME NEW t, TreeHolds(t), NEW u \in Tree, u.all = t.all,
         Range(u.order) \ {FakeColumn} = Range(t.order) \ {FakeColumn}
  PROVE  TreeHolds(u)
BY DEF TreeHolds

\* Something is left in sight, if the preferred column is in the list.
LEMMA VisibilityIs ==
  ASSUME NEW t, TreeHolds(t), NEW p \in Position
  PROVE  LET u == check_columns_visibility(t, p)
         IN  /\ TreeHolds(u) /\ u.all = t.all /\ u.order = t.order
             /\ SomeVisible(t) => SomeVisible(u)
             /\ p = FakeColumn \/ p \in Range(t.order) => SomeVisible(u)
<1> DEFINE c == IF p = FakeColumn THEN t.all[1] ELSE p
           u == check_columns_visibility(t, p)
<1>1. c \in Columns /\ c # FakeColumn
  BY ColumnsAre, OrderIs, KnownIs DEF Known, Position
<1>2. p = FakeColumn \/ p \in Range(t.order) => c \in Range(t.order)
  BY OrderIs, KnownIs DEF Known
<1>3. u = IF SomeVisible(t) THEN t ELSE [t EXCEPT !.visible[c] = TRUE]
  BY DEF check_columns_visibility
<1> HIDE DEF c, u
<1>4. CASE SomeVisible(t)
  BY <1>3, <1>4 DEF u
<1>5. CASE ~SomeVisible(t)
  <2>1. u = [t EXCEPT !.visible[c] = TRUE]
    BY <1>3, <1>5
  <2>2. t \in Tree
    BY DEF TreeHolds
  <2>3. u \in Tree /\ u.all = t.all /\ u.order = t.order
    BY <1>1, <2>1, <2>2 DEF Tree
  <2>4. u.visible[c] = TRUE
    BY <1>1, <2>1, <2>2 DEF Tree
  <2>5. TreeHolds(u)
    BY <2>3, FieldsKept
  <2>6. c \in Range(t.order) => SomeVisible(u)
    BY <1>1, <2>3, <2>4 DEF SomeVisible
  <2> QED
    BY <1>2, <1>5, <2>3, <2>5, <2>6 DEF u
<1> QED
  BY <1>4, <1>5

\* Each of the settings that are loaded leaves the columns and the last of them.
LEMMA ColumnLoads ==
  ASSUME NEW t, TreeHolds(t), NEW s \in SavedColumn
  PROVE  LET u == load_column(s, t)
         IN  /\ TreeHolds(u) /\ u.all = t.all
             /\ Last(t.order) = FakeColumn => Last(u.order) = FakeColumn
<1> DEFINE u == load_column(s, t)
           c == s.name
           rest == Without(t.order, c)
           order == <<c>> \o rest
           w == IF c \in Resizable /\ s.width > 0 THEN s.width ELSE t.fixed_width[c]
<1>1. CASE ~Known(t, c)
  BY <1>1 DEF load_column
<1>2. CASE Known(t, c)
  <2>1. c \in Columns /\ c # FakeColumn /\ c \in Range(t.order) /\ t.order \in Seq(Position) /\ t.order # <<>>
    BY <1>2, KnownIs, OrderIs
  <2>2. /\ rest \in Seq(Position)
        /\ Range(rest) = Range(t.order) \ {c}
        /\ Last(t.order) # c => rest # <<>> /\ Last(rest) = Last(t.order)
    BY <2>1, WithoutHas
  <2>3. t \in Tree /\ s.visible \in BOOLEAN /\ s.width \in Nat
    BY DEF TreeHolds, SavedColumn
  <2>4. w \in Nat
    BY <2>1, <2>3 DEF Tree
  <2>5. u = [t EXCEPT !.order = order, !.visible[c] = s.visible, !.fixed_width[c] = w]
    BY <1>2 DEF load_column, move_column_to_start
  <2> HIDE DEF u, w, rest
  <2>6. order \in Seq(Position) /\ Len(order) = Len(rest) + 1 /\ order[1] = c
        /\ \A i \in 1 .. Len(rest) : order[i + 1] = rest[i]
    BY <2>1, <2>2 DEF Position
  <2>7. Range(order) = Range(rest) \cup {c}
    <3>1. ASSUME NEW d \in Range(order) PROVE d \in Range(rest) \/ d = c
      <4>1. PICK i \in 1 .. Len(order) : order[i] = d
        BY <2>6 DEF Range
      <4>2. i = 1 \/ i - 1 \in 1 .. Len(rest)
        BY <2>2, <2>6
      <4>3. i - 1 \in 1 .. Len(rest) => order[i] = rest[i - 1]
        BY <2>6
      <4> HIDE DEF order
      <4> QED
        BY <2>2, <2>6, <4>1, <4>2, <4>3 DEF Range
    <3>2. c \in Range(order)
      BY <2>2, <2>6 DEF Range
    <3>3. ASSUME NEW d \in Range(rest) PROVE d \in Range(order)
      <4>1. PICK i \in 1 .. Len(rest) : rest[i] = d
        BY <2>2 DEF Range
      <4>2. i + 1 \in 1 .. Len(order) /\ order[i + 1] = d
        BY <2>2, <2>6, <4>1
      <4> HIDE DEF order
      <4> QED
        BY <2>6, <4>2 DEF Range
    <3> QED
      BY <3>1, <3>2, <3>3
  <2>8. ASSUME Last(t.order) = FakeColumn PROVE Last(order) = FakeColumn
    <3>1. rest # <<>> /\ Last(rest) = FakeColumn
      BY <2>1, <2>2, <2>8
    <3>2. Len(rest) \in 1 .. Len(rest) /\ rest[Len(rest)] = FakeColumn
      BY <2>2, <3>1 DEF Last
    <3> HIDE DEF order
    <3> QED
      BY <2>6, <3>2 DEF Last
  <2> HIDE DEF order
  <2>9. u \in Tree /\ u.all = t.all /\ u.order = order
    BY <2>1, <2>3, <2>4, <2>5, <2>6 DEF Tree
  <2>10. Range(order) \ {FakeColumn} = Range(t.order) \ {FakeColumn}
    BY <2>1, <2>2, <2>7
  <2>11. TreeHolds(u)
    BY <2>9, <2>10, FieldsKept
  <2> QED
    BY <2>8, <2>9, <2>11 DEF u
<1> QED
  BY <1>1, <1>2

\* What load_columns() has after each column, from the last to the first.
Loading(t, s, g) ==
  /\ \A n \in 0 .. Len(s.columns) :
       /\ TreeHolds(g[n]) /\ g[n].all = t.all
       /\ Last(t.order) = FakeColumn => Last(g[n].order) = FakeColumn
  /\ g[0] = t
  /\ \A n \in 1 .. Len(s.columns) : g[n] = load_column(s.columns[Len(s.columns) + 1 - n], g[n - 1])

LEMMA ColumnsLoadedBy ==
  ASSUME NEW t, TreeHolds(t), NEW s, SettingsHold(s)
  PROVE  \E g : Loading(t, s, g) /\ load_columns(t, s) = g[Len(s.columns)]
<1> DEFINE N == Len(s.columns)
           X == {u \in Tree : /\ TreeHolds(u) /\ u.all = t.all
                              /\ Last(t.order) = FakeColumn => Last(u.order) = FakeColumn}
           Loaded(u, n) == load_column(s.columns[N + 1 - n], u)
           stepOf == [n \in 1 .. N |-> [u \in X |-> Loaded(u, n)]]
           at[n \in 0 .. N] == IF n = 0 THEN t ELSE load_column(s.columns[N + 1 - n], at[n - 1])
<1>1. load_columns(t, s) = at[N]
  BY DEF load_columns
<1>2. N \in Nat /\ s.columns \in Seq(SavedColumn)
  BY DEF SettingsHold
<1>3. t \in X
  BY DEF TreeHolds
<1>4. ASSUME NEW u \in X, NEW n \in 1 .. N PROVE Loaded(u, n) \in X
  <2>1. N + 1 - n \in 1 .. N
    BY <1>2
  <2>2. s.columns[N + 1 - n] \in SavedColumn
    BY <1>2, <2>1
  <2> HIDE DEF N
  <2>3. /\ TreeHolds(Loaded(u, n)) /\ Loaded(u, n).all = u.all
        /\ Last(u.order) = FakeColumn => Last(Loaded(u, n).order) = FakeColumn
    BY <2>2, ColumnLoads
  <2> QED
    BY <2>3 DEF TreeHolds
<1> HIDE DEF N, X
<1>5. \A u \in X, n \in 1 .. N : stepOf[n][u] = Loaded(u, n)
  OBVIOUS
<1>6. stepOf \in Steps(N, X)
  BY <1>4 DEF Steps
<1> HIDE DEF stepOf
<1>7. PICK g \in [0 .. N -> X] : g[0] = t /\ \A n \in 1 .. N : g[n] = stepOf[n][g[n - 1]]
  <2>1. Runs(N, X, t, stepOf) # {}
    BY <1>2, <1>3, <1>6, Recursion
  <2> QED
    BY <2>1 DEF Runs
<1>8. ASSUME NEW n \in 1 .. N PROVE n - 1 \in 0 .. N /\ g[n] = Loaded(g[n - 1], n)
  <2>1. n - 1 \in 0 .. N
    BY <1>2
  <2> QED
    BY <1>5, <1>7, <2>1
<1>9. g = [n \in 0 .. N |-> IF n = 0 THEN t ELSE Loaded(g[n - 1], n)]
  <2>1. ASSUME NEW n \in 0 .. N PROVE g[n] = IF n = 0 THEN t ELSE Loaded(g[n - 1], n)
    <3>1. n = 0 \/ n \in 1 .. N
      BY <1>2
    <3> QED
      BY <1>7, <1>8, <3>1
  <2> QED
    BY <1>7, <2>1
<1>10. ASSUME NEW n \in 0 .. N PROVE at[n] = IF n = 0 THEN t ELSE Loaded(at[n - 1], n)
  <2> DEFINE Body(m) == IF m = 0 THEN t ELSE Loaded(at[m - 1], m)
  <2>1. at = [m \in 0 .. N |-> Body(m)]
    BY <1>9
  <2> HIDE DEF at, Body
  <2>2. at[n] = Body(n)
    BY <2>1
  <2> QED
    BY <2>2 DEF Body
<1> HIDE DEF at, Loaded
<1>11. Alike(N, at, g)
  <2>1. at[0] = g[0]
    <3>1. 0 \in 0 .. N
      BY <1>2
    <3>2. at[0] = t
      BY <1>10, <3>1
    <3> QED
      BY <1>7, <3>2
  <2>2. ASSUME NEW n \in 1 .. N, at[n - 1] = g[n - 1] PROVE at[n] = g[n]
    <3>1. n \in 0 .. N /\ n # 0
      BY <1>2
    <3>2. at[n] = Loaded(at[n - 1], n)
      BY <1>10, <3>1
    <3> QED
      BY <1>8, <2>2, <3>2
  <2> QED
    BY <2>1, <2>2 DEF Alike
<1>12. at[N] = g[N]
  BY <1>2, <1>11, SameValue
<1>13. Loading(t, s, g)
  <2>1. \A n \in 0 .. N : g[n] \in X
    BY <1>7
  <2>2. \A n \in 1 .. N : g[n] = load_column(s.columns[N + 1 - n], g[n - 1])
    BY <1>8 DEF Loaded
  <2> QED
    BY <1>7, <2>1, <2>2 DEF X, N, Loading
<1> QED
  BY <1>1, <1>12, <1>13 DEF N

LEMMA ColumnsLoad ==
  ASSUME NEW t, TreeHolds(t), NEW s, SettingsHold(s)
  PROVE  LET u == load_columns(t, s)
         IN  /\ TreeHolds(u) /\ u.all = t.all
             /\ Last(t.order) = FakeColumn => Last(u.order) = FakeColumn
<1>1. PICK g : Loading(t, s, g) /\ load_columns(t, s) = g[Len(s.columns)]
  BY ColumnsLoadedBy
<1>2. Len(s.columns) \in 0 .. Len(s.columns)
  BY DEF SettingsHold
<1> QED
  BY <1>1, <1>2 DEF Loading

LEMMA SortLoads ==
  ASSUME NEW t, TreeHolds(t), NEW s, SettingsHold(s)
  PROVE  LET u == load_sort(t, s)
         IN  /\ TreeHolds(u) /\ u.all = t.all /\ u.order = t.order
             /\ u.sort = IF Known(t, s.sort_column) /\ SortId[s.sort_column] >= 0
                           THEN [id |-> SortId[s.sort_column], order |-> s.sort_order]
                           ELSE t.sort
<1> DEFINE u == load_sort(t, s)
<1>1. CASE Known(t, s.sort_column) /\ SortId[s.sort_column] >= 0
  <2>1. SortId[s.sort_column] \in Int
    BY <1>1, KnownIs, TreeViewAssumption
  <2>2. t \in Tree /\ s.sort_order \in Order
    BY DEF TreeHolds, SettingsHold
  <2>3. u = [t EXCEPT !.sort = [id |-> SortId[s.sort_column], order |-> s.sort_order]]
    BY <1>1 DEF load_sort
  <2> HIDE DEF u
  <2>4. /\ u \in Tree /\ u.all = t.all /\ u.order = t.order
        /\ u.sort = [id |-> SortId[s.sort_column], order |-> s.sort_order]
    BY <2>1, <2>2, <2>3 DEF Tree
  <2>5. TreeHolds(u)
    BY <2>4, FieldsKept
  <2> QED
    BY <1>1, <2>4, <2>5 DEF u
<1>2. CASE ~(Known(t, s.sort_column) /\ SortId[s.sort_column] >= 0)
  BY <1>2 DEF load_sort
<1> QED
  BY <1>1, <1>2

LEMMA SettingsLoad ==
  ASSUME NEW t, TreeHolds(t), NEW s, SettingsHold(s)
  PROVE  LET u == load_settings(t, s)
         IN  /\ TreeHolds(u) /\ u.all = t.all /\ SomeVisible(u)
             /\ Last(t.order) = FakeColumn => Last(u.order) = FakeColumn
<1> DEFINE a == load_sort(t, s)
           b == load_columns(a, s)
<1>1. TreeHolds(a) /\ a.all = t.all /\ a.order = t.order
  BY SortLoads
<1> HIDE DEF a
<1>2. /\ TreeHolds(b) /\ b.all = t.all
      /\ Last(t.order) = FakeColumn => Last(b.order) = FakeColumn
  BY <1>1, ColumnsLoad
<1> HIDE DEF b
<1>3. load_settings(t, s) = check_columns_visibility(b, FakeColumn)
  BY DEF load_settings, a, b
<1>4. FakeColumn \in Position
  BY DEF Position
<1> QED
  BY <1>2, <1>3, <1>4, VisibilityIs

\* A list that an application has just made.
LEMMA NewIs ==
  ASSUME NEW all \in Versions
  PROVE  TreeHolds(NewColumns(all)) /\ Last(NewColumns(all).order) = FakeColumn
<1> DEFINE t == NewColumns(all)
           order == Append(all, FakeColumn)
<1>1. all \in Seq(Columns) /\ all # <<>> /\ Distinct(all)
  BY ColumnsAre, TreeViewAssumption DEF Distinct
<1>2. order \in Seq(Position) /\ Len(order) = Len(all) + 1 /\ order[Len(all) + 1] = FakeColumn
      /\ \A i \in 1 .. Len(all) : order[i] = all[i]
  <2>1. all \in Seq(Position)
    BY <1>1 DEF Position
  <2> QED
    BY <2>1 DEF Position
<1>3. t.all = all /\ t.order = order
  BY DEF NewColumns
<1>4. t \in Tree
  BY <1>1, <1>2 DEF NewColumns, Tree, Order, DefaultWidth
<1> HIDE DEF t
<1>5. Range(order) \ {FakeColumn} = Range(all)
  <2>1. \A i \in 1 .. Len(order) : i \in 1 .. Len(all) \/ i = Len(all) + 1
    BY <1>1, <1>2
  <2>2. \A i \in 1 .. Len(all) : i \in 1 .. Len(order)
    BY <1>1, <1>2
  <2>3. \A i \in 1 .. Len(all) : all[i] # FakeColumn
    BY <1>1, ColumnsAre
  <2> HIDE DEF order
  <2>4. DOMAIN order = 1 .. Len(order) /\ DOMAIN all = 1 .. Len(all)
    BY <1>1, <1>2
  <2> QED
    BY <1>2, <2>1, <2>2, <2>3, <2>4 DEF Range
<1>6. Last(order) = FakeColumn
  <2> HIDE DEF order
  <2> QED
    BY <1>2 DEF Last
<1> QED
  BY <1>1, <1>3, <1>4, <1>5, <1>6 DEF TreeHolds, t

LEMMA ListOpens ==
  ASSUME NEW all \in Versions, NEW s, SettingsHold(s)
  PROVE  LET u == Tree_view(all, s)
         IN  TreeHolds(u) /\ SomeVisible(u) /\ Last(u.order) = FakeColumn
BY NewIs, SettingsLoad DEF Tree_view

LEMMA SettingsAre ==
  /\ SettingsHold(NoSettings)
  /\ \A s \in Configurations : SettingsHold(s)
BY TreeViewAssumption DEF SettingsHold, NoSettings, Order

\* What is saved can be loaded.
LEMMA SettingsSave ==
  ASSUME NEW t, TreeHolds(t)
  PROVE  SettingsHold(save_settings(t))
<1> DEFINE real == Real(t.order)
<1>1. t \in Tree /\ t.order \in Seq(Position)
  BY DEF TreeHolds, Tree
<1>2. real \in Seq(Position) /\ Range(real) = Range(t.order) \ {FakeColumn}
  BY <1>1, WithoutHas DEF Real
<1> HIDE DEF real
<1>3. DOMAIN real = 1 .. Len(real) /\ Len(real) \in Nat
  BY <1>2
<1>4. ASSUME NEW i \in 1 .. Len(real) PROVE real[i] \in Columns /\ real[i] \in Nat
  <2>1. real[i] \in Range(real)
    BY <1>3 DEF Range
  <2>2. real[i] \in Position
    BY <1>2
  <2>3. real[i] # FakeColumn
    BY <1>2, <2>1
  <2> QED
    BY <2>2, <2>3, ColumnsAre DEF Position
<1> DEFINE columns == [i \in 1 .. Len(real) |->
                      [name |-> real[i], visible |-> t.visible[real[i]],
                       width |-> IF real[i] \in Resizable THEN t.width[real[i]] ELSE DefaultWidth]]
<1>5. saved_columns(t) = columns
  BY <1>3 DEF saved_columns, real
<1>6. \A i \in 1 .. Len(real) : columns[i] \in SavedColumn
  BY <1>1, <1>4 DEF Tree, SavedColumn, DefaultWidth
<1>7. columns \in [1 .. Len(real) -> SavedColumn]
  BY <1>6
<1> HIDE DEF columns
<1>8. columns \in Seq(SavedColumn)
  BY <1>3, <1>7
<1>9. saved_sort(t).order \in Order
  BY <1>1 DEF saved_sort, Tree, Order
<1> QED
  BY <1>5, <1>8, <1>9 DEF SettingsHold, save_settings

LEMMA MenuKeeps ==
  ASSUME TreeInv, NEW c \in DOMAIN menu
  PROVE  /\ TreeHolds(hide_column(tree, c)) /\ HeaderKept(tree, hide_column(tree, c))
         /\ TreeHolds(show_column(tree, c)) /\ HeaderKept(tree, show_column(tree, c))
<1>1. tree \in Tree /\ c \in Columns /\ c \in Position /\ TreeHolds(tree)
  BY DEF TreeInv, TreeHolds, Position
<1> DEFINE a == [tree EXCEPT !.visible[c] = FALSE]
           b == [tree EXCEPT !.visible[c] = TRUE]
<1>2. /\ a \in Tree /\ a.all = tree.all /\ a.order = tree.order
      /\ \A d \in Columns : a.visible[d] = IF d = c THEN FALSE ELSE tree.visible[d]
  BY <1>1 DEF Tree
<1>3. /\ b \in Tree /\ b.all = tree.all /\ b.order = tree.order
      /\ \A d \in Columns : b.visible[d] = IF d = c THEN TRUE ELSE tree.visible[d]
  BY <1>1 DEF Tree
<1>4. hide_column(tree, c) = check_columns_visibility(a, c) /\ show_column(tree, c) = b
  BY DEF hide_column, show_column
<1> HIDE DEF a, b
<1>5. TreeHolds(a) /\ TreeHolds(b)
  BY <1>1, <1>2, <1>3, FieldsKept
<1>6. \A d \in Range(tree.order) \ {FakeColumn} : d \in Columns
  BY <1>1, KnownIs DEF Known, TreeHolds
<1>7. SomeVisible(tree) => SomeVisible(b)
  BY <1>3, <1>6 DEF SomeVisible
<1>8. SomeVisible(tree) => SomeVisible(a) \/ c \in Range(tree.order)
  BY <1>2, <1>6 DEF SomeVisible
<1> DEFINE u == check_columns_visibility(a, c)
<1>9. TreeHolds(u) /\ u.order = tree.order /\ (SomeVisible(a) \/ c \in Range(tree.order) => SomeVisible(u))
  BY <1>1, <1>2, <1>5, VisibilityIs
<1> HIDE DEF u
<1> QED
  BY <1>3, <1>4, <1>5, <1>7, <1>8, <1>9 DEF HeaderKept, u

\* What is in two lists one behind the other.
LEMMA RangeOf ==
  ASSUME NEW S, NEW a \in Seq(S), NEW b \in Seq(S)
  PROVE  /\ a \o b \in Seq(S) /\ Range(a \o b) = Range(a) \cup Range(b)
         /\ b # <<>> => Last(a \o b) = Last(b)
<1> DEFINE ab == a \o b
<1>1. /\ ab \in Seq(S) /\ Len(ab) = Len(a) + Len(b)
      /\ \A i \in 1 .. Len(a) : ab[i] = a[i]
      /\ \A i \in 1 .. Len(b) : ab[Len(a) + i] = b[i]
  OBVIOUS
<1>2. Len(a) \in Nat /\ Len(b) \in Nat /\ DOMAIN a = 1 .. Len(a) /\ DOMAIN b = 1 .. Len(b)
      /\ DOMAIN ab = 1 .. Len(ab)
  OBVIOUS
<1> HIDE DEF ab
<1>3. ASSUME NEW i \in 1 .. Len(ab)
      PROVE  i \in 1 .. Len(a) \/ (i - Len(a) \in 1 .. Len(b) /\ ab[i] = b[i - Len(a)])
  <2>1. i \in 1 .. Len(a) \/ i - Len(a) \in 1 .. Len(b)
    BY <1>1, <1>2
  <2>2. i = Len(a) + (i - Len(a))
    BY <1>1, <1>2
  <2> DEFINE k == i - Len(a)
  <2>3. i = Len(a) + k
    BY <2>2
  <2>4. i \in 1 .. Len(a) \/ k \in 1 .. Len(b)
    BY <2>1
  <2> HIDE DEF k
  <2>5. k \in 1 .. Len(b) => ab[i] = b[k]
    BY <1>1, <2>3
  <2> QED
    BY <2>4, <2>5 DEF k
<1>4. \A i \in 1 .. Len(a) : i \in 1 .. Len(ab)
  BY <1>1, <1>2
<1>5. \A i \in 1 .. Len(b) : Len(a) + i \in 1 .. Len(ab)
  BY <1>1, <1>2
<1>6. ASSUME NEW d \in Range(ab) PROVE d \in Range(a) \/ d \in Range(b)
  BY <1>1, <1>2, <1>3 DEF Range
<1>7. ASSUME NEW d \in Range(a) PROVE d \in Range(ab)
  BY <1>1, <1>2, <1>4 DEF Range
<1>8. ASSUME NEW d \in Range(b) PROVE d \in Range(ab)
  BY <1>1, <1>2, <1>5 DEF Range
<1>9. ASSUME b # <<>> PROVE Last(ab) = Last(b)
  <2>1. Len(b) \in 1 .. Len(b)
    BY <1>2, <1>9
  <2> QED
    BY <1>1, <2>1 DEF Last
<1> QED
  BY <1>1, <1>6, <1>7, <1>8, <1>9 DEF ab

LEMMA DragKeeps ==
  ASSUME TreeInv, NEW c \in Range(tree.all), NEW right \in 0 .. Len(tree.order), DragColumn(c, right)
  PROVE  TreeHolds(tree') /\ HeaderKept(tree, tree')
<1> DEFINE old == tree.order
           left == SubSeq(old, 1, right - 1)
           rest == SubSeq(old, right, Len(old))
           before == Without(left, c)
           after == Without(rest, c)
           new == before \o <<c>> \o after
<1>1. tree \in Tree /\ TreeHolds(tree) /\ old \in Seq(Position) /\ old # <<>>
  BY OrderIs DEF TreeInv, TreeHolds
<1>2. c \in Columns /\ c # FakeColumn /\ c \in Range(old)
  BY <1>1, KnownIs DEF Known
<1>3. right \in 1 .. Len(old) /\ old[right] # c /\ tree' = [tree EXCEPT !.order = new]
  BY <1>1 DEF DragColumn, column_drag_function
<1>4. left \in Seq(Position) /\ rest \in Seq(Position) /\ Len(rest) = Len(old) - right + 1 /\ Len(left) = right - 1
      /\ (\A i \in 1 .. Len(left) : left[i] = old[i])
      /\ \A i \in 1 .. Len(rest) : rest[i] = old[right + i - 1]
  BY <1>1, <1>3, SubSeqProperties
<1>5. Len(old) \in Nat /\ DOMAIN old = 1 .. Len(old) /\ DOMAIN left = 1 .. Len(left) /\ DOMAIN rest = 1 .. Len(rest)
  BY <1>1, <1>4
<1>6. Last(rest) = Last(old) /\ rest # <<>>
  <2>1. Len(rest) \in 1 .. Len(rest) /\ right + Len(rest) - 1 = Len(old)
    BY <1>3, <1>4, <1>5
  <2> HIDE DEF rest, old
  <2> QED
    BY <1>4, <2>1 DEF Last
<1> HIDE DEF left, rest, old
<1>7. Range(left) \cup Range(rest) = Range(old)
  <2>1. ASSUME NEW i \in 1 .. Len(old) PROVE old[i] \in Range(left) \/ old[i] \in Range(rest)
    <3>1. CASE i < right
      <4>1. i \in 1 .. Len(left)
        BY <1>3, <1>4, <1>5, <3>1
      <4> QED
        BY <1>4, <1>5, <4>1 DEF Range
    <3>2. CASE i >= right
      <4>1. i - right + 1 \in 1 .. Len(rest) /\ right + (i - right + 1) - 1 = i
        BY <1>3, <1>4, <1>5, <3>2
      <4> QED
        BY <1>4, <1>5, <4>1 DEF Range
    <3> QED
      BY <1>3, <1>5, <3>1, <3>2
  <2>2. ASSUME NEW i \in 1 .. Len(left) PROVE left[i] \in Range(old)
    <3>1. i \in 1 .. Len(old)
      BY <1>3, <1>4, <1>5
    <3> QED
      BY <1>4, <1>5, <3>1 DEF Range
  <2>3. ASSUME NEW i \in 1 .. Len(rest) PROVE rest[i] \in Range(old)
    <3>1. right + i - 1 \in 1 .. Len(old)
      BY <1>3, <1>4, <1>5
    <3> QED
      BY <1>4, <1>5, <3>1 DEF Range
  <2>4. ASSUME NEW d \in Range(old) PROVE d \in Range(left) \/ d \in Range(rest)
    BY <1>5, <2>1 DEF Range
  <2>5. ASSUME NEW d, d \in Range(left) \/ d \in Range(rest) PROVE d \in Range(old)
    <3>1. CASE d \in Range(left)
      <4>1. PICK i \in 1 .. Len(left) : d = left[i]
        BY <1>5, <3>1 DEF Range
      <4> QED
        BY <2>2, <4>1
    <3>2. CASE d \in Range(rest)
      <4>1. PICK i \in 1 .. Len(rest) : d = rest[i]
        BY <1>5, <3>2 DEF Range
      <4> QED
        BY <2>3, <4>1
    <3> QED
      BY <2>5, <3>1, <3>2
  <2> QED
    BY <2>4, <2>5
<1>8. before \in Seq(Position) /\ Range(before) = Range(left) \ {c}
  BY <1>4, WithoutHas
<1>9. /\ after \in Seq(Position) /\ Range(after) = Range(rest) \ {c}
      /\ Last(rest) # c => after # <<>> /\ Last(after) = Last(rest)
  BY <1>4, <1>6, WithoutHas
<1> HIDE DEF before, after
<1>10. <<c>> \in Seq(Position) /\ Range(<<c>>) = {c} /\ <<c>> # <<>>
  <2>1. c \in Position
    BY <1>2 DEF Position
  <2>2. <<c>> \in Seq(Position) /\ Len(<<c>>) = 1 /\ <<c>>[1] = c
    BY <2>1
  <2>3. DOMAIN <<c>> = {1}
    OBVIOUS
  <2>4. Range(<<c>>) = {c}
    BY <2>2, <2>3 DEF Range
  <2>5. <<c>> # <<>>
    OBVIOUS
  <2> QED
    BY <2>2, <2>4, <2>5
<1>11. before \o <<c>> \in Seq(Position) /\ Range(before \o <<c>>) = Range(before) \cup {c}
  <2> DEFINE one == <<c>>
  <2>1. one \in Seq(Position) /\ Range(one) = {c}
    BY <1>10
  <2> HIDE DEF one
  <2>2. before \o one \in Seq(Position) /\ Range(before \o one) = Range(before) \cup Range(one)
    BY <1>8, <2>1, RangeOf
  <2> QED
    BY <2>1, <2>2 DEF one
<1>12. /\ new \in Seq(Position) /\ Range(new) = Range(before \o <<c>>) \cup Range(after)
       /\ after # <<>> => Last(new) = Last(after)
  <2> DEFINE e == before \o <<c>>
  <2>1. e \in Seq(Position)
    BY <1>11
  <2> HIDE DEF e
  <2>2. /\ e \o after \in Seq(Position) /\ Range(e \o after) = Range(e) \cup Range(after)
        /\ after # <<>> => Last(e \o after) = Last(after)
    BY <1>9, <2>1, RangeOf
  <2> QED
    BY <2>2 DEF e
<1> HIDE DEF new
<1>13. Range(new) = Range(old)
  BY <1>2, <1>7, <1>8, <1>9, <1>11, <1>12
<1>14. Last(old) = FakeColumn => Last(new) = FakeColumn
  BY <1>2, <1>6, <1>9, <1>12
<1>15. tree' \in Tree /\ tree'.all = tree.all /\ tree'.order = new /\ tree'.visible = tree.visible
  BY <1>1, <1>3, <1>12 DEF Tree
<1>16. TreeHolds(tree')
  BY <1>1, <1>13, <1>15, FieldsKept DEF old
<1>17. SomeVisible(tree) => SomeVisible(tree')
  BY <1>13, <1>15 DEF SomeVisible, old
<1> QED
  BY <1>14, <1>15, <1>16, <1>17 DEF HeaderKept, old

LEMMA RemoveColumnKeeps ==
  ASSUME TreeInv, NEW c \in Range(tree.all), RemoveColumn(c)
  PROVE  TreeHolds(tree') /\ HeaderKept(tree, tree')
<1> DEFINE all == Without(tree.all, c)
           order == Without(tree.order, c)
<1>1. /\ tree \in Tree /\ TreeHolds(tree) /\ tree.order \in Seq(Position) /\ tree.order # <<>>
      /\ tree.all \in Seq(Columns) /\ Distinct(tree.all)
  BY OrderIs DEF TreeInv, TreeHolds, Tree
<1>2. c \in Columns /\ c # FakeColumn
  BY <1>1, KnownIs DEF Known
<1>3. Len(tree.all) > 1 /\ tree' = [tree EXCEPT !.order = order, !.all = all]
  BY DEF RemoveColumn
<1>4. /\ all \in Seq(Columns) /\ Range(all) = Range(tree.all) \ {c} /\ Distinct(all)
      /\ Len(all) < Len(tree.all)
  BY <1>1, WithoutHas
<1>5. /\ order \in Seq(Position) /\ Range(order) = Range(tree.order) \ {c}
      /\ Last(tree.order) # c => Last(order) = Last(tree.order)
  BY <1>1, WithoutHas
<1> HIDE DEF all, order
<1>6. all # <<>>
  <2>1. 1 \in 1 .. Len(tree.all) /\ 2 \in 1 .. Len(tree.all)
    BY <1>1, <1>3
  <2>2. tree.all[1] # tree.all[2]
    BY <1>1, <2>1 DEF Distinct
  <2>3. tree.all[1] \in Range(tree.all) /\ tree.all[2] \in Range(tree.all)
    BY <1>1, <2>1 DEF Range
  <2>4. \E d : d \in Range(all)
    BY <1>4, <2>2, <2>3
  <2> QED
    BY <2>4 DEF Range
<1>7. tree' \in Tree /\ tree'.all = all /\ tree'.order = order
  BY <1>1, <1>3, <1>4, <1>5 DEF Tree
<1>8. Range(order) \ {FakeColumn} = Range(all)
  BY <1>1, <1>2, <1>4, <1>5 DEF TreeHolds
<1> QED
  BY <1>2, <1>4, <1>5, <1>6, <1>7, <1>8 DEF TreeHolds, HeaderKept

LEMMA SightKeeps ==
  ASSUME TreeInv, NEW u \in Tree, u.all = tree.all, u.order = tree.order, u.visible = tree.visible
  PROVE  TreeHolds(u) /\ HeaderKept(tree, u)
BY FieldsKept DEF TreeInv, HeaderKept, SomeVisible

LEMMA TreeKeeps ==
  ASSUME TreeInv, TreeNext
  PROVE  TreeInv' /\ HeaderKept(tree, tree')
<1> USE DEF TreeInv
<1>1. tree \in Tree /\ HeaderKept(tree, tree)
  BY DEF TreeHolds, HeaderKept
<1>2. CASE HeaderMenu
  <2>1. tree' = tree /\ settings' = settings /\ DOMAIN menu' = Range(tree.all)
    BY <1>2 DEF HeaderMenu
  <2>2. Range(tree.all) \subseteq Columns
    BY KnownIs DEF Known
  <2> QED
    BY <1>1, <2>1, <2>2
<1>3. ASSUME NEW c \in Columns, ActivateMenuItem(c) PROVE TreeInv' /\ HeaderKept(tree, tree')
  <2>1. c \in DOMAIN menu /\ menu' = NoMenu /\ settings' = settings
        /\ (tree' = hide_column(tree, c) \/ tree' = show_column(tree, c))
    BY <1>3 DEF ActivateMenuItem
  <2>2. DOMAIN NoMenu \subseteq Columns
    BY DEF NoMenu
  <2>3. TreeHolds(tree') /\ HeaderKept(tree, tree')
    BY <2>1, MenuKeeps
  <2> QED
    BY <2>1, <2>2, <2>3
<1>4. ASSUME NEW c \in Range(tree.all), NEW right \in 0 .. Len(tree.order), DragColumn(c, right)
      PROVE  TreeInv' /\ HeaderKept(tree, tree')
  <2>1. menu' = menu /\ settings' = settings
    BY <1>4 DEF DragColumn
  <2> QED
    BY <1>4, <2>1, DragKeeps
<1>5. CASE Layout
  <2> DEFINE width == [c \in Columns |-> IF c \in Range(tree.order) /\ tree.visible[c]
                                           THEN tree.fixed_width[c] ELSE tree.width[c]]
  <2>1. tree' = [tree EXCEPT !.width = width] /\ menu' = menu /\ settings' = settings
    BY <1>5 DEF Layout
  <2>2. width \in [Columns -> Nat]
    BY <1>1 DEF Tree
  <2> HIDE DEF width
  <2>3. tree' \in Tree /\ tree'.all = tree.all /\ tree'.order = tree.order /\ tree'.visible = tree.visible
    BY <1>1, <2>1, <2>2 DEF Tree
  <2> QED
    BY <2>1, <2>3, SightKeeps
<1>6. ASSUME NEW c \in Range(tree.all), NEW w \in Widths, ResizeColumn(c, w)
      PROVE  TreeInv' /\ HeaderKept(tree, tree')
  <2>1. c \in Columns /\ w \in Nat
    BY KnownIs, TreeViewAssumption DEF Known
  <2>2. tree' = [tree EXCEPT !.fixed_width[c] = w, !.width[c] = w] /\ menu' = menu /\ settings' = settings
    BY <1>6 DEF ResizeColumn
  <2>3. tree' \in Tree /\ tree'.all = tree.all /\ tree'.order = tree.order /\ tree'.visible = tree.visible
    BY <1>1, <2>1, <2>2 DEF Tree
  <2> QED
    BY <2>2, <2>3, SightKeeps
<1>7. ASSUME NEW c \in Range(tree.all), NEW order \in Order, SortBy(c, order)
      PROVE  TreeInv' /\ HeaderKept(tree, tree')
  <2>1. SortId[c] \in Int
    BY KnownIs, TreeViewAssumption DEF Known
  <2>2. tree' = [tree EXCEPT !.sort = [id |-> SortId[c], order |-> order]] /\ menu' = menu /\ settings' = settings
    BY <1>7 DEF SortBy
  <2>3. tree' \in Tree /\ tree'.all = tree.all /\ tree'.order = tree.order /\ tree'.visible = tree.visible
    BY <1>1, <2>1, <2>2 DEF Tree
  <2> QED
    BY <2>2, <2>3, SightKeeps
<1>8. ASSUME NEW c \in Range(tree.all), RemoveColumn(c) PROVE TreeInv' /\ HeaderKept(tree, tree')
  <2>1. menu' = menu /\ settings' = settings
    BY <1>8 DEF RemoveColumn
  <2> QED
    BY <1>8, <2>1, RemoveColumnKeeps
<1>9. ASSUME NEW s \in Configurations, LoadSettings(s) PROVE TreeInv' /\ HeaderKept(tree, tree')
  <2>1. tree' = load_settings(tree, s) /\ menu' = menu /\ settings' = settings
    BY <1>9 DEF LoadSettings
  <2>2. SettingsHold(s)
    BY SettingsAre
  <2> QED
    BY <2>1, <2>2, SettingsLoad DEF HeaderKept
<1>10. CASE EndSession
  <2>1. tree' = tree /\ menu' = NoMenu /\ settings' = save_settings(tree)
    BY <1>10 DEF EndSession
  <2>2. DOMAIN NoMenu \subseteq Columns
    BY DEF NoMenu
  <2>3. SettingsHold(save_settings(tree))
    BY SettingsSave
  <2> QED
    BY <1>1, <2>1, <2>2, <2>3
<1>11. ASSUME NEW all \in Versions, NextSession(all) PROVE TreeInv' /\ HeaderKept(tree, tree')
  <2>1. tree' = Tree_view(all, settings) /\ menu' = menu /\ settings' = NoSettings
    BY <1>11 DEF NextSession
  <2> QED
    BY <2>1, SettingsAre, ListOpens DEF HeaderKept
<1> QED
  BY <1>2, <1>3, <1>4, <1>5, <1>6, <1>7, <1>8, <1>9, <1>10, <1>11 DEF TreeNext

\* For any versions of the application, any settings and any number of sessions:
\* no menu, however old, and no settings leave the list without a column, and
\* the fake column stays the last one.
THEOREM HeaderIsThere == TreeSpec => HeaderStays
<1>1. TreeInit => TreeInv
  <2> SUFFICES ASSUME TreeInit PROVE TreeInv
    OBVIOUS
  <2>1. PICK all \in Versions, s \in Configurations \cup {NoSettings} : tree = Tree_view(all, s)
    BY DEF TreeInit
  <2>2. SettingsHold(s)
    BY SettingsAre
  <2> QED
    BY <2>1, <2>2, SettingsAre, ListOpens DEF TreeInit, TreeInv, NoMenu
<1>2. TreeInv /\ [TreeNext]_treeVars => TreeInv'
  <2>1. CASE TreeNext
    BY <2>1, TreeKeeps
  <2>2. CASE UNCHANGED treeVars
    BY <2>2 DEF treeVars, TreeInv
  <2> QED
    BY <2>1, <2>2
<1>3. TreeInv /\ [TreeNext]_treeVars =>
        [/\ SomeVisible(tree) /\ ~SomeVisible(tree)' => Len(tree.all') < Len(tree.all)
         /\ Last(tree.order) = FakeColumn => Last(tree.order)' = FakeColumn]_treeVars
  BY TreeKeeps DEF HeaderKept
<1> QED
  BY <1>1, <1>2, <1>3, PTL DEF TreeSpec, HeaderStays

-----------------------------------------------------------------------------
\* The order of columns: which stands before which.
BeforeTo(order, n, d, e) == \E i, j \in 1 .. n : i < j /\ order[i] = d /\ order[j] = e

LEMMA BeforeIs ==
  ASSUME NEW S, NEW order \in Seq(S), NEW d, NEW e
  PROVE  Before(order, d, e) <=> BeforeTo(order, Len(order), d, e)
<1>1. DOMAIN order = 1 .. Len(order)
  OBVIOUS
<1> QED
  BY <1>1 DEF Before, BeforeTo

LEMMA DistinctIs ==
  ASSUME NEW S, NEW order \in Seq(S)
  PROVE  /\ Distinct(order) <=> \A d : ~Before(order, d, d)
         /\ Distinct(order) => \A d, e : ~(Before(order, d, e) /\ Before(order, e, d))
<1>1. DOMAIN order = 1 .. Len(order) /\ Len(order) \in Nat
  OBVIOUS
<1>2. ASSUME Distinct(order), NEW d PROVE ~Before(order, d, d)
  BY <1>1, <1>2 DEF Distinct, Before
<1>3. ASSUME \A d : ~Before(order, d, d) PROVE Distinct(order)
  <2> SUFFICES ASSUME NEW i \in 1 .. Len(order), NEW j \in 1 .. Len(order), order[i] = order[j], i # j
               PROVE  FALSE
    BY DEF Distinct
  <2>1. i < j \/ j < i
    OBVIOUS
  <2>2. i \in DOMAIN order /\ j \in DOMAIN order
    BY <1>1
  <2>3. Before(order, order[i], order[j])
    BY <2>1, <2>2 DEF Before
  <2> QED
    BY <1>3, <2>3
<1>4. ASSUME Distinct(order), NEW d, NEW e, Before(order, d, e), Before(order, e, d) PROVE FALSE
  <2>1. PICK i \in DOMAIN order, j \in DOMAIN order : i < j /\ order[i] = d /\ order[j] = e
    BY <1>4 DEF Before
  <2>2. PICK k \in DOMAIN order, l \in DOMAIN order : k < l /\ order[k] = e /\ order[l] = d
    BY <1>4 DEF Before
  <2>3. i = l /\ j = k
    BY <1>1, <1>4, <2>1, <2>2 DEF Distinct
  <2> QED
    BY <1>1, <2>1, <2>2, <2>3
<1> QED
  BY <1>2, <1>3, <1>4

\* In two lists one behind the other.
LEMMA BeforeOf ==
  ASSUME NEW S, NEW a \in Seq(S), NEW b \in Seq(S), NEW d, NEW e
  PROVE  Before(a \o b, d, e) <=>
           Before(a, d, e) \/ Before(b, d, e) \/ (d \in Range(a) /\ e \in Range(b))
<1> DEFINE ab == a \o b
           A == Len(a)
<1>1. /\ ab \in Seq(S) /\ Len(ab) = A + Len(b)
      /\ \A i \in 1 .. A : ab[i] = a[i]
      /\ \A i \in 1 .. Len(b) : ab[A + i] = b[i]
  OBVIOUS
<1>2. /\ A \in Nat /\ Len(b) \in Nat /\ DOMAIN a = 1 .. A /\ DOMAIN b = 1 .. Len(b)
      /\ DOMAIN ab = 1 .. A + Len(b)
  BY <1>1
<1> HIDE DEF ab, A
<1>3. \A i \in 1 .. A : i \in 1 .. A + Len(b)
  BY <1>2
<1>4. \A i \in 1 .. Len(b) : A + i \in 1 .. A + Len(b)
  BY <1>2
<1>5. ASSUME NEW i \in 1 .. A + Len(b), i \notin 1 .. A
      PROVE  \E k \in 1 .. Len(b) : i = A + k
  <2>1. i - A \in 1 .. Len(b) /\ i = A + (i - A)
    BY <1>2, <1>5
  <2> QED
    BY <2>1
<1>6. ASSUME Before(a, d, e) PROVE Before(ab, d, e)
  <2>1. PICK i \in 1 .. A, j \in 1 .. A : i < j /\ a[i] = d /\ a[j] = e
    BY <1>2, <1>6 DEF Before
  <2>2. ab[i] = d /\ ab[j] = e
    BY <1>1, <2>1
  <2> QED
    BY <1>2, <1>3, <2>1, <2>2 DEF Before
<1>7. ASSUME Before(b, d, e) PROVE Before(ab, d, e)
  <2>1. PICK i \in 1 .. Len(b), j \in 1 .. Len(b) : i < j /\ b[i] = d /\ b[j] = e
    BY <1>2, <1>7 DEF Before
  <2>2. ab[A + i] = d /\ ab[A + j] = e /\ A + i < A + j
    BY <1>1, <1>2, <2>1
  <2> QED
    BY <1>2, <1>4, <2>2 DEF Before
<1>8. ASSUME d \in Range(a), e \in Range(b) PROVE Before(ab, d, e)
  <2>1. PICK i \in 1 .. A : a[i] = d
    BY <1>2, <1>8 DEF Range
  <2>2. PICK j \in 1 .. Len(b) : b[j] = e
    BY <1>2, <1>8 DEF Range
  <2>3. ab[i] = d /\ ab[A + j] = e /\ i < A + j
    BY <1>1, <1>2, <2>1, <2>2
  <2> QED
    BY <1>2, <1>3, <1>4, <2>3 DEF Before
<1>9. ASSUME Before(ab, d, e)
      PROVE  Before(a, d, e) \/ Before(b, d, e) \/ (d \in Range(a) /\ e \in Range(b))
  <2>1. PICK i \in 1 .. A + Len(b), j \in 1 .. A + Len(b) : i < j /\ ab[i] = d /\ ab[j] = e
    BY <1>2, <1>9 DEF Before
  <2>2. CASE i \in 1 .. A /\ j \in 1 .. A
    <3>1. a[i] = d /\ a[j] = e
      BY <1>1, <2>1, <2>2
    <3> QED
      BY <1>2, <2>1, <2>2, <3>1 DEF Before
  <2>3. CASE i \in 1 .. A /\ j \notin 1 .. A
    <3>1. PICK k \in 1 .. Len(b) : j = A + k
      BY <1>5, <2>3
    <3>2. a[i] = d /\ b[k] = e
      BY <1>1, <2>1, <2>3, <3>1
    <3> QED
      BY <1>2, <2>3, <3>2 DEF Range
  <2>4. CASE i \notin 1 .. A
    <3>1. PICK k \in 1 .. Len(b) : i = A + k
      BY <1>5, <2>4
    <3>2. j \notin 1 .. A
      BY <1>2, <2>1, <3>1
    <3>3. PICK l \in 1 .. Len(b) : j = A + l
      BY <1>5, <3>2
    <3>4. b[k] = d /\ b[l] = e /\ k < l
      BY <1>1, <1>2, <2>1, <3>1, <3>3
    <3> QED
      BY <1>2, <3>4 DEF Before
  <2> QED
    BY <2>2, <2>3, <2>4
<1> QED
  BY <1>6, <1>7, <1>8, <1>9 DEF ab

\* A column in front of a list.
LEMMA OneIs ==
  ASSUME NEW S, NEW c \in S
  PROVE  <<c>> \in Seq(S) /\ Range(<<c>>) = {c} /\ \A d, e : ~Before(<<c>>, d, e)
<1>1. <<c>> \in Seq(S) /\ Len(<<c>>) = 1 /\ <<c>>[1] = c /\ DOMAIN <<c>> = {1}
  OBVIOUS
<1>2. Range(<<c>>) = {c}
  BY <1>1 DEF Range
<1>3. ASSUME NEW d, NEW e, Before(<<c>>, d, e) PROVE FALSE
  <2>1. PICK i \in {1}, j \in {1} : i < j
    BY <1>1, <1>3 DEF Before
  <2> QED
    BY <2>1
<1> QED
  BY <1>1, <1>2, <1>3

LEMMA BeforeAppended ==
  ASSUME NEW S, NEW a \in Seq(S), NEW c \in S, NEW d, NEW e
  PROVE  Before(Append(a, c), d, e) <=> Before(a, d, e) \/ (d \in Range(a) /\ e = c)
<1> DEFINE one == <<c>>
<1>1. Append(a, c) = a \o one
  OBVIOUS
<1>2. one \in Seq(S) /\ Range(one) = {c} /\ ~Before(one, d, e)
  BY OneIs
<1> HIDE DEF one
<1> QED
  BY <1>1, <1>2, BeforeOf

\* Without() keeps the order of the others: after n columns, by induction.
SeenTo(order, n, d) == \E i \in 1 .. n : order[i] = d

SieveOrder(order, c, n, some) ==
  /\ \A d : d \in Range(some) <=> d # c /\ SeenTo(order, n, d)
  /\ \A d, e : Before(some, d, e) <=> d # c /\ e # c /\ BeforeTo(order, n, d, e)

LEMMA BeforeToNext ==
  ASSUME NEW order, NEW n \in Nat \ {0}, NEW d, NEW e
  PROVE  BeforeTo(order, n, d, e) <=>
           BeforeTo(order, n - 1, d, e) \/ (e = order[n] /\ SeenTo(order, n - 1, d))
<1>1. n \in 1 .. n /\ \A i \in 1 .. (n - 1) : i \in 1 .. n /\ i < n
  OBVIOUS
<1>2. ASSUME NEW i \in 1 .. n, NEW j \in 1 .. n, i < j
      PROVE  i \in 1 .. (n - 1) /\ (j = n \/ j \in 1 .. (n - 1))
  BY <1>2
<1> QED
  BY <1>1, <1>2 DEF BeforeTo, SeenTo

LEMMA SieveOrderStep ==
  ASSUME NEW S, NEW order \in Seq(S), NEW c, NEW n \in 1 .. Len(order),
         NEW some \in Seq(S), SieveOrder(order, c, n - 1, some),
         NEW more, more = IF order[n] = c THEN some ELSE Append(some, order[n])
  PROVE  SieveOrder(order, c, n, more)
<1>1. n \in Nat \ {0} /\ order[n] \in S
  OBVIOUS
<1>2. \A i : i \in 1 .. n <=> i = n \/ i \in 1 .. (n - 1)
  BY <1>1
<1>3. ASSUME NEW d, NEW e
      PROVE  BeforeTo(order, n, d, e) <=>
               BeforeTo(order, n - 1, d, e) \/ (e = order[n] /\ SeenTo(order, n - 1, d))
  BY <1>1, BeforeToNext
<1>4. ASSUME NEW d
      PROVE  SeenTo(order, n, d) <=> order[n] = d \/ SeenTo(order, n - 1, d)
  BY <1>2 DEF SeenTo
<1>5. ASSUME NEW d PROVE d \in Range(some) <=> d # c /\ SeenTo(order, n - 1, d)
  BY DEF SieveOrder
<1>6. ASSUME NEW d, NEW e PROVE Before(some, d, e) <=> d # c /\ e # c /\ BeforeTo(order, n - 1, d, e)
  BY DEF SieveOrder
<1>7. CASE order[n] = c
  <2>1. more = some
    BY <1>7
  <2>2. ASSUME NEW d PROVE d \in Range(some) <=> d # c /\ SeenTo(order, n, d)
    BY <1>4, <1>5, <1>7
  <2>3. ASSUME NEW d, NEW e PROVE Before(some, d, e) <=> d # c /\ e # c /\ BeforeTo(order, n, d, e)
    BY <1>3, <1>6, <1>7
  <2> QED
    BY <2>1, <2>2, <2>3 DEF SieveOrder
<1>8. CASE order[n] # c
  <2> DEFINE one == <<order[n]>>
  <2>1. more = some \o one
    BY <1>1, <1>8
  <2>2. one \in Seq(S) /\ Range(one) = {order[n]} /\ \A d, e : ~Before(one, d, e)
    BY <1>1, OneIs
  <2> HIDE DEF one
  <2>3. Range(more) = Range(some) \cup {order[n]}
    <3>1. Range(some \o one) = Range(some) \cup Range(one)
      BY <2>2, RangeOf
    <3> QED
      BY <2>1, <2>2, <3>1
  <2>4. ASSUME NEW d PROVE d \in Range(more) <=> d # c /\ SeenTo(order, n, d)
    BY <1>8, <1>4, <1>5, <2>3
  <2>5. ASSUME NEW d, NEW e
        PROVE  Before(more, d, e) <=> Before(some, d, e) \/ (d \in Range(some) /\ e = order[n])
    <3>1. Before(some \o one, d, e) <=>
            Before(some, d, e) \/ Before(one, d, e) \/ (d \in Range(some) /\ e \in Range(one))
      BY <2>2, BeforeOf
    <3> QED
      BY <2>1, <2>2, <3>1
  <2>6. ASSUME NEW d, NEW e PROVE Before(more, d, e) <=> d # c /\ e # c /\ BeforeTo(order, n, d, e)
    BY <1>3, <1>8, <1>5, <1>6, <2>5
  <2> QED
    BY <2>4, <2>6 DEF SieveOrder
<1> QED
  BY <1>7, <1>8

LEMMA WithoutOrder ==
  ASSUME NEW S, NEW order \in Seq(S), NEW c
  PROVE  \A d, e : Before(Without(order, c), d, e) <=> d # c /\ e # c /\ Before(order, d, e)
<1>1. PICK g : Sieved(S, order, c, g) /\ Without(order, c) = g[Len(order)]
  BY WithoutIs
<1> DEFINE N == Len(order)
           W == {n \in 0 .. N : SieveOrder(order, c, n, g[n])}
<1>2. N \in Nat
  OBVIOUS
<1>3. \A n \in 0 .. N : g[n] \in Seq(S)
  BY <1>1 DEF Sieved
<1>4. 0 \in W
  <2>1. g[0] = <<>>
    BY <1>1 DEF Sieved
  <2>2. Range(<<>>) = {} /\ \A d, e : ~Before(<<>>, d, e)
    BY DEF Range, Before
  <2>3. \A d, e : ~BeforeTo(order, 0, d, e)
    BY DEF BeforeTo
  <2>4. \A d : ~SeenTo(order, 0, d)
    BY DEF SeenTo
  <2>5. SieveOrder(order, c, 0, <<>>)
    BY <2>2, <2>3, <2>4 DEF SieveOrder
  <2> QED
    BY <1>2, <2>1, <2>5
<1>5. ASSUME NEW n \in 1 .. N, n - 1 \in W
      PROVE  n \in W
  <2>1. g[n] = IF order[n] = c THEN g[n - 1] ELSE Append(g[n - 1], order[n])
    BY <1>1 DEF Sieved
  <2>2. g[n - 1] \in Seq(S) /\ SieveOrder(order, c, n - 1, g[n - 1])
    BY <1>3, <1>5
  <2>3. SieveOrder(order, c, n, g[n])
    BY <2>1, <2>2, SieveOrderStep
  <2> QED
    BY <1>2, <2>3
<1>6. N \in W
  <2> HIDE DEF W, N
  <2>1. \A n \in 1 .. N : n - 1 \in W => n \in W
    BY <1>5
  <2> QED
    <3>1. 0 .. N \subseteq W
      BY <1>2, <1>4, <2>1, UpTo
    <3>2. N \in 0 .. N
      BY <1>2
    <3> QED
      BY <3>1, <3>2
<1>7. SieveOrder(order, c, Len(order), Without(order, c))
  BY <1>1, <1>6
<1>8. \A d, e : Before(order, d, e) <=> BeforeTo(order, Len(order), d, e)
  BY BeforeIs
<1> QED
  BY <1>7, <1>8 DEF SieveOrder

-----------------------------------------------------------------------------
\* A column that is loaded comes before the others, and gets what was saved of it.
LEMMA ColumnLoadsIn ==
  ASSUME NEW t, TreeHolds(t), NEW s \in SavedColumn, Known(t, s.name)
  PROVE  LET u == load_column(s, t)
             c == s.name
         IN  /\ u.sort = t.sort
             /\ \A d, e : Before(u.order, d, e) <=> \/ d = c /\ e # c /\ e \in Range(t.order)
                                                    \/ d # c /\ e # c /\ Before(t.order, d, e)
             /\ \A d \in Columns : u.visible[d] = IF d = c THEN s.visible ELSE t.visible[d]
             /\ \A d \in Columns : d # c => u.fixed_width[d] = t.fixed_width[d]
             /\ c \in Resizable /\ s.width > 0 => u.fixed_width[c] = s.width
<1> DEFINE u == load_column(s, t)
           c == s.name
           rest == Without(t.order, c)
           one == <<c>>
           w == IF c \in Resizable /\ s.width > 0 THEN s.width ELSE t.fixed_width[c]
<1>1. c \in Columns /\ c \in Position /\ t.order \in Seq(Position) /\ t \in Tree
  BY KnownIs, OrderIs DEF TreeHolds, Position
<1>2. u = [t EXCEPT !.order = one \o rest, !.visible[c] = s.visible, !.fixed_width[c] = w]
  BY DEF load_column, move_column_to_start
<1> HIDE DEF w, u
<1>3. u.sort = t.sort /\ u.order = one \o rest
  BY <1>1, <1>2 DEF Tree
<1>4. \A d \in Columns : u.visible[d] = IF d = c THEN s.visible ELSE t.visible[d]
  BY <1>1, <1>2 DEF Tree
<1>5. \A d \in Columns : u.fixed_width[d] = IF d = c THEN w ELSE t.fixed_width[d]
  BY <1>1, <1>2 DEF Tree
<1>6. /\ rest \in Seq(Position) /\ Range(rest) = Range(t.order) \ {c}
      /\ \A d, e : Before(rest, d, e) <=> d # c /\ e # c /\ Before(t.order, d, e)
  BY <1>1, WithoutHas, WithoutOrder
<1>7. one \in Seq(Position) /\ Range(one) = {c} /\ \A d, e : ~Before(one, d, e)
  BY <1>1, OneIs
<1> HIDE DEF one, rest
<1>8. ASSUME NEW d, NEW e
      PROVE  Before(u.order, d, e) <=> \/ d = c /\ e # c /\ e \in Range(t.order)
                                       \/ d # c /\ e # c /\ Before(t.order, d, e)
  <2>1. Before(one \o rest, d, e) <=>
          Before(one, d, e) \/ Before(rest, d, e) \/ (d \in Range(one) /\ e \in Range(rest))
    BY <1>6, <1>7, BeforeOf
  <2>2. Before(one \o rest, d, e) <=>
          (d # c /\ e # c /\ Before(t.order, d, e)) \/ (d = c /\ e # c /\ e \in Range(t.order))
    BY <1>6, <1>7, <2>1
  <2> QED
    BY <1>3, <2>2
<1>9. c \in Resizable /\ s.width > 0 => u.fixed_width[c] = s.width
  BY <1>1, <1>5 DEF w
<1> QED
  BY <1>3, <1>4, <1>5, <1>8, <1>9 DEF u

\* Whatever is loaded, each column stays in the header once, and the sorting.
LEMMA ColumnLoadsTidily ==
  ASSUME NEW t, TreeHolds(t), Distinct(t.order), NEW s \in SavedColumn
  PROVE  LET u == load_column(s, t) IN Distinct(u.order) /\ u.sort = t.sort
<1> DEFINE u == load_column(s, t)
           c == s.name
<1>1. CASE ~Known(t, c)
  BY <1>1 DEF load_column
<1>2. CASE Known(t, c)
  <2>1. /\ u.sort = t.sort
        /\ \A d, e : Before(u.order, d, e) <=> \/ d = c /\ e # c /\ e \in Range(t.order)
                                               \/ d # c /\ e # c /\ Before(t.order, d, e)
    BY <1>2, ColumnLoadsIn
  <2>2. TreeHolds(u)
    BY ColumnLoads
  <2> HIDE DEF u
  <2>3. u.order \in Seq(Position) /\ t.order \in Seq(Position)
    BY <2>2 DEF TreeHolds, Tree
  <2>4. \A d : ~Before(t.order, d, d)
    BY <2>3, DistinctIs
  <2>5. \A d : ~Before(u.order, d, d)
    BY <2>1, <2>4
  <2>6. Distinct(u.order)
    BY <2>3, <2>5, DistinctIs
  <2> QED
    BY <2>1, <2>6 DEF u
<1> QED
  BY <1>1, <1>2

LEMMA ColumnsLoadTidily ==
  ASSUME NEW t, TreeHolds(t), Distinct(t.order), NEW s, SettingsHold(s)
  PROVE  LET u == load_columns(t, s) IN Distinct(u.order) /\ u.sort = t.sort
<1>1. PICK g : Loading(t, s, g) /\ load_columns(t, s) = g[Len(s.columns)]
  BY ColumnsLoadedBy
<1> DEFINE N == Len(s.columns)
           W == {n \in 0 .. N : Distinct(g[n].order) /\ g[n].sort = t.sort}
<1>2. N \in Nat /\ \A i \in 1 .. N : s.columns[i] \in SavedColumn
  BY DEF SettingsHold
<1>3. 0 \in W
  <2>1. g[0] = t
    BY <1>1 DEF Loading
  <2> QED
    BY <1>2, <2>1
<1>4. ASSUME NEW n \in 1 .. N, n - 1 \in W PROVE n \in W
  <2>1. n - 1 \in 0 .. N /\ n \in 0 .. N /\ N + 1 - n \in 1 .. N
    BY <1>2
  <2>2. TreeHolds(g[n - 1]) /\ Distinct(g[n - 1].order) /\ g[n - 1].sort = t.sort
    BY <1>1, <1>4, <2>1 DEF Loading
  <2>3. g[n] = load_column(s.columns[N + 1 - n], g[n - 1])
    BY <1>1 DEF Loading
  <2>4. s.columns[N + 1 - n] \in SavedColumn
    BY <1>2, <2>1
  <2>5. Distinct(g[n].order) /\ g[n].sort = g[n - 1].sort
    <3> DEFINE a == s.columns[N + 1 - n]
               b == g[n - 1]
    <3>1. a \in SavedColumn /\ TreeHolds(b) /\ Distinct(b.order) /\ g[n] = load_column(a, b)
      BY <2>2, <2>3, <2>4
    <3> HIDE DEF a, b
    <3>2. Distinct(g[n].order) /\ g[n].sort = b.sort
      BY <3>1, ColumnLoadsTidily
    <3> QED
      BY <3>2 DEF b
  <2> QED
    BY <2>1, <2>2, <2>5
<1>5. N \in W
  <2> HIDE DEF W, N
  <2>1. \A n \in 1 .. N : n - 1 \in W => n \in W
    BY <1>4
  <2>2. 0 .. N \subseteq W
    BY <1>2, <1>3, <2>1, UpTo
  <2>3. N \in 0 .. N
    BY <1>2
  <2> QED
    BY <2>2, <2>3
<1> QED
  BY <1>1, <1>5

NamesOnce(s) ==
  \A i, j \in 1 .. Len(s.columns) : s.columns[i].name = s.columns[j].name => i = j

\* Those of the last n that are saved which the list has.
Done(t, s, n) ==
  {i \in 1 .. Len(s.columns) : i > Len(s.columns) - n /\ Known(t, s.columns[i].name)}

\* They are in their order, and each is as it was saved.
LoadedSoFar(t, s, n, u) ==
  /\ \A i, j \in Done(t, s, n) : i < j => Before(u.order, s.columns[i].name, s.columns[j].name)
  /\ \A i \in Done(t, s, n) :
       LET c == s.columns[i].name
       IN  /\ u.visible[c] = s.columns[i].visible
           /\ c \in Resizable /\ s.columns[i].width > 0 => u.fixed_width[c] = s.columns[i].width

LEMMA LoadedStep ==
  ASSUME NEW t, TreeHolds(t), NEW s, SettingsHold(s), NamesOnce(s), NEW n \in 1 .. Len(s.columns),
         NEW u, TreeHolds(u), u.all = t.all, LoadedSoFar(t, s, n - 1, u)
  PROVE  LoadedSoFar(t, s, n, load_column(s.columns[Len(s.columns) + 1 - n], u))
<1> DEFINE N == Len(s.columns)
           k == N + 1 - n
           sk == s.columns[k]
           v == load_column(sk, u)
<1>1. N \in Nat /\ k \in 1 .. N /\ s.columns \in Seq(SavedColumn)
  BY DEF SettingsHold
<1>2. \A i \in 1 .. N : i > N - n <=> i = k \/ i > N - (n - 1)
  BY <1>1
<1>3. \A i \in 1 .. N : i > N - (n - 1) => k < i
  BY <1>1
<1>4. \A i \in 1 .. N : s.columns[i] \in SavedColumn
  BY <1>1
<1>5. sk \in SavedColumn
  BY <1>1, <1>4
<1> HIDE DEF N, k, sk, v
<1>6. CASE ~Known(u, sk.name)
  <2>1. v = u
    BY <1>6 DEF load_column, v
  <2>2. Done(t, s, n) = Done(t, s, n - 1)
    BY <1>2, <1>6 DEF Done, Known, sk, N
  <2> QED
    BY <2>1, <2>2 DEF LoadedSoFar, v, sk, k, N
<1>7. CASE Known(u, sk.name)
  <2> DEFINE c == sk.name
  <2>1. /\ v.sort = u.sort
        /\ \A d, e : Before(v.order, d, e) <=> \/ d = c /\ e # c /\ e \in Range(u.order)
                                               \/ d # c /\ e # c /\ Before(u.order, d, e)
        /\ \A d \in Columns : v.visible[d] = IF d = c THEN sk.visible ELSE u.visible[d]
        /\ \A d \in Columns : d # c => v.fixed_width[d] = u.fixed_width[d]
        /\ c \in Resizable /\ sk.width > 0 => v.fixed_width[c] = sk.width
    BY <1>5, <1>7, ColumnLoadsIn DEF v
  <2>2. /\ \A i \in Done(t, s, n) : i = k \/ (i \in Done(t, s, n - 1) /\ k < i)
        /\ \A i \in Done(t, s, n) : i \in 1 .. N /\ Known(u, s.columns[i].name)
    BY <1>2, <1>3 DEF Done, Known, N
  <2>3. \A i \in Done(t, s, n) : s.columns[i].name \in Columns /\ s.columns[i].name \in Range(u.order)
    BY <2>2, KnownIs
  <2>4. \A i \in Done(t, s, n) : i # k => s.columns[i].name # c
    BY <1>1, <2>2 DEF NamesOnce, sk, N
  <2>5. ASSUME NEW i \in Done(t, s, n), NEW j \in Done(t, s, n), i < j
        PROVE  Before(v.order, s.columns[i].name, s.columns[j].name)
    <3>1. j # k /\ s.columns[j].name # c
      <4>1. i = k \/ k < i
        BY <2>2
      <4>2. j # k
        BY <1>1, <2>2, <2>5, <4>1
      <4> QED
        BY <2>4, <4>2
    <3>2. CASE i = k
      BY <2>1, <2>3, <3>1, <3>2 DEF sk
    <3>3. CASE i # k
      <4>1. Before(u.order, s.columns[i].name, s.columns[j].name)
        BY <2>2, <2>5, <3>1, <3>3 DEF LoadedSoFar
      <4> QED
        BY <2>1, <2>4, <3>1, <3>3, <4>1
    <3> QED
      BY <3>2, <3>3
  <2>6. ASSUME NEW i \in Done(t, s, n)
        PROVE  LET d == s.columns[i].name
               IN  /\ v.visible[d] = s.columns[i].visible
                   /\ d \in Resizable /\ s.columns[i].width > 0 => v.fixed_width[d] = s.columns[i].width
    <3>1. CASE i = k
      BY <2>1, <2>3, <3>1 DEF sk
    <3>2. CASE i # k
      <4> DEFINE d == s.columns[i].name
      <4>1. i \in Done(t, s, n - 1) /\ d \in Columns /\ d # c
        BY <2>2, <2>3, <2>4, <3>2
      <4>2. /\ u.visible[d] = s.columns[i].visible
            /\ d \in Resizable /\ s.columns[i].width > 0 => u.fixed_width[d] = s.columns[i].width
        BY <4>1 DEF LoadedSoFar
      <4> QED
        BY <2>1, <4>1, <4>2
    <3> QED
      BY <3>1, <3>2
  <2> QED
    BY <2>5, <2>6 DEF LoadedSoFar, v, sk, k, N
<1> QED
  BY <1>6, <1>7

LEMMA LoadedWell ==
  ASSUME NEW t, TreeHolds(t), NEW s, SettingsHold(s), NamesOnce(s)
  PROVE  LoadedSoFar(t, s, Len(s.columns), load_columns(t, s))
<1>1. PICK g : Loading(t, s, g) /\ load_columns(t, s) = g[Len(s.columns)]
  BY ColumnsLoadedBy
<1> DEFINE N == Len(s.columns)
           W == {n \in 0 .. N : LoadedSoFar(t, s, n, g[n])}
<1>2. N \in Nat
  BY DEF SettingsHold
<1>3. 0 \in W
  <2>1. Done(t, s, 0) = {}
    BY <1>2 DEF Done
  <2>2. g[0] = t
    BY <1>1 DEF Loading
  <2>3. LoadedSoFar(t, s, 0, g[0])
    BY <2>1, <2>2 DEF LoadedSoFar
  <2> QED
    BY <1>2, <2>3
<1>4. ASSUME NEW n \in 1 .. N, n - 1 \in W PROVE n \in W
  <2>1. n - 1 \in 0 .. N /\ n \in 0 .. N
    BY <1>2
  <2>2. TreeHolds(g[n - 1]) /\ g[n - 1].all = t.all /\ LoadedSoFar(t, s, n - 1, g[n - 1])
    BY <1>1, <1>4, <2>1 DEF Loading
  <2>3. g[n] = load_column(s.columns[Len(s.columns) + 1 - n], g[n - 1])
    BY <1>1 DEF Loading
  <2>4. LoadedSoFar(t, s, n, g[n])
    BY <2>2, <2>3, LoadedStep
  <2> QED
    BY <2>1, <2>4
<1>5. N \in W
  <2> HIDE DEF W, N
  <2>1. \A n \in 1 .. N : n - 1 \in W => n \in W
    BY <1>4
  <2>2. 0 .. N \subseteq W
    BY <1>2, <1>3, <2>1, UpTo
  <2>3. N \in 0 .. N
    BY <1>2
  <2> QED
    BY <2>2, <2>3
<1> QED
  BY <1>1, <1>5

\* Every column once in the header, and sorted by a column or not at all.
SessionHolds(t) ==
  /\ TreeHolds(t) /\ Distinct(t.order)
  /\ t.sort.id >= 0 \/ t.sort = [id |-> -1, order |-> Ascending]

\* The first of a set of columns.
LEMMA FirstColumn ==
  ASSUME NEW by, by \subseteq Columns, by # {}
  PROVE  LET c == CHOOSE c \in by : \A d \in by : c <= d IN c \in by
<1>1. by \in SUBSET Nat
  BY ColumnsAre
<1>2. \E c \in by : \A d \in by : c <= d
  BY <1>1, Least
<1> QED
  BY <1>2

\* What is saved of a list has each column once, in its order, with its look.
LEMMA SavedIs ==
  ASSUME NEW t, SessionHolds(t)
  PROVE  LET s == save_settings(t)
         IN  /\ SettingsHold(s) /\ NamesOnce(s)
             /\ \A c \in Range(t.all) : \E i \in 1 .. Len(s.columns) : s.columns[i].name = c
             /\ \A i \in 1 .. Len(s.columns) :
                  LET c == s.columns[i].name
                  IN  /\ c \in Columns /\ s.columns[i].visible = t.visible[c]
                      /\ c \in Resizable => s.columns[i].width = t.width[c]
             /\ \A i, j \in 1 .. Len(s.columns) :
                  i < j => Before(t.order, s.columns[i].name, s.columns[j].name)
<1> DEFINE s == save_settings(t)
           real == Real(t.order)
<1>1. SettingsHold(s)
  BY SettingsSave DEF SessionHolds
<1>2. t.order \in Seq(Position) /\ t \in Tree
  BY DEF SessionHolds, TreeHolds, Tree
<1>3. /\ real \in Seq(Position) /\ Range(real) = Range(t.order) \ {FakeColumn}
      /\ Distinct(real)
      /\ \A d, e : Before(real, d, e) => Before(t.order, d, e)
  BY <1>2, WithoutHas, WithoutOrder DEF Real, SessionHolds
<1>4. Range(real) = Range(t.all)
  BY <1>3 DEF SessionHolds, TreeHolds
<1> HIDE DEF real
<1>5. DOMAIN real = 1 .. Len(real) /\ Len(real) \in Nat
  BY <1>3
<1>6. s.columns = [i \in 1 .. Len(real) |->
                    [name |-> real[i], visible |-> t.visible[real[i]],
                     width |-> IF real[i] \in Resizable THEN t.width[real[i]] ELSE DefaultWidth]]
  BY <1>5 DEF save_settings, saved_columns, real
<1>7. s.columns \in Seq(SavedColumn)
  BY <1>1 DEF SettingsHold
<1> HIDE DEF s
<1>8. Len(s.columns) = Len(real)
  BY <1>5, <1>6, <1>7
<1>9. ASSUME NEW i \in 1 .. Len(real)
      PROVE  /\ s.columns[i].name = real[i] /\ s.columns[i].visible = t.visible[real[i]]
             /\ real[i] \in Resizable => s.columns[i].width = t.width[real[i]]
  BY <1>6
<1>10. \A i \in 1 .. Len(real) : real[i] \in Columns
  <2>1. \A i \in 1 .. Len(real) : real[i] \in Range(t.all)
    BY <1>4, <1>5 DEF Range
  <2> QED
    BY <2>1, KnownIs DEF Known, SessionHolds
<1>11. NamesOnce(s)
  BY <1>3, <1>8, <1>9 DEF Distinct, NamesOnce
<1>12. ASSUME NEW c \in Range(t.all) PROVE \E i \in 1 .. Len(s.columns) : s.columns[i].name = c
  <2>1. PICK i \in 1 .. Len(real) : real[i] = c
    BY <1>4, <1>5 DEF Range
  <2> QED
    BY <1>8, <1>9, <2>1
<1>13. ASSUME NEW i \in 1 .. Len(real), NEW j \in 1 .. Len(real), i < j
       PROVE  Before(t.order, s.columns[i].name, s.columns[j].name)
  <2>1. Before(real, real[i], real[j])
    BY <1>5, <1>13 DEF Before
  <2> QED
    BY <1>3, <1>9, <2>1
<1> QED
  BY <1>1, <1>8, <1>9, <1>10, <1>11, <1>12, <1>13 DEF s

\* Only the first column may be shown that was not to be.
LEMMA SightIs ==
  ASSUME NEW t, TreeHolds(t)
  PROVE  LET u == check_columns_visibility(t, FakeColumn)
         IN  /\ TreeHolds(u) /\ u.all = t.all /\ u.order = t.order /\ u.sort = t.sort
             /\ u.fixed_width = t.fixed_width
             /\ \A c \in Range(t.all) :
                  \/ u.visible[c] = t.visible[c]
                  \/ c = u.all[1] /\ \A d \in Range(u.all) : d = c \/ ~u.visible[d]
<1> DEFINE u == check_columns_visibility(t, FakeColumn)
           f == t.all[1]
<1>1. TreeHolds(u) /\ u.all = t.all /\ u.order = t.order
  BY VisibilityIs DEF Position
<1>2. u = IF SomeVisible(t) THEN t ELSE [t EXCEPT !.visible[f] = TRUE]
  BY DEF check_columns_visibility
<1> HIDE DEF u
<1>3. CASE SomeVisible(t)
  BY <1>1, <1>2, <1>3 DEF u
<1>4. CASE ~SomeVisible(t)
  <2>1. t \in Tree /\ u = [t EXCEPT !.visible[f] = TRUE]
    BY <1>2, <1>4 DEF TreeHolds
  <2>2. u.sort = t.sort /\ u.fixed_width = t.fixed_width
    BY <2>1 DEF Tree
  <2>3. \A c \in Range(t.all) : c \in Columns /\ ~t.visible[c]
    BY <1>4, KnownIs DEF Known, SomeVisible, TreeHolds
  <2>4. \A c \in Columns : c # f => u.visible[c] = t.visible[c]
    BY <2>1 DEF Tree
  <2>5. ASSUME NEW c \in Range(t.all), u.visible[c] # t.visible[c]
        PROVE  c = u.all[1] /\ \A d \in Range(u.all) : d = c \/ ~u.visible[d]
    <3>1. c = f
      BY <2>3, <2>4, <2>5
    <3> QED
      BY <1>1, <2>3, <2>4, <3>1
  <2> QED
    BY <1>1, <2>2, <2>5 DEF u
<1> QED
  BY <1>3, <1>4

LEMMA SettingsLoadTidily ==
  ASSUME NEW t, SessionHolds(t), NEW s, SettingsHold(s)
  PROVE  SessionHolds(load_settings(t, s))
<1> DEFINE a == load_sort(t, s)
           b == load_columns(a, s)
           u == check_columns_visibility(b, FakeColumn)
<1>1. TreeHolds(t) /\ Distinct(t.order)
  BY DEF SessionHolds
<1>2. /\ TreeHolds(a) /\ a.order = t.order
      /\ a.sort.id >= 0 \/ a.sort = [id |-> -1, order |-> Ascending]
  <2>1. /\ TreeHolds(a) /\ a.order = t.order
        /\ a.sort = IF Known(t, s.sort_column) /\ SortId[s.sort_column] >= 0
                      THEN [id |-> SortId[s.sort_column], order |-> s.sort_order] ELSE t.sort
    BY <1>1, SortLoads
  <2>2. CASE Known(t, s.sort_column) /\ SortId[s.sort_column] >= 0
    BY <2>1, <2>2
  <2>3. CASE ~(Known(t, s.sort_column) /\ SortId[s.sort_column] >= 0)
    BY <2>1, <2>3 DEF SessionHolds
  <2> QED
    BY <2>1, <2>2, <2>3
<1> HIDE DEF a
<1>3. TreeHolds(b) /\ Distinct(b.order) /\ b.sort = a.sort
  BY <1>1, <1>2, ColumnsLoad, ColumnsLoadTidily
<1> HIDE DEF b
<1>4. TreeHolds(u) /\ u.order = b.order /\ u.sort = b.sort
  BY <1>3, SightIs
<1>5. load_settings(t, s) = u
  BY DEF load_settings, a, b, u
<1> QED
  BY <1>2, <1>3, <1>4, <1>5 DEF SessionHolds

LEMMA NewIsTidy ==
  ASSUME NEW all \in Versions
  PROVE  /\ SessionHolds(NewColumns(all)) /\ NewColumns(all).all = all
         /\ NewColumns(all).sort = [id |-> -1, order |-> Ascending]
<1> DEFINE t == NewColumns(all)
<1>1. all \in Seq(Columns) /\ Distinct(all)
  BY ColumnsAre, TreeViewAssumption DEF Distinct
<1>2. t.order = Append(all, FakeColumn) /\ t.all = all /\ t.sort = [id |-> -1, order |-> Ascending]
  BY DEF NewColumns
<1>3. TreeHolds(t)
  BY NewIs
<1> HIDE DEF t
<1>4. all \in Seq(Position) /\ FakeColumn \in Position
  BY <1>1 DEF Position
<1>5. \A d : ~Before(all, d, d)
  BY <1>1, DistinctIs
<1>6. FakeColumn \notin Range(all)
  BY <1>1, ColumnsAre DEF Range
<1>7. \A d : ~Before(t.order, d, d)
  BY <1>2, <1>4, <1>5, <1>6, BeforeAppended
<1>8. Distinct(t.order)
  <2>1. t.order \in Seq(Position)
    BY <1>3 DEF TreeHolds, Tree
  <2> QED
    BY <1>7, <2>1, DistinctIs
<1> QED
  BY <1>2, <1>3, <1>8 DEF SessionHolds, t

\* The next session shows what the last one had.
LEMMA SessionRestored ==
  ASSUME NEW old, SessionHolds(old), NEW all \in Versions
  PROVE  Restored(old, Tree_view(all, save_settings(old)))
<1> DEFINE s == save_settings(old)
           t == NewColumns(all)
           a == load_sort(t, s)
           b == load_columns(a, s)
           new == check_columns_visibility(b, FakeColumn)
           both == Range(old.all) \cap Range(all)
           N == Len(s.columns)
           name(i) == s.columns[i].name
<1>1. Tree_view(all, s) = new
  BY DEF Tree_view, load_settings
<1>2. /\ SettingsHold(s) /\ NamesOnce(s)
      /\ \A c \in Range(old.all) : \E i \in 1 .. N : name(i) = c
      /\ \A i \in 1 .. N :
           /\ name(i) \in Columns /\ s.columns[i].visible = old.visible[name(i)]
           /\ name(i) \in Resizable => s.columns[i].width = old.width[name(i)]
      /\ \A i, j \in 1 .. N : i < j => Before(old.order, name(i), name(j))
  BY SavedIs
<1>3. N \in Nat
  BY <1>2 DEF SettingsHold
<1>4. SessionHolds(t) /\ t.all = all /\ t.sort = [id |-> -1, order |-> Ascending]
  BY NewIsTidy
<1> HIDE DEF t
<1>5. /\ TreeHolds(a) /\ a.all = all /\ Distinct(a.order)
      /\ a.sort = IF Known(t, s.sort_column) /\ SortId[s.sort_column] >= 0
                    THEN [id |-> SortId[s.sort_column], order |-> s.sort_order] ELSE t.sort
  BY <1>2, <1>4, SortLoads DEF SessionHolds
<1>6. s.sort_column = saved_sort(old).column /\ s.sort_order = saved_sort(old).order
  BY DEF save_settings
<1> HIDE DEF a, s
<1>7. /\ TreeHolds(b) /\ b.all = all /\ Distinct(b.order) /\ b.sort = a.sort
      /\ LoadedSoFar(a, s, N, b)
  BY <1>2, <1>5, ColumnsLoad, ColumnsLoadTidily, LoadedWell
<1> HIDE DEF b
<1>8. /\ TreeHolds(new) /\ new.all = all /\ new.order = b.order /\ new.sort = b.sort
      /\ new.fixed_width = b.fixed_width
      /\ \A c \in Range(all) :
           \/ new.visible[c] = b.visible[c]
           \/ c = new.all[1] /\ \A d \in Range(new.all) : d = c \/ ~new.visible[d]
  BY <1>7, SightIs
<1> HIDE DEF new
<1>9. ASSUME NEW c \in both PROVE \E i \in Done(a, s, N) : name(i) = c
  <2>1. PICK i \in 1 .. N : name(i) = c
    BY <1>2
  <2>2. i \in Done(a, s, N)
    BY <1>3, <1>5, <2>1 DEF Done, Known
  <2> QED
    BY <2>1, <2>2
<1>10. both \subseteq Range(new.order)
  <2>1. \A c \in Range(all) : c \in Range(new.order)
    BY <1>8 DEF TreeHolds
  <2> QED
    BY <2>1
<1>11. old.order \in Seq(Position) /\ b.order \in Seq(Position) /\ Distinct(old.order)
  BY <1>7 DEF SessionHolds, TreeHolds, Tree
<1>12. Done(a, s, N) \subseteq 1 .. N
  BY DEF Done
<1>13. ASSUME NEW c \in both, NEW d \in both
       PROVE  Before(new.order, c, d) <=> Before(old.order, c, d)
  <2>1. PICK i \in Done(a, s, N), j \in Done(a, s, N) : name(i) = c /\ name(j) = d
    BY <1>9
  <2>2. i \in 1 .. N /\ j \in 1 .. N
    BY <1>12
  <2>3. CASE i < j
    <3>1. Before(old.order, c, d)
      BY <1>2, <2>1, <2>2, <2>3
    <3>2. Before(b.order, c, d)
      BY <1>7, <2>1, <2>3 DEF LoadedSoFar
    <3> QED
      BY <1>8, <3>1, <3>2
  <2>4. CASE j < i
    <3>1. Before(old.order, d, c)
      BY <1>2, <2>1, <2>2, <2>4
    <3>2. Before(b.order, d, c)
      BY <1>7, <2>1, <2>4 DEF LoadedSoFar
    <3>3. ~Before(old.order, c, d)
      BY <1>11, <3>1, DistinctIs
    <3>4. ~Before(b.order, c, d)
      BY <1>7, <1>11, <3>2, DistinctIs
    <3> QED
      BY <1>8, <3>3, <3>4
  <2>5. CASE i = j
    <3>1. c = d
      BY <2>1, <2>5
    <3>2. ~Before(old.order, c, c) /\ ~Before(b.order, c, c)
      BY <1>7, <1>11, DistinctIs
    <3> QED
      BY <1>8, <3>1, <3>2
  <2> QED
    BY <2>2, <2>3, <2>4, <2>5
<1>14. ASSUME NEW c \in both
       PROVE  /\ b.visible[c] = old.visible[c]
              /\ c \in Resizable /\ old.width[c] > 0 => b.fixed_width[c] = old.width[c]
  <2>1. PICK i \in Done(a, s, N) : name(i) = c
    BY <1>9
  <2>2. i \in 1 .. N
    BY <1>12
  <2>3. /\ b.visible[c] = s.columns[i].visible
        /\ c \in Resizable /\ s.columns[i].width > 0 => b.fixed_width[c] = s.columns[i].width
    BY <1>7, <2>1 DEF LoadedSoFar
  <2> QED
    BY <1>2, <2>1, <2>2, <2>3
<1> DEFINE left == {c \in Range(old.all) : old.sort.id = SortId[c]}
<1>15. ASSUME left \subseteq both, left # {} \/ old.sort.id = -1
       PROVE  new.sort = old.sort
  <2> DEFINE by == {c \in Range(old.all) : old.sort.id >= 0 /\ SortId[c] = old.sort.id}
  <2>1. new.sort = a.sort
    BY <1>7, <1>8
  <2>2. saved_sort(old) = IF by = {} THEN [column |-> FakeColumn, order |-> Ascending]
                          ELSE [column |-> CHOOSE c \in by : \A d \in by : c <= d, order |-> old.sort.order]
    BY DEF saved_sort
  <2>3. CASE old.sort.id >= 0
    <3>1. by = left /\ by # {}
      BY <1>15, <2>3
    <3>2. by \subseteq Columns
      BY KnownIs DEF Known, SessionHolds
    <3> DEFINE f == CHOOSE c \in by : \A d \in by : c <= d
    <3>3. f \in by
      BY <3>1, <3>2, FirstColumn
    <3>4. s.sort_column = f /\ s.sort_order = old.sort.order
      BY <1>6, <2>2, <3>1
    <3>5. f \in Range(all) /\ SortId[f] = old.sort.id
      BY <1>15, <3>1, <3>3
    <3> HIDE DEF f
    <3>6. a.sort = [id |-> old.sort.id, order |-> old.sort.order]
      BY <1>4, <1>5, <2>3, <3>4, <3>5 DEF Known
    <3>7. old.sort \in [id : Int, order : Order]
      BY DEF SessionHolds, TreeHolds, Tree
    <3> QED
      BY <2>1, <3>6, <3>7
  <2>4. CASE ~(old.sort.id >= 0)
    <3>1. old.sort = [id |-> -1, order |-> Ascending]
      BY <2>4 DEF SessionHolds
    <3>2. by = {}
      BY <2>4
    <3>3. s.sort_column = FakeColumn
      BY <1>6, <2>2, <3>2
    <3>4. ~Known(t, FakeColumn)
      BY <1>4, KnownIs DEF SessionHolds
    <3> QED
      BY <1>4, <1>5, <2>1, <3>1, <3>3, <3>4
  <2> QED
    BY <2>3, <2>4
<1>16. Restored(old, new)
  BY <1>8, <1>10, <1>13, <1>14, <1>15 DEF Restored
<1> QED
  BY <1>1, <1>16 DEF s

-----------------------------------------------------------------------------
\* Between two sessions the list is the one that was saved.
SessionInv ==
  /\ TreeInv
  /\ SessionHolds(tree)
  /\ ~running => settings = save_settings(tree)

LEMMA DragTidily ==
  ASSUME TreeInv, SessionHolds(tree), NEW c \in Range(tree.all), NEW right \in 0 .. Len(tree.order),
         DragColumn(c, right)
  PROVE  Distinct(tree'.order) /\ tree'.sort = tree.sort
<1> DEFINE old == tree.order
           left == SubSeq(old, 1, right - 1)
           rest == SubSeq(old, right, Len(old))
           before == Without(left, c)
           after == Without(rest, c)
           one == <<c>>
           new == before \o one \o after
<1>1. tree \in Tree /\ old \in Seq(Position) /\ Len(old) \in Nat /\ Distinct(old)
  BY DEF SessionHolds, TreeHolds, Tree
<1>2. c \in Position
  BY KnownIs DEF Known, SessionHolds, Position
<1>3. right \in 1 .. Len(old)
  BY <1>1 DEF DragColumn, column_drag_function
<1>4. tree' = [tree EXCEPT !.order = new]
  BY DEF DragColumn
<1>5. tree'.order = new /\ tree'.sort = tree.sort
  BY <1>1, <1>4 DEF Tree
<1>6. /\ left \in Seq(Position) /\ Len(left) = right - 1
      /\ \A i \in 1 .. (right - 1) : left[i] = old[i]
  <2>1. \A i \in 1 .. (right - 1) : old[i] \in Position
    BY <1>1, <1>3
  <2> QED
    BY <1>1, <1>3, <2>1, SubSeqProperties
<1>7. /\ rest \in Seq(Position) /\ Len(rest) = Len(old) - right + 1
      /\ \A i \in 1 .. Len(old) - right + 1 : rest[i] = old[right + i - 1]
  <2>1. \A i \in right .. Len(old) : old[i] \in Position
    BY <1>1, <1>3
  <2> QED
    BY <1>1, <1>3, <2>1, SubSeqProperties
<1> HIDE DEF left, rest, old
<1>8. Distinct(left)
  <2>1. \A i \in 1 .. Len(left) : i \in 1 .. Len(old) /\ left[i] = old[i]
    BY <1>1, <1>3, <1>6
  <2> QED
    BY <1>1, <2>1 DEF Distinct
<1>9. Distinct(rest)
  <2> SUFFICES ASSUME NEW i \in 1 .. Len(rest), NEW j \in 1 .. Len(rest), rest[i] = rest[j]
               PROVE  i = j
    BY DEF Distinct
  <2>1. /\ right + i - 1 \in 1 .. Len(old) /\ right + j - 1 \in 1 .. Len(old)
        /\ rest[i] = old[right + i - 1] /\ rest[j] = old[right + j - 1]
    BY <1>1, <1>3, <1>7
  <2>2. right + i - 1 = right + j - 1
    BY <1>1, <2>1 DEF Distinct
  <2> QED
    BY <1>3, <1>7, <2>2
<1>10. Range(left) \cap Range(rest) = {}
  <2> SUFFICES ASSUME NEW i \in 1 .. Len(left), NEW j \in 1 .. Len(rest), left[i] = rest[j]
               PROVE  FALSE
    <3>1. DOMAIN left = 1 .. Len(left) /\ DOMAIN rest = 1 .. Len(rest)
      BY <1>6, <1>7
    <3> QED
      BY <3>1 DEF Range
  <2>1. /\ i \in 1 .. Len(old) /\ right + j - 1 \in 1 .. Len(old) /\ i # right + j - 1
        /\ left[i] = old[i] /\ rest[j] = old[right + j - 1]
    BY <1>1, <1>3, <1>6, <1>7
  <2> QED
    BY <1>1, <2>1 DEF Distinct
<1>11. /\ before \in Seq(Position) /\ Range(before) = Range(left) \ {c}
       /\ Distinct(before)
  BY <1>6, <1>8, WithoutHas
<1>12. /\ after \in Seq(Position) /\ Range(after) = Range(rest) \ {c}
       /\ Distinct(after)
  BY <1>7, <1>9, WithoutHas
<1>13. one \in Seq(Position) /\ Range(one) = {c} /\ \A d, e : ~Before(one, d, e)
  BY <1>2, OneIs
<1> HIDE DEF before, after, one
<1> DEFINE ahead == before \o one
<1>14. ahead \in Seq(Position) /\ Range(ahead) = Range(before) \cup {c}
  BY <1>11, <1>13, RangeOf
<1>15. \A d : ~Before(before, d, d)
  BY <1>11, DistinctIs
<1>16. \A d : ~Before(after, d, d)
  BY <1>12, DistinctIs
<1>17. \A d : ~Before(ahead, d, d)
  <2>1. ASSUME NEW d
        PROVE  Before(ahead, d, d) <=>
                 Before(before, d, d) \/ Before(one, d, d) \/ (d \in Range(before) /\ d \in Range(one))
    BY <1>11, <1>13, BeforeOf
  <2> HIDE DEF ahead
  <2> QED
    BY <1>11, <1>13, <1>15, <2>1
<1> HIDE DEF ahead
<1>18. new = ahead \o after
  BY DEF ahead
<1> HIDE DEF new
<1>19. \A d : ~Before(ahead \o after, d, d)
  <2>1. ASSUME NEW d
        PROVE  Before(ahead \o after, d, d) <=>
                 Before(ahead, d, d) \/ Before(after, d, d) \/ (d \in Range(ahead) /\ d \in Range(after))
    BY <1>12, <1>14, BeforeOf
  <2>2. Range(ahead) \cap Range(after) = {}
    BY <1>10, <1>11, <1>12, <1>14
  <2> QED
    BY <1>16, <1>17, <2>1, <2>2
<1>20. ahead \o after \in Seq(Position)
  BY <1>12, <1>14, RangeOf
<1>21. Distinct(ahead \o after)
  BY <1>19, <1>20, DistinctIs
<1> QED
  BY <1>5, <1>18, <1>21

LEMMA SessionKeeps ==
  ASSUME SessionInv, TreeNext
  PROVE  SessionInv' /\ (~running /\ running' => Restored(tree, tree'))
<1>1. TreeInv /\ SessionHolds(tree) /\ tree \in Tree
  BY DEF SessionInv, SessionHolds, TreeHolds
<1>2. TreeInv' /\ TreeHolds(tree')
  BY <1>1, TreeKeeps DEF TreeInv
<1>3. ASSUME running, Distinct(tree'.order),
             tree'.sort.id >= 0 \/ tree'.sort = [id |-> -1, order |-> Ascending],
             running' = running
      PROVE  SessionInv' /\ (~running /\ running' => Restored(tree, tree'))
  BY <1>2, <1>3 DEF SessionInv, SessionHolds
<1>4. CASE HeaderMenu
  BY <1>1, <1>3, <1>4 DEF HeaderMenu, SessionHolds
<1>5. ASSUME NEW c \in Columns, ActivateMenuItem(c)
      PROVE  SessionInv' /\ (~running /\ running' => Restored(tree, tree'))
  <2>1. /\ running /\ running' = running
        /\ tree' = hide_column(tree, c) \/ tree' = show_column(tree, c)
    BY <1>5 DEF ActivateMenuItem
  <2>2. c # FakeColumn
    BY ColumnsAre
  <2>3. ASSUME NEW t \in Tree, NEW d
        PROVE  [t EXCEPT !.visible[d] = TRUE].order = t.order
               /\ [t EXCEPT !.visible[d] = TRUE].sort = t.sort
               /\ [t EXCEPT !.visible[d] = FALSE].order = t.order
               /\ [t EXCEPT !.visible[d] = FALSE].sort = t.sort
               /\ [t EXCEPT !.visible[d] = FALSE] \in Tree
    BY DEF Tree
  <2>4. CASE tree' = show_column(tree, c)
    BY <1>1, <1>3, <2>1, <2>3, <2>4 DEF show_column, SessionHolds
  <2>5. CASE tree' = hide_column(tree, c)
    <3> DEFINE a == [tree EXCEPT !.visible[c] = FALSE]
    <3>1. a \in Tree /\ a.order = tree.order /\ a.sort = tree.sort
      BY <1>1, <2>3
    <3>2. tree' = check_columns_visibility(a, c)
      BY <2>5 DEF hide_column
    <3> HIDE DEF a
    <3>3. tree' = IF SomeVisible(a) THEN a ELSE [a EXCEPT !.visible[c] = TRUE]
      BY <2>2, <3>2 DEF check_columns_visibility
    <3>4. tree'.order = tree.order /\ tree'.sort = tree.sort
      BY <2>3, <3>1, <3>3
    <3> QED
      BY <1>1, <1>3, <2>1, <3>4 DEF SessionHolds
  <2> QED
    BY <2>1, <2>4, <2>5
<1>6. ASSUME NEW c \in Range(tree.all), NEW right \in 0 .. Len(tree.order), DragColumn(c, right)
      PROVE  SessionInv' /\ (~running /\ running' => Restored(tree, tree'))
  <2>1. running /\ running' = running
    BY <1>6 DEF DragColumn
  <2>2. Distinct(tree'.order) /\ tree'.sort = tree.sort
    BY <1>1, <1>6, DragTidily
  <2> QED
    BY <1>1, <1>3, <2>1, <2>2 DEF SessionHolds
<1>7. CASE Layout
  <2>1. running /\ running' = running /\ tree'.order = tree.order /\ tree'.sort = tree.sort
    BY <1>1, <1>7 DEF Layout, Tree
  <2> QED
    BY <1>1, <1>3, <2>1 DEF SessionHolds
<1>8. ASSUME NEW c \in Range(tree.all), NEW w \in Widths, ResizeColumn(c, w)
      PROVE  SessionInv' /\ (~running /\ running' => Restored(tree, tree'))
  <2>1. running /\ running' = running /\ tree'.order = tree.order /\ tree'.sort = tree.sort
    BY <1>1, <1>8 DEF ResizeColumn, Tree
  <2> QED
    BY <1>1, <1>3, <2>1 DEF SessionHolds
<1>9. ASSUME NEW c \in Range(tree.all), NEW order \in Order, SortBy(c, order)
      PROVE  SessionInv' /\ (~running /\ running' => Restored(tree, tree'))
  <2>1. /\ running /\ running' = running /\ tree'.order = tree.order
        /\ tree'.sort = [id |-> SortId[c], order |-> order] /\ SortId[c] >= 0
    BY <1>1, <1>9 DEF SortBy, Tree
  <2> QED
    BY <1>1, <1>3, <2>1 DEF SessionHolds
<1>10. ASSUME NEW c \in Range(tree.all), RemoveColumn(c)
       PROVE  SessionInv' /\ (~running /\ running' => Restored(tree, tree'))
  <2>1. /\ running /\ running' = running /\ tree'.order = Without(tree.order, c)
        /\ tree'.sort = tree.sort
    BY <1>1, <1>10 DEF RemoveColumn, Tree
  <2>2. tree.order \in Seq(Position)
    BY <1>1 DEF Tree
  <2>3. Distinct(Without(tree.order, c))
    BY <1>1, <2>2, WithoutHas DEF SessionHolds
  <2> QED
    BY <1>1, <1>3, <2>1, <2>3 DEF SessionHolds
<1>11. ASSUME NEW s \in Configurations, LoadSettings(s)
       PROVE  SessionInv' /\ (~running /\ running' => Restored(tree, tree'))
  <2>1. running /\ running' = running /\ tree' = load_settings(tree, s)
    BY <1>11 DEF LoadSettings
  <2>2. SessionHolds(tree')
    BY <1>1, <2>1, SettingsAre, SettingsLoadTidily
  <2> QED
    BY <1>3, <2>1, <2>2 DEF SessionHolds
<1>12. CASE EndSession
  <2>1. tree' = tree /\ settings' = save_settings(tree) /\ running' = FALSE
    BY <1>12 DEF EndSession
  <2> QED
    BY <1>1, <1>2, <2>1 DEF SessionInv
<1>13. ASSUME NEW all \in Versions, NextSession(all)
       PROVE  SessionInv' /\ (~running /\ running' => Restored(tree, tree'))
  <2>1. ~running /\ running' = TRUE /\ tree' = Tree_view(all, settings)
    BY <1>13 DEF NextSession
  <2>2. settings = save_settings(tree)
    BY <2>1 DEF SessionInv
  <2>3. SessionHolds(tree')
    BY <1>1, <2>1, NewIsTidy, SettingsLoadTidily DEF Tree_view, TreeInv
  <2>4. Restored(tree, tree')
    BY <1>1, <2>1, <2>2, SessionRestored
  <2> QED
    BY <1>2, <2>1, <2>3, <2>4 DEF SessionInv
<1> QED
  BY <1>4, <1>5, <1>6, <1>7, <1>8, <1>9, <1>10, <1>11, <1>12, <1>13 DEF TreeNext

\* For any versions of the application and anything a user does with the columns:
\* what a session leaves is what the next one of whatever version shows.
THEOREM SettingsKept == TreeSpec => SettingsSurvive
<1>1. TreeInit => SessionInv
  <2> SUFFICES ASSUME TreeInit PROVE SessionInv
    OBVIOUS
  <2>1. PICK all \in Versions, s \in Configurations \cup {NoSettings} : tree = Tree_view(all, s)
    BY DEF TreeInit
  <2>2. SettingsHold(s)
    BY SettingsAre
  <2>3. SessionHolds(tree)
    BY <2>1, <2>2, NewIsTidy, SettingsLoadTidily DEF Tree_view
  <2> QED
    BY <2>1, <2>2, <2>3, SettingsAre, ListOpens DEF TreeInit, TreeInv, NoMenu, SessionInv
<1>2. SessionInv /\ [TreeNext]_treeVars
        => SessionInv' /\ [~running /\ running' => Restored(tree, tree')]_treeVars
  <2> SUFFICES ASSUME SessionInv, [TreeNext]_treeVars
               PROVE  SessionInv' /\ [~running /\ running' => Restored(tree, tree')]_treeVars
    OBVIOUS
  <2>1. CASE TreeNext
    BY <2>1, SessionKeeps
  <2>2. CASE UNCHANGED treeVars
    BY <2>2 DEF treeVars, SessionInv, TreeInv
  <2> QED
    BY <2>1, <2>2
<1> QED
  BY <1>1, <1>2, PTL DEF TreeSpec, SettingsSurvive

-----------------------------------------------------------------------------
(***************************************************************************)
(* Playlist, for any letters, any names and any arguments.                 *)
(***************************************************************************)

NameText == Seq(NameLetter)

\* What uppercase() has after each letter.
Raised(name, g) ==
  /\ g \in [0 .. Len(name) -> NameText]
  /\ g[0] = <<>>
  /\ \A n \in 1 .. Len(name) : g[n] = g[n - 1] \o Upper[name[n]]

LEMMA UppercaseIs ==
  ASSUME NEW name \in NameText
  PROVE  \E g : Raised(name, g) /\ uppercase(name) = g[Len(name)]
<1> DEFINE N == Len(name)
           stepOf == [n \in 1 .. N |-> [d \in NameText |-> d \o Upper[name[n]]]]
           at[n \in 0 .. N] == IF n = 0 THEN <<>> ELSE at[n - 1] \o Upper[name[n]]
<1>1. uppercase(name) = at[N]
  BY DEF uppercase
<1>2. N \in Nat /\ \A n \in 1 .. N : name[n] \in NameLetter
  BY DEF NameText
<1>3. \A n \in 1 .. N : Upper[name[n]] \in NameText
  BY <1>2, PlaylistAssumption DEF NameText
<1>4. <<>> \in NameText /\ \A d \in NameText, n \in 1 .. N : d \o Upper[name[n]] \in NameText
  BY <1>3 DEF NameText
<1> HIDE DEF N
<1>5. \A d \in NameText, n \in 1 .. N : stepOf[n][d] = d \o Upper[name[n]]
  OBVIOUS
<1>6. stepOf \in Steps(N, NameText)
  BY <1>4 DEF Steps
<1> HIDE DEF stepOf
<1>7. PICK g \in [0 .. N -> NameText] : g[0] = <<>> /\ \A n \in 1 .. N : g[n] = stepOf[n][g[n - 1]]
  <2>1. Runs(N, NameText, <<>>, stepOf) # {}
    BY <1>2, <1>4, <1>6, Recursion
  <2> QED
    BY <2>1 DEF Runs
<1>8. ASSUME NEW n \in 1 .. N
      PROVE  n - 1 \in 0 .. N /\ g[n - 1] \in NameText /\ g[n] = g[n - 1] \o Upper[name[n]]
  <2>1. n - 1 \in 0 .. N
    BY <1>2
  <2> QED
    BY <1>5, <1>7, <2>1
<1>9. g = [n \in 0 .. N |-> IF n = 0 THEN <<>> ELSE g[n - 1] \o Upper[name[n]]]
  <2>1. ASSUME NEW n \in 0 .. N PROVE g[n] = IF n = 0 THEN <<>> ELSE g[n - 1] \o Upper[name[n]]
    <3>1. n = 0 \/ n \in 1 .. N
      BY <1>2
    <3> QED
      BY <1>7, <1>8, <3>1
  <2> QED
    BY <1>7, <2>1
<1>10. ASSUME NEW n \in 0 .. N PROVE at[n] = IF n = 0 THEN <<>> ELSE at[n - 1] \o Upper[name[n]]
  <2> DEFINE Body(m) == IF m = 0 THEN <<>> ELSE at[m - 1] \o Upper[name[m]]
  <2>1. at = [m \in 0 .. N |-> Body(m)]
    BY <1>9
  <2> HIDE DEF at, Body
  <2>2. at[n] = Body(n)
    BY <2>1
  <2> QED
    BY <2>2 DEF Body
<1> HIDE DEF at
<1>11. Alike(N, at, g)
  <2>1. at[0] = g[0]
    <3>1. 0 \in 0 .. N
      BY <1>2
    <3>2. at[0] = <<>>
      BY <1>10, <3>1
    <3> QED
      BY <1>7, <3>2
  <2>2. ASSUME NEW n \in 1 .. N, at[n - 1] = g[n - 1]
        PROVE  at[n] = g[n]
    <3>1. n \in 0 .. N /\ n # 0
      BY <1>2
    <3>2. at[n] = at[n - 1] \o Upper[name[n]]
      BY <1>10, <3>1
    <3> QED
      BY <1>8, <2>2, <3>2
  <2> QED
    BY <2>1, <2>2 DEF Alike
<1>12. at[N] = g[N]
  BY <1>2, <1>11, SameValue
<1>13. Raised(name, g)
  BY <1>7, <1>8 DEF Raised, N
<1> QED
  BY <1>1, <1>12, <1>13 DEF N

\* The upper case of letters that do not grow, letter by letter.
LEMMA UppercaseOf ==
  ASSUME NEW name \in NameText, ~Grows(name)
  PROVE  /\ uppercase(name) \in NameText
         /\ Len(uppercase(name)) = Len(name)
         /\ \A i \in 1 .. Len(name) : Upper[name[i]] = <<uppercase(name)[i]>>
<1>1. PICK g : Raised(name, g) /\ uppercase(name) = g[Len(name)]
  BY UppercaseIs
<1> DEFINE N == Len(name)
           Right(n) == /\ Len(g[n]) = n
                       /\ \A i \in 1 .. n : Upper[name[i]] = <<g[n][i]>>
           S == {n \in 0 .. N : Right(n)}
<1>2. N \in Nat /\ DOMAIN name = 1 .. N
  BY DEF NameText
<1>3. 0 \in S
  BY <1>1, <1>2 DEF Raised
<1>4. ASSUME NEW n \in 1 .. N, n - 1 \in S
      PROVE  n \in S
  <2>1. g[n] = g[n - 1] \o Upper[name[n]]
    BY <1>1 DEF Raised
  <2>2. g[n - 1] \in Seq(NameLetter) /\ Right(n - 1)
    BY <1>1, <1>2, <1>4 DEF Raised, NameText
  <2>3. Upper[name[n]] \in Seq(NameLetter) /\ Len(Upper[name[n]]) = 1
    BY <1>2, PlaylistAssumption DEF Grows, NameText
  <2> DEFINE u == Upper[name[n]]
             h == g[n - 1]
  <2> HIDE DEF u, h
  <2>4. u = <<u[1]>>
    BY <2>3 DEF u
  <2>10. h \in Seq(NameLetter) /\ u \in Seq(NameLetter) /\ Len(h) = n - 1 /\ Len(u) = 1
    BY <2>2, <2>3 DEF u, h
  <2>11. n \in Nat /\ n > 0
    BY <1>2
  <2>5. /\ Len(h \o u) = n
        /\ (h \o u)[n] = u[1]
        /\ \A i \in 1 .. (n - 1) : (h \o u)[i] = h[i]
    <3>1. Len(h \o u) = Len(h) + Len(u)
      BY <2>10, ConcatProperties
    <3>2. \A i \in 1 .. (Len(h) + Len(u)) :
            (h \o u)[i] = IF i <= Len(h) THEN h[i] ELSE u[i - Len(h)]
      BY <2>10, ConcatProperties
    <3>3. n \in 1 .. (Len(h) + Len(u)) /\ ~(n <= Len(h)) /\ n - Len(h) = 1
      BY <2>10, <2>11
    <3>4. \A i \in 1 .. (n - 1) : i \in 1 .. (Len(h) + Len(u)) /\ i <= Len(h)
      BY <2>10, <2>11
    <3>5. (h \o u)[n] = u[1]
      BY <3>2, <3>3
    <3> QED
      BY <2>10, <2>11, <3>1, <3>2, <3>4, <3>5
  <2>12. g[n] = h \o u
    BY <2>1 DEF u, h
  <2>6. ASSUME NEW i \in 1 .. n
        PROVE  Upper[name[i]] = <<g[n][i]>>
    <3>1. CASE i = n
      <4>1. g[n][i] = u[1]
        BY <2>5, <2>12, <3>1
      <4>2. Upper[name[i]] = u
        BY <3>1 DEF u
      <4> QED
        BY <2>4, <4>1, <4>2
    <3>2. CASE i # n
      <4>1. i \in 1 .. (n - 1)
        BY <1>2, <3>2
      <4> QED
        BY <2>2, <2>5, <2>12, <4>1 DEF h
    <3> QED
      BY <3>1, <3>2
  <2>7. Len(g[n]) = n
    BY <2>5, <2>12
  <2> QED
    BY <2>6, <2>7
<1>5. N \in S
  <2> HIDE DEF S, N
  <2>1. \A n \in 1 .. N : n - 1 \in S => n \in S
    BY <1>4
  <2> QED
    BY <1>2, <1>3, <2>1, UpTo
<1>6. g[N] \in NameText
  BY <1>1, <1>2 DEF Raised
<1> QED
  BY <1>1, <1>5, <1>6

LEMMA SameCase ==
  ASSUME NEW name \in NameText, NEW play \in NameText, ~Grows(name), ~Grows(play), Len(name) = Len(play)
  PROVE  uppercase(name) = uppercase(play) <=> \A i \in 1 .. Len(play) : Upper[name[i]] = Upper[play[i]]
<1> DEFINE n == uppercase(name)
           p == uppercase(play)
<1>1. /\ n \in NameText /\ Len(n) = Len(play)
      /\ \A i \in 1 .. Len(play) : Upper[name[i]] = <<n[i]>>
  BY UppercaseOf
<1>2. /\ p \in NameText /\ Len(p) = Len(play)
      /\ \A i \in 1 .. Len(play) : Upper[play[i]] = <<p[i]>>
  BY UppercaseOf
<1> HIDE DEF n, p
<1>3. ASSUME \A i \in 1 .. Len(play) : n[i] = p[i]
      PROVE  n = p
  BY <1>1, <1>2, <1>3, SeqEqual DEF NameText
<1>4. \A i \in 1 .. Len(play) : Upper[name[i]] = Upper[play[i]] => n[i] = p[i]
  BY <1>1, <1>2
<1>5. n = p => \A i \in 1 .. Len(play) : Upper[name[i]] = Upper[play[i]]
  BY <1>1, <1>2
<1> QED
  BY <1>3, <1>4, <1>5 DEF n, p

\* What is before the last dot is the beginning of the name.
LEMMA StemIs ==
  ASSUME NEW name \in NameText
  PROVE  /\ strip_extension(name) \in NameText
         /\ Len(strip_extension(name)) <= Len(name)
         /\ \A i \in 1 .. Len(strip_extension(name)) : strip_extension(name)[i] = name[i]
<1> DEFINE dots == {i \in DOMAIN name : name[i] = Dot}
<1>1. Len(name) \in Nat /\ DOMAIN name = 1 .. Len(name)
  BY DEF NameText
<1>2. CASE dots = {}
  BY <1>1, <1>2 DEF strip_extension
<1>3. CASE dots # {}
  <2> DEFINE mirror == {Len(name) - i : i \in dots}
             last == CHOOSE i \in dots : \A j \in dots : j <= i
  <2>1. PICK m \in mirror : \A j \in mirror : m <= j
    <3>1. mirror \in SUBSET Nat /\ mirror # {}
      BY <1>1, <1>3
    <3> HIDE DEF mirror
    <3> QED
      BY <3>1, Least
  <2>2. PICK k \in dots : m = Len(name) - k
    OBVIOUS
  <2>3. \A j \in dots : j <= k
    <3>1. ASSUME NEW j \in dots PROVE j <= k
      <4>1. Len(name) - k <= Len(name) - j
        BY <2>1, <2>2
      <4> QED
        BY <1>1, <4>1
    <3> QED
      BY <3>1
  <2>4. last \in dots
    BY <2>3
  <2>5. strip_extension(name) = SubSeq(name, 1, last - 1)
    BY <1>3 DEF strip_extension
  <2> HIDE DEF last
  <2>6. last \in 1 .. Len(name)
    BY <1>1, <2>4
  <2> HIDE DEF dots
  <2> QED
    BY <1>1, <2>5, <2>6, SubSeqProperties DEF NameText
<1> QED
  BY <1>2, <1>3

\* An extension and the dot before it are the end of a name.
LEMMA ExtensionIs ==
  ASSUME NEW name \in NameText, check_extension(name, srt)
  PROVE  name[Len(name) - 1] = Dot /\ name[Len(name)] = srt
<1> DEFINE end == <<Dot, srt>>
<1>1. IsPrefix(Reverse(end), Reverse(name))
  BY DEF check_extension, IsSuffix
<1>2. Reverse(end) = <<srt, Dot>>
  BY DEF Reverse
<1>3. Len(Reverse(name)) = Len(name) /\ \A i \in 1 .. Len(name) : Reverse(name)[i] = name[Len(name) - i + 1]
  BY DEF Reverse, NameText
<1>4. Len(name) \in Nat
  BY DEF NameText
<1> HIDE DEF end
<1> DEFINE e == Reverse(end)
           t == Reverse(name)
<1>5. Len(e) = 2 /\ e[1] = srt /\ e[2] = Dot
  BY <1>2
<1>6. Len(e) <= Len(t) /\ \A i \in 1 .. Len(e) : e[i] = t[i]
  BY <1>1 DEF IsPrefix
<1> HIDE DEF e, t
<1>7. Len(t) >= 2 /\ t[1] = srt /\ t[2] = Dot
  BY <1>5, <1>6
<1> QED
  BY <1>3, <1>4, <1>7 DEF t

\* The file to play is the first argument that is no option.
LEMMA FirstIs ==
  ASSUME NEW args \in Arguments, file_to_play(args) # NoFile
  PROVE  \E i \in DOMAIN args :
           /\ args[i] # Option /\ \A j \in 1 .. (i - 1) : args[j] = Option
           /\ args[i] = file_to_play(args) /\ args[i] \in NameText
<1> DEFINE names == {i \in DOMAIN args : args[i] # Option}
           first == CHOOSE i \in names : \A j \in names : i <= j
<1>1. args \in Seq(NameText \cup {Option})
  BY PlaylistAssumption DEF NameText
<1>2. names # {} /\ file_to_play(args) = args[first]
  BY DEF file_to_play
<1>3. DOMAIN args = 1 .. Len(args) /\ Len(args) \in Nat /\ \A i \in DOMAIN args : args[i] \in NameText \cup {Option}
  BY <1>1
<1>4. names \in SUBSET Nat
  BY <1>3
<1>5. first \in names /\ \A j \in names : first <= j
  <2> HIDE DEF names
  <2> QED
    BY <1>2, <1>4, Least
<1> HIDE DEF first
<1>6. ASSUME NEW j \in 1 .. (first - 1) PROVE args[j] = Option
  <2>1. j \in DOMAIN args /\ ~(first <= j)
    BY <1>3, <1>5
  <2> QED
    BY <1>5, <2>1
<1> QED
  BY <1>2, <1>3, <1>5, <1>6

\* The names that are found, for a name to play.
LEMMA FoundIs ==
  ASSUME NEW p \in NameText, NEW name \in NameText, ~Grows(strip_extension(p)), ~Grows(name),
         check_extension(name, srt)
  PROVE  IsSubtitles(name, uppercase(strip_extension(p))) <=>
           /\ Len(strip_extension(name)) >= Len(strip_extension(p))
           /\ \A k \in DOMAIN strip_extension(p) :
                Upper[strip_extension(name)[k]] = Upper[strip_extension(p)[k]]
<1> DEFINE play == strip_extension(p)
           stem == strip_extension(name)
           begin == SubSeq(stem, 1, Len(play))
<1>1. play \in NameText /\ stem \in NameText
  BY StemIs
<1>2. \A i \in 1 .. Len(stem) : i \in DOMAIN name /\ stem[i] = name[i]
  BY StemIs DEF NameText
<1>3. Len(uppercase(play)) = Len(play)
  BY <1>1, UppercaseOf
<1>6. ~Grows(play)
  OBVIOUS
<1> HIDE DEF play, stem
<1>4. IsSubtitles(name, uppercase(play)) <=> Len(stem) >= Len(play) /\ uppercase(begin) = uppercase(play)
  BY <1>3 DEF IsSubtitles, stem
<1>5. ASSUME Len(stem) >= Len(play)
      PROVE  uppercase(begin) = uppercase(play) <=> \A k \in DOMAIN play : Upper[stem[k]] = Upper[play[k]]
  <2>1. begin \in NameText /\ Len(begin) = Len(play) /\ \A k \in 1 .. Len(play) : begin[k] = stem[k]
    BY <1>1, <1>5, SubSeqProperties DEF NameText
  <2>2. ~Grows(begin)
    <3>1. ASSUME NEW k \in DOMAIN begin PROVE Len(Upper[begin[k]]) = 1
      <4>1. k \in 1 .. Len(stem) /\ begin[k] = stem[k]
        BY <1>1, <1>5, <2>1 DEF NameText
      <4> QED
        BY <1>2, <4>1 DEF Grows
    <3> QED
      BY <3>1 DEF Grows
  <2> HIDE DEF begin
  <2>3. DOMAIN play = 1 .. Len(play)
    BY <1>1 DEF NameText
  <2>4. ~Grows(play)
    BY <1>6
  <2>5. uppercase(begin) = uppercase(play) <=> \A k \in 1 .. Len(play) : Upper[begin[k]] = Upper[play[k]]
    BY <1>1, <2>1, <2>2, <2>4, SameCase
  <2> QED
    BY <2>1, <2>3, <2>5
<1> QED
  BY <1>4, <1>5 DEF play, stem

\* Nothing is found but for the arguments that were given.
PlaylistInv ==
  /\ argv \in Arguments
  /\ found = NotYet \/ (file_to_play(argv) # NoFile /\ found = subtitles_paths(file_to_play(argv)))

LEMMA PlaylistGives ==
  ASSUME PlaylistInv
  PROVE  SubtitlesAreFound
<1> SUFFICES ASSUME found # NotYet PROVE SubtitlesAreFound
  BY DEF SubtitlesAreFound
<1>1. PICK i \in DOMAIN argv :
        /\ argv[i] # Option /\ \A j \in 1 .. (i - 1) : argv[j] = Option
        /\ argv[i] = file_to_play(argv) /\ argv[i] \in NameText
  BY FirstIs DEF PlaylistInv
<1> DEFINE p == argv[i]
           play == strip_extension(p)
<1>2. \A name \in FileNames : name \in found <=> IsSubtitles(name, uppercase(play))
  BY <1>1 DEF PlaylistInv, subtitles_paths
<1>3. ASSUME NEW name \in FileNames
      PROVE  /\ name \in found => name[Len(name) - 1] = Dot /\ Last(name) = srt
             /\ ~Grows(play) /\ ~Grows(name) =>
                  (name \in found <=>
                     /\ check_extension(name, srt)
                     /\ Len(strip_extension(name)) >= Len(play)
                     /\ \A k \in DOMAIN play : Upper[strip_extension(name)[k]] = Upper[play[k]])
  <2>1. name \in NameText
    BY PlaylistAssumption DEF NameText
  <2>2. name \in found => check_extension(name, srt)
    BY <1>2 DEF IsSubtitles
  <2>3. name \in found => name[Len(name) - 1] = Dot /\ Last(name) = srt
    BY <2>1, <2>2, ExtensionIs DEF Last
  <2>4. ~Grows(play) /\ ~Grows(name) /\ check_extension(name, srt) =>
          (name \in found <=>
             /\ Len(strip_extension(name)) >= Len(play)
             /\ \A k \in DOMAIN play : Upper[strip_extension(name)[k]] = Upper[play[k]])
    BY <1>1, <1>2, <2>1, FoundIs
  <2> QED
    BY <2>2, <2>3, <2>4
<1> QED
  BY <1>1, <1>3 DEF SubtitlesAreFound

\* The file to play is the first argument that is no option, and for any letters
\* and names its subtitles are the ".srt" files that begin as it does, in any case.
THEOREM SubtitlesFound == PlaylistSpec => []SubtitlesAreFound
<1>1. PlaylistInit => PlaylistInv
  BY DEF PlaylistInit, PlaylistInv
<1>2. PlaylistInv /\ [PlaylistNext]_playlistVars => PlaylistInv'
  BY DEF PlaylistInv, PlaylistNext, FindSubtitlesOf, playlistVars
<1>3. PlaylistInv => SubtitlesAreFound
  BY PlaylistGives
<1> QED
  BY <1>1, <1>2, <1>3, PTL DEF PlaylistSpec

-----------------------------------------------------------------------------
(***************************************************************************)
(* Strings, for any periods and sizes and strings of any length.           *)
(***************************************************************************)

\* Division of what is not negative, and that nothing else is the quotient.
LEMMA QuotientIs ==
  ASSUME NEW n \in Nat, NEW d \in Nat \ {0}
  PROVE  /\ Quotient(n, d) \in Nat
         /\ Quotient(n, d) * d <= n /\ n < (Quotient(n, d) + 1) * d
<1>1. n \div d \in Nat /\ (n \div d) * d <= n /\ n < (n \div d + 1) * d
  OBVIOUS
<1>2. Quotient(n, d) = n \div d
  BY DEF Quotient
<1> QED
  BY <1>1, <1>2

LEMMA TimesGrows ==
  ASSUME NEW a \in Int, NEW b \in Int, NEW d \in Nat \ {0}
  PROVE  /\ a <= b <=> a * d <= b * d
         /\ a < b <=> a * d < b * d
  OBVIOUS

LEMMA QuotientOnly ==
  ASSUME NEW n \in Nat, NEW d \in Nat \ {0}, NEW q \in Int, q * d <= n, n < (q + 1) * d
  PROVE  q = Quotient(n, d)
<1>1. PICK k : k = Quotient(n, d)
  OBVIOUS
<1>2. k \in Nat /\ k * d <= n /\ n < (k + 1) * d
  BY <1>1, QuotientIs
<1>3. q < k + 1
  <2>1. q * d < (k + 1) * d
    BY <1>2
  <2> QED
    BY <2>1, <1>2, TimesGrows
<1>4. k < q + 1
  <2>1. k * d < (q + 1) * d
    BY <1>2
  <2> QED
    BY <2>1, <1>2, TimesGrows
<1> QED
  BY <1>1, <1>2, <1>3, <1>4

\* A number with its tenths.
LEMMA TenthsAre ==
  ASSUME NEW n \in Nat, NEW u \in Nat \ {0}, NEW q, q = Quotient(n, u), NEW z, z = Quotient(n * 10, u)
  PROVE  /\ q \in Nat /\ z \in Nat /\ z - q * 10 \in 0..9
         /\ z * u <= n * 10 /\ n * 10 < (z + 1) * u
<1>1. q \in Nat /\ q * u <= n /\ n < (q + 1) * u
  BY QuotientIs
<1>2. n * 10 \in Nat
  OBVIOUS
<1>3. z \in Nat /\ z * u <= n * 10 /\ n * 10 < (z + 1) * u
  BY <1>2, QuotientIs
<1>4. q * 10 < z + 1
  <2>1. (q * 10) * u = (q * u) * 10
    BY <1>1
  <2>2. (q * 10) * u < (z + 1) * u
    BY <1>1, <1>3, <2>1
  <2> QED
    BY <1>1, <1>3, <2>2, TimesGrows
<1>5. z < q * 10 + 10
  <2>1. (q * 10 + 10) * u = ((q + 1) * u) * 10
    BY <1>1
  <2>2. z * u < (q * 10 + 10) * u
    BY <1>1, <1>3, <2>1
  <2> QED
    BY <1>1, <1>3, <2>2, TimesGrows
<1> QED
  BY <1>1, <1>3, <1>4, <1>5

\* What is assumed of a kilobyte.
LEMMA KiloIs ==
  /\ Kilo \in Nat /\ Thousand \in Nat /\ Kilo >= 100 /\ Kilo <= 10 * Thousand /\ Thousand > 0
  /\ 9 * Kilo <= 10 * Thousand
BY StringsAssumption

\* The numbers of a unit: no smaller unit has as many, and a larger one has none.
LEMMA NumberIs ==
  ASSUME NEW size \in Nat, NEW below \in Nat \ {0}, NEW unit, unit = Kilo * below,
         Quotient(size, unit) # 0
  PROVE  /\ unit \in Nat \ {0}
         /\ Quotient(size, below) >= Kilo
         /\ Quotient(size, Thousand * below) >= 10 => Quotient(size, unit) > 8
         /\ Quotient(size, Thousand * below) < 10 => Quotient(size, below) < 10 * Thousand
<1>1. unit \in Nat \ {0}
  BY KiloIs
<1>2. PICK q, b, z : q = Quotient(size, unit) /\ b = Quotient(size, below) /\ z = Quotient(size, Thousand * below)
  OBVIOUS
<1>3. q \in Nat /\ q * unit <= size /\ size < (q + 1) * unit
  BY <1>1, <1>2, QuotientIs
<1>4. b \in Nat /\ b * below <= size /\ size < (b + 1) * below
  BY <1>2, QuotientIs
<1>5. Thousand * below \in Nat \ {0}
  BY KiloIs
<1>6. z \in Nat /\ z * (Thousand * below) <= size /\ size < (z + 1) * (Thousand * below)
  BY <1>2, <1>5, QuotientIs
<1>7. b >= Kilo
  <2>1. q >= 1
    BY <1>2, <1>3
  <2>2. unit <= q * unit
    BY <1>1, <1>3, <2>1
  <2>3. Kilo * below < (b + 1) * below
    BY <1>1, <1>3, <1>4, <2>2
  <2>4. Kilo < b + 1
    BY <1>4, <2>3, KiloIs, TimesGrows
  <2> QED
    BY <1>4, <2>4, KiloIs
<1>8. ASSUME z >= 10 PROVE q > 8
  <2>1. 10 * (Thousand * below) <= z * (Thousand * below)
    BY <1>5, <1>6, <1>8
  <2>2. 10 * (Thousand * below) = (10 * Thousand) * below
    BY KiloIs
  <2>3. (9 * Kilo) * below <= (10 * Thousand) * below
    BY KiloIs, TimesGrows
  <2>4. (9 * Kilo) * below = 9 * unit
    BY KiloIs
  <2>5. 9 * unit < (q + 1) * unit
    BY <1>1, <1>3, <1>5, <1>6, <2>1, <2>2, <2>3, <2>4
  <2>6. 9 < q + 1
    BY <1>1, <1>3, <2>5, TimesGrows
  <2> QED
    BY <1>3, <2>6
<1>9. ASSUME z < 10 PROVE b < 10 * Thousand
  <2>1. z + 1 <= 10
    BY <1>6, <1>9
  <2>2. (z + 1) * (Thousand * below) <= 10 * (Thousand * below)
    BY <1>5, <1>6, <2>1
  <2>3. 10 * (Thousand * below) = (10 * Thousand) * below
    BY KiloIs
  <2>4. b * below < (10 * Thousand) * below
    BY <1>4, <1>5, <1>6, <2>2, <2>3
  <2> QED
    BY <1>4, <2>4, KiloIs, TimesGrows
<1> QED
  BY <1>1, <1>2, <1>6, <1>7, <1>8, <1>9

\* A number of a unit with a tenth, and when it is right for a size.
ShownAs(n, unit, fraction) == [n |-> n, unit |-> unit, fraction |-> fraction]

LEMMA SizeOf ==
  ASSUME NEW size, NEW n, NEW unit, NEW fraction,
         fraction \in 0..9, n * unit <= size, size < (n + 1) * unit,
         unit # Gigabyte => n < 10 * Thousand,
         (10 * n + fraction) * unit <= 10 * size,
         unit > 1 /\ n < 100 => 10 * size < (10 * n + fraction + 1) * unit + 10 * Kilo,
         unit > 1 => n > 8
  PROVE  SizeIsShown(size, ShownAs(n, unit, fraction))
<1>1. PICK r : r = ShownAs(n, unit, fraction)
  OBVIOUS
<1>2. r.n = n /\ r.unit = unit /\ r.fraction = fraction
  BY <1>1 DEF ShownAs
<1> QED
  BY <1>1, <1>2 DEF SizeIsShown

\* The units, each larger than the one before.
LEMMA UnitsAre ==
  /\ Kilobyte = Kilo /\ Megabyte = Kilo * Kilobyte /\ Gigabyte = Kilo * Megabyte
  /\ Kilobyte \in Nat /\ Megabyte \in Nat /\ Gigabyte \in Nat
  /\ 1 < Kilobyte /\ Kilobyte < Megabyte /\ Megabyte < Gigabyte
<1>1. Kilo \in Nat /\ Kilo >= 100
  BY KiloIs
<1>2. Kilobyte = Kilo /\ Megabyte = Kilo * Kilobyte /\ Gigabyte = Kilo * Megabyte
  BY <1>1 DEF Kilobyte, Megabyte, Gigabyte
<1>3. Megabyte \in Nat /\ Gigabyte \in Nat
  BY <1>1, <1>2
<1>4. ASSUME NEW n \in Nat, n > 0 PROVE n < Kilo * n
  <2>1. 1 * n < Kilo * n
    BY <1>1, <1>4, TimesGrows
  <2> QED
    BY <1>4, <2>1
<1>5. 1 < Kilobyte /\ Kilobyte < Megabyte /\ Megabyte < Gigabyte
  BY <1>1, <1>2, <1>3, <1>4
<1> QED
  BY <1>1, <1>2, <1>3, <1>5

\* The tenths of a unit, and those of gigabytes, which are counted from kilobytes.
TenthsOf(size, unit) ==
  IF unit = Gigabyte THEN Quotient(Quotient(size, Kilo) * 10, Kilo * Kilo) - Quotient(size, unit) * 10
  ELSE Quotient(size * 10, unit) - Quotient(size, unit) * 10

LEMMA TenthsOfIs ==
  ASSUME NEW size \in Nat, NEW unit \in Nat \ {0}, NEW q, q = Quotient(size, unit)
  PROVE  /\ TenthsOf(size, unit) \in 0..9
         /\ (10 * q + TenthsOf(size, unit)) * unit <= 10 * size
         /\ 10 * size < (10 * q + TenthsOf(size, unit) + 1) * unit + 10 * Kilo
<1>1. q \in Nat /\ q * unit <= size /\ size < (q + 1) * unit
  BY QuotientIs
<1>2. Kilo \in Nat \ {0}
  BY KiloIs
<1>3. CASE unit # Gigabyte
  <2>1. PICK z : z = Quotient(size * 10, unit)
    OBVIOUS
  <2>2. z \in Nat /\ z - q * 10 \in 0..9 /\ z * unit <= size * 10 /\ size * 10 < (z + 1) * unit
    BY <2>1, TenthsAre
  <2>3. TenthsOf(size, unit) = z - q * 10
    BY <1>3, <2>1 DEF TenthsOf
  <2>4. 10 * q + TenthsOf(size, unit) = z
    BY <1>1, <2>2, <2>3
  <2> QED
    BY <1>2, <2>2, <2>3, <2>4
<1>4. CASE unit = Gigabyte
  <2>1. PICK k, m : k = Quotient(size, Kilo) /\ m = Kilo * Kilo
    OBVIOUS
  <2>2. m \in Nat \ {0} /\ unit = m * Kilo
    BY <1>2, <1>4, <2>1 DEF Gigabyte
  <2>3. k \in Nat /\ k * Kilo <= size /\ size < (k + 1) * Kilo
    BY <1>2, <2>1, QuotientIs
  <2>4. q = Quotient(k, m)
    <3>1. q * m < k + 1
      <4>1. (q * m) * Kilo = q * unit
        BY <1>1, <1>2, <2>2
      <4>2. (q * m) * Kilo < (k + 1) * Kilo
        <5>1. PICK a, b, c : a = q * unit /\ b = (k + 1) * Kilo /\ c = (q * m) * Kilo
          OBVIOUS
        <5>2. a \in Int /\ b \in Int /\ a <= size /\ size < b
          BY <1>1, <1>2, <2>3, <5>1
        <5>3. c = a
          BY <4>1, <5>1
        <5>4. c < b
          BY <5>2, <5>3
        <5> QED
          BY <5>1, <5>4
      <4>3. q * m \in Nat
        BY <1>1, <2>2
      <4> QED
        BY <1>2, <2>3, <4>2, <4>3, TimesGrows
    <3>2. k < (q + 1) * m
      <4>1. ((q + 1) * m) * Kilo = (q + 1) * unit
        BY <1>1, <1>2, <2>2
      <4>2. k * Kilo < ((q + 1) * m) * Kilo
        <5>1. PICK a, b, c : a = (q + 1) * unit /\ b = k * Kilo /\ c = ((q + 1) * m) * Kilo
          OBVIOUS
        <5>2. a \in Int /\ b \in Int /\ b <= size /\ size < a
          BY <1>1, <1>2, <2>3, <5>1
        <5>3. c = a
          BY <4>1, <5>1
        <5>4. b < c
          BY <5>2, <5>3
        <5> QED
          BY <5>1, <5>4
      <4>3. (q + 1) * m \in Nat
        BY <1>1, <2>2
      <4> QED
        BY <1>2, <2>3, <4>2, <4>3, TimesGrows
    <3>3. q * m \in Nat
      BY <1>1, <2>2
    <3>4. q * m <= k
      BY <2>3, <3>1, <3>3
    <3> QED
      BY <1>1, <2>2, <2>3, <3>2, <3>4, QuotientOnly
  <2>5. PICK z : z = Quotient(k * 10, m)
    OBVIOUS
  <2>6. z \in Nat /\ z - q * 10 \in 0..9 /\ z * m <= k * 10 /\ k * 10 < (z + 1) * m
    BY <2>2, <2>3, <2>4, <2>5, TenthsAre
  <2>7. TenthsOf(size, unit) = z - q * 10
    BY <1>4, <2>1, <2>5 DEF TenthsOf
  <2>8. z * unit <= 10 * size
    <3>1. z * unit = (z * m) * Kilo
      BY <1>2, <2>2, <2>6
    <3>2. z * m \in Nat
      BY <2>2, <2>6
    <3>3. (z * m) * Kilo <= (k * 10) * Kilo
      BY <1>2, <2>3, <2>6, <3>2, TimesGrows
    <3>4. (k * 10) * Kilo = 10 * (k * Kilo)
      BY <1>2, <2>3
    <3>5. k * Kilo \in Nat /\ z * unit \in Nat
      BY <1>2, <2>3, <2>6
    <3> QED
      BY <2>3, <3>1, <3>3, <3>4, <3>5
  <2>9. 10 * size < (z + 1) * unit + 10 * Kilo
    <3>1. (z + 1) * unit = ((z + 1) * m) * Kilo
      BY <1>2, <2>2, <2>6
    <3>2. (z + 1) * m \in Nat
      BY <2>2, <2>6
    <3>3. (k * 10) * Kilo < ((z + 1) * m) * Kilo
      BY <1>2, <2>3, <2>6, <3>2, TimesGrows
    <3>4. (k * 10) * Kilo = 10 * (k * Kilo) /\ (k + 1) * Kilo = k * Kilo + Kilo
      BY <1>2, <2>3
    <3>5. k * Kilo \in Nat /\ (z + 1) * unit \in Nat
      BY <1>2, <2>3, <2>6
    <3> QED
      BY <1>2, <2>3, <3>1, <3>3, <3>4, <3>5
  <2>10. 10 * q + TenthsOf(size, unit) = z
    BY <1>1, <2>6, <2>7
  <2> QED
    BY <2>6, <2>7, <2>8, <2>9, <2>10
<1> QED
  BY <1>3, <1>4

\* A size of at least a unit, and of less than the next one, if there is one.
LEMMA InIs ==
  ASSUME NEW size \in Nat, NEW below \in Nat \ {0}, NEW unit, unit = Kilo * below,
         Quotient(size, unit) # 0,
         unit # Gigabyte => Quotient(size, unit) <= Kilo, below # Gigabyte
  PROVE  SizeIsShown(size, In(size, unit, below))
<1>1. PICK q, b, f : q = Quotient(size, unit) /\ b = Quotient(size, below) /\ f = TenthsOf(size, unit)
  OBVIOUS
<1>2. /\ unit \in Nat \ {0} /\ b >= Kilo
      /\ Quotient(size, Thousand * below) >= 10 => q > 8
      /\ Quotient(size, Thousand * below) < 10 => b < 10 * Thousand
  BY <1>1, NumberIs
<1>3. q \in Nat /\ q * unit <= size /\ size < (q + 1) * unit
  BY <1>1, <1>2, QuotientIs
<1>4. b \in Nat /\ b * below <= size /\ size < (b + 1) * below
  BY <1>1, QuotientIs
<1>5. /\ f \in 0..9 /\ (10 * q + f) * unit <= 10 * size
      /\ 10 * size < (10 * q + f + 1) * unit + 10 * Kilo
  BY <1>1, <1>2, TenthsOfIs
<1>6. Kilo \in Nat /\ Kilo >= 100 /\ 9 * Kilo <= 10 * Thousand /\ Thousand \in Nat /\ Thousand > 0
  BY KiloIs
<1>7. Quotient(size, Thousand * below) \in Nat
  <2>1. Thousand * below \in Nat \ {0}
    BY <1>6
  <2> QED
    BY <2>1, QuotientIs
<1>8. CASE Quotient(size, Thousand * below) >= 10
  <2>1. In(size, unit, below) = ShownAs(q, unit, IF q >= 100 THEN 0 ELSE f)
    BY <1>1, <1>8 DEF In, ShownAs, TenthsOf
  <2>2. unit # Gigabyte => q < 10 * Thousand
    BY <1>1, <1>3, <1>6
  <2>3. (10 * q + 0) * unit <= 10 * size
    <3>1. (10 * q + 0) * unit = 10 * (q * unit)
      BY <1>2, <1>3
    <3>2. q * unit \in Nat
      BY <1>2, <1>3
    <3> QED
      BY <1>3, <3>1, <3>2
  <2>4. q > 8
    BY <1>2, <1>8
  <2>5. CASE q >= 100
    <3>1. SizeIsShown(size, ShownAs(q, unit, 0))
      BY <1>3, <2>2, <2>3, <2>4, <2>5, SizeOf
    <3> QED
      BY <2>1, <2>5, <3>1
  <2>6. CASE q < 100
    <3>1. SizeIsShown(size, ShownAs(q, unit, f))
      BY <1>3, <1>5, <2>2, <2>4, SizeOf
    <3>2. ~(q >= 100)
      BY <1>3, <2>6
    <3> QED
      BY <2>1, <3>1, <3>2
  <2> QED
    BY <1>3, <2>5, <2>6
<1>9. CASE Quotient(size, Thousand * below) < 10
  <2>1. ~(Quotient(size, Thousand * below) >= 10)
    BY <1>7, <1>9
  <2>2. In(size, unit, below) = ShownAs(b, below, 0)
    BY <1>1, <2>1 DEF In, ShownAs
  <2>3. (10 * b + 0) * below <= 10 * size
    <3>1. (10 * b + 0) * below = 10 * (b * below)
      BY <1>4
    <3>2. b * below \in Nat
      BY <1>4
    <3> QED
      BY <1>4, <3>1, <3>2
  <2>4. ~(b < 100) /\ b > 8
    BY <1>2, <1>4, <1>6
  <2>5. b < 10 * Thousand
    BY <1>2, <1>9
  <2>6. SizeIsShown(size, ShownAs(b, below, 0))
    BY <1>4, <2>3, <2>4, <2>5, SizeOf
  <2> QED
    BY <2>2, <2>6
<1> QED
  BY <1>7, <1>8, <1>9

\* A quotient is zero for less than one unit.
LEMMA QuotientZero ==
  ASSUME NEW size \in Nat, NEW unit \in Nat \ {0}
  PROVE  Quotient(size, unit) = 0 <=> size < unit
<1>1. PICK q : q = Quotient(size, unit)
  OBVIOUS
<1>2. q \in Nat /\ q * unit <= size /\ size < (q + 1) * unit
  BY <1>1, QuotientIs
<1>3. q = 0 => size < unit
  BY <1>2
<1>4. ASSUME q # 0 PROVE ~(size < unit)
  <2>1. 1 * unit <= q * unit
    BY <1>2, <1>4, TimesGrows
  <2> QED
    BY <1>2, <2>1
<1> QED
  BY <1>1, <1>3, <1>4

\* Below the next unit there are fewer of one than that takes.
LEMMA QuotientBelow ==
  ASSUME NEW size \in Nat, NEW unit \in Nat \ {0}, Quotient(size, Kilo * unit) = 0
  PROVE  Quotient(size, unit) <= Kilo
<1>1. Kilo \in Nat /\ Kilo * unit \in Nat \ {0}
  BY KiloIs
<1>2. size < Kilo * unit
  BY <1>1, QuotientZero
<1>3. PICK q : q = Quotient(size, unit)
  OBVIOUS
<1>4. q \in Nat /\ q * unit <= size
  BY <1>3, QuotientIs
<1>5. q * unit < Kilo * unit
  BY <1>1, <1>2, <1>4
<1>6. q < Kilo
  BY <1>1, <1>4, <1>5, TimesGrows
<1> QED
  BY <1>1, <1>3, <1>4, <1>6

\* A size is right in whichever unit it is shown, and so is a speed.
LEMMA SizesAre ==
  ASSUME NEW size \in Nat \ {0}, NEW zero \in BOOLEAN
  PROVE  Len(size_to_string(size, zero)) = 1 /\ SizeIsShown(size, size_to_string(size, zero)[1])
<1>1. /\ Kilobyte = Kilo * 1 /\ Megabyte = Kilo * Kilobyte /\ Gigabyte = Kilo * Megabyte
      /\ 1 \in Nat \ {0} /\ Kilobyte \in Nat \ {0} /\ Megabyte \in Nat \ {0} /\ Gigabyte \in Nat \ {0}
      /\ 1 # Gigabyte /\ Kilobyte # Gigabyte /\ Megabyte # Gigabyte
      /\ 1 < Kilobyte
  BY UnitsAre
<1> DEFINE S == size_to_string(size, zero)
<1>2. ~(~zero /\ size <= 0)
  OBVIOUS
<1>3. CASE Quotient(size, Gigabyte) # 0
  <2>1. S = <<In(size, Gigabyte, Megabyte)>>
    <3>1. ~(size < Megabyte)
      <4>1. ~(size < Gigabyte)
        BY <1>1, <1>3, QuotientZero
      <4> QED
        BY <4>1, UnitsAre
    <3>2. Quotient(size, Megabyte) # 0
      BY <1>1, <3>1, QuotientZero
    <3> QED
      BY <1>2, <1>3, <3>2 DEF size_to_string
  <2>2. SizeIsShown(size, In(size, Gigabyte, Megabyte))
    BY <1>1, <1>3, InIs
  <2> QED
    BY <2>1, <2>2
<1>4. CASE Quotient(size, Gigabyte) = 0 /\ Quotient(size, Megabyte) # 0
  <2>1. S = <<In(size, Megabyte, Kilobyte)>>
    BY <1>2, <1>4 DEF size_to_string
  <2>2. Quotient(size, Megabyte) <= Kilo
    BY <1>1, <1>4, QuotientBelow
  <2>3. SizeIsShown(size, In(size, Megabyte, Kilobyte))
    BY <1>1, <1>4, <2>2, InIs
  <2> QED
    BY <2>1, <2>3
<1>5. CASE Quotient(size, Megabyte) = 0 /\ Quotient(size, Kilobyte) # 0
  <2>1. Quotient(size, Gigabyte) = 0
    <3>1. size < Megabyte
      BY <1>1, <1>5, QuotientZero
    <3>2. size < Gigabyte
      BY <3>1, UnitsAre
    <3> QED
      BY <1>1, <3>2, QuotientZero
  <2>2. S = <<In(size, Kilobyte, 1)>>
    BY <1>2, <1>5, <2>1 DEF size_to_string
  <2>3. Quotient(size, Kilobyte) <= Kilo
    BY <1>1, <1>5, QuotientBelow
  <2>4. SizeIsShown(size, In(size, Kilobyte, 1))
    BY <1>1, <1>5, <2>3, InIs
  <2> QED
    BY <2>2, <2>4
<1>6. CASE Quotient(size, Kilobyte) = 0
  <2>1. size < Kilobyte
    BY <1>1, <1>6, QuotientZero
  <2>2. Quotient(size, Megabyte) = 0 /\ Quotient(size, Gigabyte) = 0
    <3>1. size < Megabyte /\ size < Gigabyte
      BY <2>1, UnitsAre
    <3> QED
      BY <1>1, <3>1, QuotientZero
  <2>3. S = <<ShownAs(size, 1, 0)>>
    BY <1>2, <1>6, <2>2 DEF size_to_string, ShownAs
  <2>4. size < 10 * Thousand
    BY <2>1, UnitsAre, KiloIs
  <2>5. SizeIsShown(size, ShownAs(size, 1, 0))
    BY <2>4, SizeOf
  <2> QED
    BY <2>3, <2>5
<1> QED
  BY <1>3, <1>4, <1>5, <1>6

LEMMA SpeedsAre ==
  ASSUME NEW speed \in Nat \ {0}, NEW zero \in BOOLEAN
  PROVE  Len(speed_to_string(speed, zero)) = 1 /\ SizeIsShown(speed, speed_to_string(speed, zero)[1])
<1>1. speed # 0 /\ speed > 0
  OBVIOUS
<1>2. speed_to_string(speed, zero) = size_to_string(speed, TRUE)
  BY <1>1 DEF speed_to_string
<1>3. TRUE \in BOOLEAN
  OBVIOUS
<1>4. Len(size_to_string(speed, TRUE)) = 1 /\ SizeIsShown(speed, size_to_string(speed, TRUE)[1])
  BY <1>3, SizesAre
<1> QED
  BY <1>2, <1>4

\* Amounts that are a total, none of them zero, each less than one of the unit before.
Rightly(parts, total) ==
  /\ parts # <<>>
  /\ Total(parts) = total
  /\ \A i \in DOMAIN parts : parts[i].n > 0
  /\ \A i \in 2 .. Len(parts) : parts[i].n * parts[i].unit < parts[i - 1].unit

\* Their total, for one amount and for two.
LEMMA OneAmount ==
  ASSUME NEW n \in Int, NEW unit \in Int, n > 0
  PROVE  Rightly(<<Amount(n, unit)>>, n * unit)
<1>1. PICK x : x = Amount(n, unit)
  OBVIOUS
<1>2. x.n = n /\ x.unit = unit
  BY <1>1 DEF Amount
<1>3. PICK p : p = <<x>>
  OBVIOUS
<1>4. Len(p) = 1 /\ DOMAIN p = 1..1 /\ p[1] = x /\ p # <<>>
  BY <1>3
<1> DEFINE sum == CHOOSE f : f = [k \in 0..Len(p) |-> IF k = 0 THEN 0 ELSE f[k - 1] + p[k].n * p[k].unit]
           g == [k \in 0..1 |-> IF k = 0 THEN 0 ELSE n * unit]
<1>5. g = [k \in 0..Len(p) |-> IF k = 0 THEN 0 ELSE g[k - 1] + p[k].n * p[k].unit]
  <2>1. ASSUME NEW k \in 0..1 PROVE g[k] = IF k = 0 THEN 0 ELSE g[k - 1] + p[k].n * p[k].unit
    BY <1>2, <1>4
  <2> QED
    BY <1>4, <2>1
<1>6. sum = [k \in 0..Len(p) |-> IF k = 0 THEN 0 ELSE sum[k - 1] + p[k].n * p[k].unit]
  <2> HIDE DEF g
  <2> QED
    BY <1>5
<1>7. Total(p) = sum[1]
  BY <1>4 DEF Total
<1> HIDE DEF sum
<1>8. sum[0] = 0 /\ sum[1] = n * unit
  <2>1. sum[0] = 0
    BY <1>4, <1>6
  <2>2. sum[1] = sum[0] + n * unit
    BY <1>2, <1>4, <1>6
  <2> QED
    BY <2>1, <2>2
<1>9. Rightly(p, n * unit)
  BY <1>2, <1>4, <1>7, <1>8 DEF Rightly
<1> QED
  BY <1>1, <1>3, <1>9

LEMMA TwoAmounts ==
  ASSUME NEW n \in Int, NEW unit \in Int, n > 0, NEW m \in Int, NEW below \in Int, m > 0, m * below < unit
  PROVE  Rightly(<<Amount(n, unit), Amount(m, below)>>, n * unit + m * below)
<1>1. PICK x, y : x = Amount(n, unit) /\ y = Amount(m, below)
  OBVIOUS
<1>2. x.n = n /\ x.unit = unit /\ y.n = m /\ y.unit = below
  BY <1>1 DEF Amount
<1>3. PICK p : p = <<x, y>>
  OBVIOUS
<1>4. Len(p) = 2 /\ DOMAIN p = 1..2 /\ p[1] = x /\ p[2] = y /\ p # <<>>
  BY <1>3
<1> DEFINE sum == CHOOSE f : f = [k \in 0..Len(p) |-> IF k = 0 THEN 0 ELSE f[k - 1] + p[k].n * p[k].unit]
           g == [k \in 0..2 |-> IF k = 0 THEN 0 ELSE IF k = 1 THEN n * unit ELSE n * unit + m * below]
<1>5. g = [k \in 0..Len(p) |-> IF k = 0 THEN 0 ELSE g[k - 1] + p[k].n * p[k].unit]
  <2>1. ASSUME NEW k \in 0..2 PROVE g[k] = IF k = 0 THEN 0 ELSE g[k - 1] + p[k].n * p[k].unit
    BY <1>2, <1>4
  <2> QED
    BY <1>4, <2>1
<1>6. sum = [k \in 0..Len(p) |-> IF k = 0 THEN 0 ELSE sum[k - 1] + p[k].n * p[k].unit]
  <2> HIDE DEF g
  <2> QED
    BY <1>5
<1>7. Total(p) = sum[2]
  BY <1>4 DEF Total
<1> HIDE DEF sum
<1>8. sum[2] = n * unit + m * below
  <2>1. sum[0] = 0
    BY <1>4, <1>6
  <2>2. sum[1] = sum[0] + n * unit
    BY <1>2, <1>4, <1>6
  <2>3. sum[2] = sum[1] + m * below
    BY <1>2, <1>4, <1>6
  <2> QED
    BY <2>1, <2>2, <2>3
<1>9. Rightly(p, n * unit + m * below)
  BY <1>2, <1>4, <1>7, <1>8 DEF Rightly
<1> QED
  BY <1>1, <1>3, <1>9

LEMMA TwoJoined ==
  ASSUME NEW a, NEW b
  PROVE  <<a>> \o <<b>> = <<a, b>>
<1>1. PICK p, q, r, S : p = <<a>> /\ q = <<b>> /\ r = <<a, b>> /\ S = {a, b}
  OBVIOUS
<1>2. /\ p \in Seq(S) /\ q \in Seq(S) /\ r \in Seq(S)
      /\ Len(p) = 1 /\ Len(q) = 1 /\ Len(r) = 2 /\ p[1] = a /\ q[1] = b /\ r[1] = a /\ r[2] = b
  BY <1>1
<1>3. PICK c : c = p \o q
  OBVIOUS
<1>4. c \in Seq(S) /\ Len(c) = 2 /\ c[1] = a /\ c[2] = b
  <2>1. /\ c \in Seq(S) /\ Len(c) = Len(p) + Len(q)
        /\ \A i \in 1 .. Len(p) + Len(q) : c[i] = IF i <= Len(p) THEN p[i] ELSE q[i - Len(p)]
    BY <1>2, <1>3, ConcatProperties, Zenon
  <2>2. Len(c) = 2 /\ \A i \in 1..2 : c[i] = IF i <= 1 THEN p[i] ELSE q[i - 1]
    BY <1>2, <2>1
  <2>3. c[1] = p[1] /\ c[2] = q[1]
    BY <2>2
  <2> QED
    BY <1>2, <2>1, <2>2, <2>3
<1>5. c = r
  BY <1>2, <1>4, SeqEqual
<1> QED
  BY <1>1, <1>3, <1>5

\* A unit, and the next one unless there is none of it.
LEMMA AmountAndShown ==
  ASSUME NEW n \in Int, NEW unit \in Int, n > 0, NEW m \in Nat, NEW below \in Int, m * below < unit
  PROVE  Rightly(<<Amount(n, unit)>> \o Shown(m, below), n * unit + m * below)
<1>1. PICK x : x = Amount(n, unit)
  OBVIOUS
<1>2. CASE m = 0
  <2>1. <<x>> \o Shown(m, below) = <<x>>
    BY <1>2 DEF Shown
  <2>2. Rightly(<<x>>, n * unit)
    BY <1>1, OneAmount
  <2>3. n * unit + m * below = n * unit
    BY <1>2
  <2> QED
    BY <1>1, <2>1, <2>2, <2>3
<1>3. CASE m # 0
  <2>1. PICK y : y = Amount(m, below)
    OBVIOUS
  <2>2. <<x>> \o Shown(m, below) = <<x, y>>
    <3>1. Shown(m, below) = <<y>>
      BY <1>3, <2>1 DEF Shown
    <3>2. <<x>> \o <<y>> = <<x, y>>
      BY TwoJoined
    <3> QED
      BY <3>1, <3>2
  <2>3. m > 0
    BY <1>3
  <2>4. Rightly(<<x, y>>, n * unit + m * below)
    BY <1>1, <2>1, <2>3, TwoAmounts
  <2> QED
    BY <1>1, <2>2, <2>4
<1> QED
  BY <1>2, <1>3

\* What a text shows, apart from the text it is.
LEMMA IsText ==
  ASSUME NEW parts
  PROVE  Text(parts).kind = "text" /\ Text(parts).parts = parts
BY DEF Text, Showing

\* A number of zero is not shown.
LEMMA NothingShown ==
  ASSUME NEW unit
  PROVE  Shown(0, unit) = <<>>
BY DEF Shown

\* The unit up to which a period is shown.
Finest(t, left) ==
  CASE t >= Month -> Day
    [] t < Month /\ t >= Day -> Hour
    [] t < Day /\ t >= Hour -> Minute
    [] OTHER -> IF left THEN 1 ELSE Minute

\* Amounts that are the period up to its finest unit are the right text for it.
LEMMA PeriodOf ==
  ASSUME NEW t \in Nat, NEW left \in BOOLEAN, NEW parts,
         ~(left /\ t >= 2 * Month), ~(~left /\ t < Minute),
         Rightly(parts, t - (t % Finest(t, left)))
  PROVE  PeriodIsShown(t, left, Text(parts))
<1>1. PICK x : x = Text(parts)
  OBVIOUS
<1>2. x.kind = "text" /\ x.parts = parts
  BY <1>1, IsText
<1>3. /\ x.kind = "text" /\ x.parts # <<>>
      /\ Total(x.parts) = t - (t % Finest(t, left))
      /\ \A i \in DOMAIN x.parts : x.parts[i].n > 0
      /\ \A i \in 2 .. Len(x.parts) : x.parts[i].n * x.parts[i].unit < x.parts[i - 1].unit
  BY <1>2 DEF Rightly
<1>4. PeriodIsShown(t, left, x)
  BY <1>3, Zenon DEF PeriodIsShown, Finest
<1> QED
  BY <1>1, <1>4

\* The units of a period, in seconds.
LEMMA PeriodUnits == Minute = 60 /\ Hour = 3600 /\ Day = 86400 /\ Month = 2592000
BY DEF Minute, Hour, Day, Month

\* Two units of a period: what is left below them is less than the second.
LEMMA TwoUnitsShown ==
  ASSUME NEW t \in Nat, NEW unit, NEW below,
         <<unit, below>> \in {<<Month, Day>>, <<Day, Hour>>, <<Hour, Minute>>, <<Minute, 1>>}, t >= unit
  PROVE  \E parts : TwoUnits(t, unit, below) = Text(parts) /\ Rightly(parts, t - (t % below))
<1>1. PICK n, m : n = t \div unit /\ m = (t % unit) \div below
  OBVIOUS
<1>2. \/ unit = 2592000 /\ below = 86400
      \/ unit = 86400 /\ below = 3600
      \/ unit = 3600 /\ below = 60
      \/ unit = 60 /\ below = 1
  BY PeriodUnits
<1>3. /\ n \in Nat /\ n > 0 /\ m \in Nat /\ unit \in Int /\ below \in Int
      /\ m * below < unit /\ n * unit + m * below = t - (t % below)
  <2>1. CASE unit = 2592000 /\ below = 86400
    BY <1>1, <2>1
  <2>2. CASE unit = 86400 /\ below = 3600
    BY <1>1, <2>2
  <2>3. CASE unit = 3600 /\ below = 60
    BY <1>1, <2>3
  <2>4. CASE unit = 60 /\ below = 1
    BY <1>1, <2>4
  <2> QED
    BY <1>2, <2>1, <2>2, <2>3, <2>4
<1>4. PICK parts : parts = <<Amount(n, unit)>> \o Shown(m, below)
  OBVIOUS
<1>5. Rightly(parts, t - (t % below))
  <2>1. Rightly(parts, n * unit + m * below)
    BY <1>3, <1>4, AmountAndShown
  <2> QED
    BY <1>3, <2>1
<1>6. TwoUnits(t, unit, below) = Text(parts)
  BY <1>1, <1>4 DEF TwoUnits
<1> QED
  BY <1>5, <1>6

\* get_time_left_string(), one range of periods at a time.
LEMMA TimesLeftAre ==
  ASSUME NEW t \in Nat \ {0}, NEW zero \in BOOLEAN
  PROVE  PeriodIsShown(t, TRUE, get_time_left_string(t, zero))
<1> DEFINE S == get_time_left_string(t, zero)
<1>1. Minute = 60 /\ Hour = 3600 /\ Day = 86400 /\ Month = 2592000 /\ 2 * Month = 5184000
  BY PeriodUnits
<1>2. CASE t >= 2 * Month
  <2>1. S = Infinity
    BY <1>1, <1>2 DEF get_time_left_string
  <2> QED
    BY <1>2, <2>1, Zenon DEF PeriodIsShown
<1>3. CASE t >= Month /\ t < 2 * Month
  <2>1. S = TwoUnits(t, Month, Day)
    BY <1>1, <1>3 DEF get_time_left_string
  <2>2. Finest(t, TRUE) = Day
    BY <1>1, <1>3 DEF Finest
  <2>3. PICK parts : S = Text(parts) /\ Rightly(parts, t - (t % Day))
    BY <1>3, <2>1, TwoUnitsShown
  <2>4. ~(t >= 2 * Month)
    BY <1>1, <1>3
  <2> QED
    BY <2>2, <2>3, <2>4, PeriodOf
<1>4. CASE t >= Day /\ t < Month
  <2>1. S = TwoUnits(t, Day, Hour)
    BY <1>1, <1>4 DEF get_time_left_string
  <2>2. Finest(t, TRUE) = Hour
    BY <1>1, <1>4 DEF Finest
  <2>3. PICK parts : S = Text(parts) /\ Rightly(parts, t - (t % Hour))
    BY <1>4, <2>1, TwoUnitsShown
  <2>4. ~(t >= 2 * Month)
    BY <1>1, <1>4
  <2> QED
    BY <2>2, <2>3, <2>4, PeriodOf
<1>5. CASE t >= Hour /\ t < Day
  <2>1. S = TwoUnits(t, Hour, Minute)
    BY <1>1, <1>5 DEF get_time_left_string
  <2>2. Finest(t, TRUE) = Minute
    BY <1>1, <1>5 DEF Finest
  <2>3. PICK parts : S = Text(parts) /\ Rightly(parts, t - (t % Minute))
    BY <1>5, <2>1, TwoUnitsShown
  <2>4. ~(t >= 2 * Month)
    BY <1>1, <1>5
  <2> QED
    BY <2>2, <2>3, <2>4, PeriodOf
<1>6. CASE t >= Minute /\ t < Hour
  <2>1. S = TwoUnits(t, Minute, 1)
    BY <1>1, <1>6 DEF get_time_left_string
  <2>2. Finest(t, TRUE) = 1
    BY <1>1, <1>6 DEF Finest
  <2>3. PICK parts : S = Text(parts) /\ Rightly(parts, t - (t % 1))
    BY <1>6, <2>1, TwoUnitsShown
  <2>4. ~(t >= 2 * Month)
    BY <1>1, <1>6
  <2> QED
    BY <2>2, <2>3, <2>4, PeriodOf
<1>7. CASE t < Minute
  <2>1. S = Text(<<Amount(t, 1)>>)
    BY <1>1, <1>7 DEF get_time_left_string
  <2>2. Finest(t, TRUE) = 1
    BY <1>1, <1>7 DEF Finest
  <2>3. Rightly(<<Amount(t, 1)>>, t - (t % 1))
    <3>1. Rightly(<<Amount(t, 1)>>, t * 1)
      BY OneAmount
    <3>2. t * 1 = t - (t % 1)
      OBVIOUS
    <3> QED
      BY <3>1, <3>2
  <2>4. ~(t >= 2 * Month)
    BY <1>1, <1>7
  <2> QED
    BY <2>1, <2>2, <2>3, <2>4, PeriodOf
<1>8. \/ t >= 2 * Month \/ (t >= Month /\ t < 2 * Month) \/ (t >= Day /\ t < Month)
      \/ (t >= Hour /\ t < Day) \/ (t >= Minute /\ t < Hour) \/ t < Minute
  BY <1>1
<1> HIDE DEF S
<1> QED
  BY <1>2, <1>3, <1>4, <1>5, <1>6, <1>7, <1>8

\* get_time_duration_string(): two units at most, from the largest there is.
LEMMA DurationsAre ==
  ASSUME NEW t \in Nat \ {0}, NEW zero \in BOOLEAN, ~(t < Minute)
  PROVE  PeriodIsShown(t, FALSE, get_time_duration_string(t, zero))
<1>1. Minute = 60 /\ Hour = 3600 /\ Day = 86400 /\ Month = 2592000
  BY PeriodUnits
<1>2. PICK minutes, hours, days, months :
        /\ minutes = (t \div Minute) % 60 /\ hours = (t \div Hour) % 24
        /\ days = (t \div Day) % 30 /\ months = t \div Month
  OBVIOUS
<1>3. minutes \in Nat /\ hours \in Nat /\ days \in Nat /\ months \in Nat
  BY <1>1, <1>2
<1>4. PICK A, B, C, D, parts :
        /\ A = Shown(months, Month) /\ B = Shown(days, Day)
        /\ C = (IF months = 0 THEN Shown(hours, Hour) ELSE <<>>)
        /\ D = (IF months = 0 /\ days = 0 THEN Shown(minutes, Minute) ELSE <<>>)
        /\ parts = A \o B \o C \o D
  OBVIOUS
<1>5. get_time_duration_string(t, zero) = IF parts = <<>> THEN OutOfRange ELSE Text(parts)
  <2>1. ~(t <= 0)
    OBVIOUS
  <2> QED
    BY <1>2, <1>4, <2>1 DEF get_time_duration_string
<1>6. SUFFICES Rightly(parts, t - (t % Finest(t, FALSE)))
  <2>1. ASSUME Rightly(parts, t - (t % Finest(t, FALSE)))
        PROVE  PeriodIsShown(t, FALSE, get_time_duration_string(t, zero))
    <3>1. parts # <<>>
      BY <2>1 DEF Rightly
    <3>2. PeriodIsShown(t, FALSE, Text(parts))
      BY <2>1, PeriodOf
    <3> QED
      BY <1>5, <3>1, <3>2
  <2> QED
    BY <2>1
<1>7. CASE months # 0
  <2>1. C = <<>> /\ D = <<>> /\ A = <<Amount(months, Month)>>
    BY <1>4, <1>7 DEF Shown
  <2>2. parts = <<Amount(months, Month)>> \o Shown(days, Day)
    <3>1. B = <<>> \/ B = <<Amount(days, Day)>>
      BY <1>4 DEF Shown
    <3>2. \A x, y : <<x>> \o <<y>> \o <<>> \o <<>> = <<x>> \o <<y>>
      OBVIOUS
    <3>3. \A x : <<x>> \o <<>> \o <<>> \o <<>> = <<x>> \o <<>>
      OBVIOUS
    <3> QED
      BY <1>4, <2>1, <3>1, <3>2, <3>3
  <2>3. /\ months > 0 /\ days * Day < Month
        /\ months * Month + days * Day = t - (t % Day) /\ t >= Month
    BY <1>1, <1>2, <1>3, <1>7
  <2>4. Finest(t, FALSE) = Day
    BY <1>1, <2>3 DEF Finest
  <2>5. Rightly(parts, months * Month + days * Day)
    BY <1>1, <1>3, <2>2, <2>3, AmountAndShown
  <2> QED
    BY <2>3, <2>4, <2>5
<1>8. CASE months = 0 /\ days # 0
  <2>1. A = <<>> /\ D = <<>> /\ B = <<Amount(days, Day)>> /\ C = Shown(hours, Hour)
    BY <1>4, <1>8 DEF Shown
  <2>2. parts = <<Amount(days, Day)>> \o Shown(hours, Hour)
    <3>1. C = <<>> \/ C = <<Amount(hours, Hour)>>
      BY <2>1 DEF Shown
    <3>2. \A x, y : <<>> \o <<x>> \o <<y>> \o <<>> = <<x>> \o <<y>>
      OBVIOUS
    <3>3. \A x : <<>> \o <<x>> \o <<>> \o <<>> = <<x>> \o <<>>
      OBVIOUS
    <3> QED
      BY <1>4, <2>1, <3>1, <3>2, <3>3
  <2>3. /\ days > 0 /\ hours * Hour < Day
        /\ days * Day + hours * Hour = t - (t % Hour) /\ t >= Day /\ t < Month
    BY <1>1, <1>2, <1>3, <1>8
  <2>4. Finest(t, FALSE) = Hour
    BY <1>1, <2>3 DEF Finest
  <2>5. Rightly(parts, days * Day + hours * Hour)
    BY <1>1, <1>3, <2>2, <2>3, AmountAndShown
  <2> QED
    BY <2>3, <2>4, <2>5
<1>9. CASE months = 0 /\ days = 0 /\ hours # 0
  <2>1. A = <<>> /\ B = <<>> /\ C = <<Amount(hours, Hour)>> /\ D = Shown(minutes, Minute)
    BY <1>4, <1>9 DEF Shown
  <2>2. parts = <<Amount(hours, Hour)>> \o Shown(minutes, Minute)
    <3>1. D = <<>> \/ D = <<Amount(minutes, Minute)>>
      BY <2>1 DEF Shown
    <3>2. \A x, y : <<>> \o <<>> \o <<x>> \o <<y>> = <<x>> \o <<y>>
      OBVIOUS
    <3>3. \A x : <<>> \o <<>> \o <<x>> \o <<>> = <<x>> \o <<>>
      OBVIOUS
    <3> QED
      BY <1>4, <2>1, <3>1, <3>2, <3>3
  <2>3. /\ hours > 0 /\ minutes * Minute < Hour
        /\ hours * Hour + minutes * Minute = t - (t % Minute) /\ t >= Hour /\ t < Day
    BY <1>1, <1>2, <1>3, <1>9
  <2>4. Finest(t, FALSE) = Minute
    BY <1>1, <2>3 DEF Finest
  <2>5. Rightly(parts, hours * Hour + minutes * Minute)
    BY <1>1, <1>3, <2>2, <2>3, AmountAndShown
  <2> QED
    BY <2>3, <2>4, <2>5
<1>10. CASE months = 0 /\ days = 0 /\ hours = 0
  <2>1. minutes > 0 /\ minutes * Minute = t - (t % Minute) /\ t < Hour
    BY <1>1, <1>2, <1>3, <1>10
  <2>2. A = <<>> /\ B = <<>> /\ C = <<>> /\ D = <<Amount(minutes, Minute)>>
    BY <1>3, <1>4, <1>10, <2>1 DEF Shown
  <2>3. parts = <<Amount(minutes, Minute)>>
    <3>1. \A x : <<>> \o <<>> \o <<>> \o <<x>> = <<x>>
      OBVIOUS
    <3> QED
      BY <1>4, <2>2, <3>1
  <2>4. Finest(t, FALSE) = Minute
    BY <1>1, <2>1 DEF Finest
  <2>5. Rightly(parts, minutes * Minute)
    BY <1>1, <1>3, <2>1, <2>3, OneAmount
  <2> QED
    BY <2>1, <2>4, <2>5
<1> QED
  BY <1>7, <1>8, <1>9, <1>10

\* The largest of some numbers that are not above one.
LEMMA LargestNumber ==
  ASSUME NEW N \in Nat, NEW S \in SUBSET (0 .. N), S # {}
  PROVE  \E n \in S : \A m \in S : m <= n
<1> DEFINE T == {k \in 0 .. N : N - k \in S}
<1>1. \A n \in S : N - n \in T
  <2>1. ASSUME NEW n \in S PROVE N - n \in T
    <3>1. n \in 0 .. N
      OBVIOUS
    <3>2. N - n \in 0 .. N /\ N - (N - n) = n
      BY <3>1
    <3> QED
      BY <3>2
  <2> QED
    BY <2>1
<1>2. T \in SUBSET Nat /\ T # {} /\ \A k \in T : N - k \in S /\ k \in 0 .. N
  <2>1. T \in SUBSET Nat
    OBVIOUS
  <2>2. PICK n : n \in S
    OBVIOUS
  <2>3. N - n \in T
    BY <1>1, <2>2
  <2>4. \A k \in T : N - k \in S /\ k \in 0 .. N
    OBVIOUS
  <2> HIDE DEF T
  <2> QED
    BY <2>1, <2>3, <2>4
<1> HIDE DEF T
<1>3. PICK k \in T : \A m \in T : k <= m
  BY <1>2, Least
<1>4. ASSUME NEW m \in S PROVE m <= N - k
  <2>1. k <= N - m
    BY <1>1, <1>3, <1>4
  <2>2. m \in 0 .. N /\ k \in 0 .. N
    BY <1>2, <1>3, <1>4
  <2> QED
    BY <2>1, <2>2
<1> QED
  BY <1>2, <1>3, <1>4

\* The strings of the model are sequences of its characters.
LEMMA StringIs ==
  ASSUME NEW s \in String
  PROVE  s \in Seq(Character) /\ Len(s) \in Nat /\ DOMAIN s = 1 .. Len(s)
<1>1. PICK n \in 0 .. MaxLength : s \in [1 .. n -> Character]
  BY DEF String
<1>2. n \in Nat
  BY StringsAssumption
<1>3. s \in Seq(Character)
  BY <1>1, <1>2
<1> QED
  BY <1>3

\* The first of some positions, which is also the one that is chosen as the least.
LEMMA FirstOfAll ==
  ASSUME NEW L \in Nat, NEW S \in SUBSET (1 .. L), S # {}
  PROVE  \E i \in S : /\ \A j \in S : i <= j
                      /\ \A j \in 1 .. i - 1 : j \notin S
                      /\ i = CHOOSE k \in S : \A j \in S : k <= j
<1>1. S \in SUBSET Nat
  OBVIOUS
<1>2. \E i \in S : \A j \in S : i <= j
  BY <1>1, Least
<1>3. PICK i : i = CHOOSE k \in S : \A j \in S : k <= j
  OBVIOUS
<1>4. i \in S /\ \A j \in S : i <= j
  BY <1>2, <1>3
<1>5. ASSUME NEW j \in 1 .. i - 1 PROVE j \notin S
  BY <1>4
<1> QED
  BY <1>3, <1>4, <1>5

\* trim(): spaces before the first other character and after the last one are gone.
LEMMA TrimmedIs ==
  ASSUME NEW s \in String
  PROVE  IsTrimmed(s, trim(s))
<1>1. s \in Seq(Character) /\ Len(s) \in Nat /\ DOMAIN s = 1 .. Len(s)
  BY StringIs
<1>2. PICK L, start, kept, t : L = Len(s) /\ start = Start(s) /\ kept = Kept(s, start) /\ t = trim(s)
  OBVIOUS
<1>3. t = SubSeq(s, start + 1, start + kept)
  BY <1>2, Zenon DEF trim
<1>4. CASE is_empty_string(s)
  <2>1. start = L
    BY <1>2, <1>4 DEF Start
  <2>2. {n \in 1 .. Len(s) - start : s[start + n] # Space} = {}
    BY <1>1, <1>2, <2>1
  <2>3. kept = 0
    BY <1>2, <2>2 DEF Kept
  <2>4. t = <<>> /\ Len(t) = 0
    BY <1>1, <1>2, <1>3, <2>1, <2>3, SubSeqEmpty
  <2>5. \A i \in 1 .. L : s[i] = Space
    BY <1>1, <1>2, <1>4 DEF is_empty_string
  <2>6. SubSeq(s, L + 1, L + Len(t)) = t
    BY <1>2, <1>3, <2>1, <2>3, <2>4
  <2>7. \E before, after \in 0 .. Len(s) :
          /\ before + Len(t) + after = Len(s)
          /\ t = SubSeq(s, before + 1, before + Len(t))
          /\ \A i \in 1 .. before : s[i] = Space
          /\ \A i \in 1 .. after : s[Len(s) + 1 - i] = Space
    <3>1. L \in 0 .. Len(s) /\ 0 \in 0 .. Len(s)
      BY <1>1, <1>2
    <3>2. L + Len(t) + 0 = Len(s)
      BY <1>1, <1>2, <2>4
    <3>3. \A i \in 1 .. 0 : s[Len(s) + 1 - i] = Space
      OBVIOUS
    <3> QED
      BY <2>5, <2>6, <3>1, <3>2, <3>3
  <2> QED
    BY <1>2, <2>4, <2>7 DEF IsTrimmed
<1>5. CASE ~is_empty_string(s)
  <2> DEFINE P == {i \in 1 .. L : s[i] # Space}
             S == {n \in 1 .. L - start : s[start + n] # Space}
  <2>1. P # {} /\ P \in SUBSET (1 .. L) /\ L \in Nat
    BY <1>1, <1>2, <1>5 DEF is_empty_string
  <2>2. PICK i \in P : (\A j \in P : i <= j) /\ \A j \in 1 .. i - 1 : j \notin P
    <3> HIDE DEF P
    <3> QED
      BY <2>1, FirstOfAll
  <2>3. i \in 1 .. L /\ s[i] # Space /\ \A j \in 1 .. i - 1 : s[j] = Space
    <3>1. ASSUME NEW j \in 1 .. i - 1 PROVE s[j] = Space
      BY <2>1, <2>2
    <3> QED
      BY <2>2, <3>1
  <2>4. start = i - 1
    <3>1. \A k \in 1 .. L : (s[k] # Space /\ \A j \in 1 .. k - 1 : s[j] = Space) => k = i
      <4>1. ASSUME NEW k \in 1 .. L, s[k] # Space, \A j \in 1 .. k - 1 : s[j] = Space
            PROVE  k = i
        <5>1. ~(i < k)
          BY <2>1, <2>3, <4>1
        <5>2. ~(k < i)
          BY <2>1, <2>3, <4>1
        <5> QED
          BY <2>1, <2>3, <5>1, <5>2
      <4> QED
        BY <4>1
    <3>2. i = CHOOSE k \in DOMAIN s : s[k] # Space /\ \A j \in 1 .. k - 1 : s[j] = Space
      <4> HIDE DEF P
      <4> QED
        BY <1>1, <1>2, <2>3, <3>1
    <3> QED
      BY <1>2, <1>5, <3>2 DEF Start
  <2>5. start \in Nat /\ start + 1 = i /\ L - start \in Nat /\ L - start >= 1
    BY <2>1, <2>3, <2>4
  <2>6. 1 \in S /\ S \in SUBSET (0 .. L - start)
    BY <2>3, <2>5
  <2>7. \E n \in S : \A m \in S : m <= n
    <3> HIDE DEF S
    <3> QED
      BY <2>5, <2>6, LargestNumber
  <2>8. kept = CHOOSE n \in S : \A m \in S : m <= n
    BY <1>2, <2>6 DEF Kept
  <2>9. kept \in S /\ \A m \in S : m <= kept
    <3> HIDE DEF S
    <3> QED
      BY <2>7, <2>8
  <2>10. /\ kept \in 1 .. L - start /\ s[start + kept] # Space
         /\ \A m \in 1 .. L - start : m > kept => s[start + m] = Space
    <3>1. ASSUME NEW m \in 1 .. L - start, m > kept PROVE s[start + m] = Space
      BY <2>5, <2>9, <3>1
    <3> QED
      BY <2>9, <3>1
  <2> HIDE DEF S, P
  <2>11. /\ t \in Seq(Character) /\ Len(t) = kept
         /\ \A k \in 1 .. kept : t[k] = s[start + k]
    <3>1. \A k \in start + 1 .. start + kept : s[k] \in Character
      BY <1>1, <1>2, <2>1, <2>5, <2>10
    <3>2. start + 1 \in Int /\ start + kept \in Int
      BY <2>5, <2>10
    <3>3. PICK a, b : a = start + 1 /\ b = start + kept
      OBVIOUS
    <3>4. /\ t \in Seq(Character)
          /\ Len(t) = IF a <= b THEN b - a + 1 ELSE 0
          /\ \A k \in 1 .. b - a + 1 : t[k] = s[a + k - 1]
      <4>1. a \in Int /\ b \in Int /\ (\A k \in a .. b : s[k] \in Character) /\ t = SubSeq(s, a, b)
        BY <1>3, <3>1, <3>2, <3>3
      <4>2. /\ SubSeq(s, a, b) \in Seq(Character)
            /\ Len(SubSeq(s, a, b)) = IF a <= b THEN b - a + 1 ELSE 0
            /\ \A k \in 1 .. b - a + 1 : SubSeq(s, a, b)[k] = s[a + k - 1]
        BY <4>1, SubSeqProperties
      <4> QED
        BY <4>1, <4>2
    <3>5. b - a + 1 = kept /\ a <= b /\ \A k \in 1 .. kept : a + k - 1 = start + k
      BY <2>5, <2>10, <3>3
    <3>6. ASSUME NEW k \in 1 .. kept PROVE t[k] = s[start + k]
      BY <3>4, <3>5
    <3> QED
      BY <3>4, <3>5, <3>6
  <2>12. PICK after : after = L - start - kept
    OBVIOUS
  <2>13. after \in 0 .. L /\ start \in 0 .. L /\ start + Len(t) + after = L
    BY <2>1, <2>5, <2>10, <2>11, <2>12
  <2>14. ASSUME NEW k \in 1 .. after PROVE s[L + 1 - k] = Space
    <3>1. PICK m : m = L + 1 - k - start
      OBVIOUS
    <3>2. m \in 1 .. L - start /\ m > kept /\ start + m = L + 1 - k
      BY <2>1, <2>5, <2>10, <2>12, <2>13, <3>1
    <3>3. s[start + m] = Space
      BY <2>10, <3>2
    <3> QED
      BY <3>2, <3>3
  <2>15. \A k \in 1 .. start : s[k] = Space
    BY <2>3, <2>4
  <2>16. t = SubSeq(s, start + 1, start + Len(t))
    BY <1>3, <2>11
  <2>17. Head(t) # Space /\ Last(t) # Space
    <3>1. Head(t) = s[start + 1] /\ Last(t) = s[start + kept]
      BY <2>10, <2>11 DEF Last
    <3> QED
      BY <2>3, <2>5, <2>10, <3>1
  <2>18. \E before, b \in 0 .. Len(s) :
          /\ before + Len(t) + b = Len(s)
          /\ t = SubSeq(s, before + 1, before + Len(t))
          /\ \A k \in 1 .. before : s[k] = Space
          /\ \A k \in 1 .. b : s[Len(s) + 1 - k] = Space
    BY <1>2, <2>13, <2>14, <2>15, <2>16
  <2> QED
    BY <1>2, <2>17, <2>18 DEF IsTrimmed
<1> QED
  BY <1>4, <1>5

\* What is put into a string that cannot be converted.
LEMMA ConvertedIs ==
  ASSUME NEW s \in String
  PROVE  IsConverted(s, convert(s))
<1>1. s \in Seq(Character) /\ Len(s) \in Nat /\ DOMAIN s = 1 .. Len(s)
  BY StringIs
<1>2. CASE Convertible(s)
  <2>1. convert(s) = s
    BY <1>2 DEF convert
  <2> QED
    BY <1>2, <2>1 DEF IsConverted
<1>3. CASE ~Convertible(s)
  <2>1. PICK note : InvalidEncoding = <<note>>
    BY Zenon DEF InvalidEncoding
  <2>2. PICK L, S, p, q, c : /\ L = Len(s) /\ S = Character \cup {Spelt, note}
                             /\ p = [i \in 1 .. L |-> IF s[i] = Unprintable THEN Spelt ELSE s[i]]
                             /\ q = <<note>> /\ c = p \o q
    OBVIOUS
  <2>3. convert(s) = c
    BY <1>1, <1>3, <2>1, <2>2 DEF convert
  <2>4. \A i \in 1 .. L : s[i] \in Character
    BY <1>1, <2>2
  <2>5. p \in Seq(S) /\ Len(p) = L /\ \A i \in 1 .. L : s[i] # Unprintable => p[i] = s[i]
    BY <1>1, <2>2, <2>4
  <2>6. q \in Seq(S) /\ Len(q) = 1 /\ q[1] = note
    BY <2>2
  <2>7. /\ c \in Seq(S) /\ Len(c) = L + 1
        /\ \A i \in 1 .. L + 1 : c[i] = IF i <= L THEN p[i] ELSE q[i - L]
    <3>1. /\ p \o q \in Seq(S) /\ Len(p \o q) = Len(p) + Len(q)
          /\ \A i \in 1 .. Len(p) + Len(q) : (p \o q)[i] = IF i <= Len(p) THEN p[i] ELSE q[i - Len(p)]
      BY <2>5, <2>6, ConcatProperties, Zenon
    <3> QED
      BY <2>2, <2>5, <2>6, <3>1
  <2>8. L \in Nat
    BY <1>1, <2>2
  <2>9. c # s
    BY <2>2, <2>7, <2>8
  <2>10. Last(c) = note
    BY <2>6, <2>7, <2>8 DEF Last
  <2>11. \A i \in 1 .. L : s[i] # Unprintable => c[i] = s[i]
    BY <2>5, <2>7, <2>8
  <2>12. InvalidEncoding[1] = note
    BY <2>1
  <2> QED
    BY <1>1, <1>3, <2>2, <2>3, <2>9, <2>10, <2>11, <2>12 DEF IsConverted
<1> QED
  BY <1>2, <1>3

\* The words of a string: at least one, and strings themselves.
SomeText == Seq(Character)
SomeWords == Seq(SomeText) \ {<<>>}

\* What Together() has after each word.
JoinedBy(words, g) ==
  /\ g \in [0 .. Len(words) - 1 -> SomeText]
  /\ g[0] = words[1]
  /\ \A n \in 1 .. Len(words) - 1 : g[n] = g[n - 1] \o <<Separator>> \o words[n + 1]

\* There is at least one word, and every word is a string.
LEMMA WordsAre ==
  ASSUME NEW words \in SomeWords
  PROVE  /\ Len(words) \in Nat /\ Len(words) >= 1 /\ words \in Seq(SomeText)
         /\ Len(words) - 1 \in Nat
         /\ \A n \in 1 .. Len(words) : words[n] \in SomeText
BY DEF SomeWords

LEMMA CharactersAre ==
  /\ Separator \in Character
  /\ \A c \in Character : <<c>> \in SomeText
  /\ \A p, q \in SomeText : p \o q \in SomeText
<1>1. Separator \in Character
  BY Zenon DEF Character
<1> QED
  BY <1>1 DEF SomeText

\* Together() is computed word by word.
LEMMA TogetherIs ==
  ASSUME NEW words \in SomeWords
  PROVE  \E g : JoinedBy(words, g) /\ Together(words) = g[Len(words) - 1]
<1> DEFINE N == Len(words) - 1
           stepOf == [n \in 1 .. N |-> [d \in SomeText |-> d \o <<Separator>> \o words[n + 1]]]
           joined[n \in 0 .. N] == IF n = 0 THEN words[1] ELSE joined[n - 1] \o <<Separator>> \o words[n + 1]
<1>1. Together(words) = joined[N]
  BY DEF Together
<1>2. N \in Nat /\ words[1] \in SomeText /\ \A n \in 1 .. N : words[n + 1] \in SomeText
  BY WordsAre
<1>3. \A d \in SomeText, n \in 1 .. N : d \o <<Separator>> \o words[n + 1] \in SomeText
  <2> HIDE DEF N
  <2>1. PICK bar : bar = <<Separator>>
    OBVIOUS
  <2>2. bar \in SomeText
    BY <2>1, CharactersAre
  <2>3. \A d \in SomeText, n \in 1 .. N : d \o bar \o words[n + 1] \in SomeText
    BY <1>2, <2>2, CharactersAre
  <2> QED
    BY <2>1, <2>3
<1> HIDE DEF N
<1>4. \A d \in SomeText, n \in 1 .. N : stepOf[n][d] = d \o <<Separator>> \o words[n + 1]
  OBVIOUS
<1>5. stepOf \in Steps(N, SomeText)
  BY <1>3 DEF Steps
<1> HIDE DEF stepOf
<1>6. PICK g \in [0 .. N -> SomeText] : g[0] = words[1] /\ \A n \in 1 .. N : g[n] = stepOf[n][g[n - 1]]
  <2>1. Runs(N, SomeText, words[1], stepOf) # {}
    BY <1>2, <1>5, Recursion
  <2> QED
    BY <2>1 DEF Runs
<1>7. ASSUME NEW n \in 1 .. N
      PROVE  n - 1 \in 0 .. N /\ g[n - 1] \in SomeText /\ g[n] = g[n - 1] \o <<Separator>> \o words[n + 1]
  <2>1. n - 1 \in 0 .. N
    BY <1>2
  <2> QED
    BY <1>4, <1>6, <2>1
<1>8. g = [n \in 0 .. N |-> IF n = 0 THEN words[1] ELSE g[n - 1] \o <<Separator>> \o words[n + 1]]
  <2>1. ASSUME NEW n \in 0 .. N
        PROVE  g[n] = IF n = 0 THEN words[1] ELSE g[n - 1] \o <<Separator>> \o words[n + 1]
    <3>1. n = 0 \/ n \in 1 .. N
      BY <1>2
    <3> QED
      BY <1>6, <1>7, <3>1
  <2> QED
    BY <1>6, <2>1
<1>9. ASSUME NEW n \in 0 .. N
      PROVE  joined[n] = IF n = 0 THEN words[1] ELSE joined[n - 1] \o <<Separator>> \o words[n + 1]
  <2> DEFINE Body(m) == IF m = 0 THEN words[1] ELSE joined[m - 1] \o <<Separator>> \o words[m + 1]
  <2>1. joined = [m \in 0 .. N |-> Body(m)]
    BY <1>8
  <2> HIDE DEF joined, Body
  <2>2. joined[n] = Body(n)
    BY <2>1
  <2> QED
    BY <2>2 DEF Body
<1> HIDE DEF joined
<1>10. Alike(N, joined, g)
  <2>1. joined[0] = g[0]
    <3>1. 0 \in 0 .. N
      BY <1>2
    <3>2. joined[0] = words[1]
      BY <1>9, <3>1
    <3> QED
      BY <1>6, <3>2
  <2>2. ASSUME NEW n \in 1 .. N, joined[n - 1] = g[n - 1]
        PROVE  joined[n] = g[n]
    <3>1. n \in 0 .. N /\ n # 0
      BY <1>2
    <3>2. joined[n] = joined[n - 1] \o <<Separator>> \o words[n + 1]
      BY <1>9, <3>1
    <3> QED
      BY <1>7, <2>2, <3>2
  <2> QED
    BY <2>1, <2>2 DEF Alike
<1>11. joined[N] = g[N]
  BY <1>2, <1>10, SameValue
<1>12. JoinedBy(words, g)
  BY <1>6, <1>7 DEF JoinedBy, N
<1> QED
  BY <1>1, <1>11, <1>12 DEF N

\* Words that are the same so far are together the same so far.
LEMMA TogetherSoFar ==
  ASSUME NEW v \in SomeWords, NEW w \in SomeWords, NEW f, NEW g, JoinedBy(v, f), JoinedBy(w, g),
         NEW k \in Nat, k + 1 <= Len(v), k + 1 <= Len(w), \A i \in 1 .. k + 1 : v[i] = w[i]
  PROVE  f[k] = g[k]
<1>1. Len(v) \in Nat /\ Len(w) \in Nat
  BY WordsAre
<1>2. \A n \in 1 .. k : n \in 1 .. Len(v) - 1 /\ n \in 1 .. Len(w) - 1 /\ n + 1 \in 1 .. k + 1
  BY <1>1
<1>3. f[0] = v[1] /\ g[0] = w[1] /\ v[1] = w[1]
  BY DEF JoinedBy
<1>4. ASSUME NEW n \in 1 .. k, f[n - 1] = g[n - 1] PROVE f[n] = g[n]
  <2>1. f[n] = f[n - 1] \o <<Separator>> \o v[n + 1]
    BY <1>2 DEF JoinedBy
  <2>2. g[n] = g[n - 1] \o <<Separator>> \o w[n + 1]
    BY <1>2 DEF JoinedBy
  <2>3. v[n + 1] = w[n + 1]
    BY <1>2
  <2> QED
    BY <1>4, <2>1, <2>2, <2>3
<1>5. Alike(k, f, g)
  BY <1>3, <1>4 DEF Alike
<1> QED
  BY <1>5, SameValue

\* A character ends the last word or makes it longer, and leaves the others alone.
LEMMA AddedIs ==
  ASSUME NEW w \in SomeWords, NEW c \in Character
  PROVE  /\ Added(w, c) \in SomeWords
         /\ c = Separator =>
              /\ Len(Added(w, c)) = Len(w) + 1 /\ Added(w, c)[Len(w) + 1] = <<>>
              /\ \A i \in 1 .. Len(w) : Added(w, c)[i] = w[i]
         /\ c # Separator =>
              /\ Len(Added(w, c)) = Len(w) /\ Added(w, c)[Len(w)] = Append(w[Len(w)], c)
              /\ \A i \in 1 .. Len(w) - 1 : Added(w, c)[i] = w[i]
<1>1. PICK L, a : L = Len(w) /\ a = Added(w, c)
  OBVIOUS
<1>2. L \in Nat /\ L >= 1 /\ w \in Seq(SomeText) /\ \A n \in 1 .. L : w[n] \in SomeText
  BY <1>1, WordsAre
<1>3. CASE c = Separator
  <2>1. a = Append(w, <<>>)
    BY <1>1, <1>3 DEF Added
  <2>2. <<>> \in SomeText
    BY DEF SomeText
  <2>3. /\ a \in Seq(SomeText) /\ a # <<>> /\ Len(a) = L + 1 /\ a[L + 1] = <<>>
        /\ \A i \in 1 .. L : a[i] = w[i]
    BY <1>1, <1>2, <2>1, <2>2, AppendProperties
  <2> QED
    BY <1>1, <1>3, <2>3 DEF SomeWords
<1>4. CASE c # Separator
  <2>1. PICK u, e : u = Front(w) /\ e = Append(w[L], c)
    OBVIOUS
  <2>2. a = Append(u, e)
    BY <1>1, <1>4, <2>1 DEF Added, Last
  <2>3. e \in SomeText
    BY <1>2, <2>1 DEF SomeText
  <2>4. u \in Seq(SomeText) /\ Len(u) = L - 1 /\ \A i \in 1 .. L - 1 : u[i] = w[i]
    <3>1. u = SubSeq(w, 1, L - 1)
      BY <1>1, <2>1 DEF Front
    <3>2. L - 1 \in Int /\ \A i \in 1 .. L - 1 : w[i] \in SomeText
      BY <1>2
    <3> HIDE DEF SomeText
    <3> QED
      BY <1>2, <3>1, <3>2
  <2>5. /\ a \in Seq(SomeText) /\ a # <<>> /\ Len(a) = Len(u) + 1 /\ a[Len(u) + 1] = e
        /\ \A i \in 1 .. Len(u) : a[i] = u[i]
    BY <2>2, <2>3, <2>4, AppendProperties
  <2>6. Len(u) + 1 = L
    BY <1>2, <2>4
  <2>7. /\ Len(a) = L /\ a[L] = e /\ \A i \in 1 .. L - 1 : a[i] = w[i]
    BY <2>4, <2>5, <2>6
  <2> QED
    BY <1>1, <1>4, <2>1, <2>5, <2>7 DEF SomeWords
<1> QED
  BY <1>3, <1>4

\* Words to which a character is added are the same string with the character.
LEMMA TogetherAdded ==
  ASSUME NEW w \in SomeWords, NEW c \in Character
  PROVE  Together(w) \in SomeText /\ Together(Added(w, c)) = Together(w) \o <<c>>
<1>1. PICK L, a : L = Len(w) /\ a = Added(w, c)
  OBVIOUS
<1>2. L \in Nat /\ L >= 1 /\ L - 1 \in Nat /\ \A n \in 1 .. L : w[n] \in SomeText
  BY <1>1, WordsAre
<1>3. a \in SomeWords
  BY <1>1, AddedIs
<1>4. PICK f : JoinedBy(w, f) /\ Together(w) = f[L - 1]
  BY <1>1, TogetherIs
<1>5. PICK g : JoinedBy(a, g) /\ Together(a) = g[Len(a) - 1]
  BY <1>3, TogetherIs
<1>6. PICK bar, d : bar = <<Separator>> /\ d = <<c>>
  OBVIOUS
<1>7. bar \in SomeText /\ d \in SomeText
  BY <1>6, CharactersAre
<1>8. f[L - 1] \in SomeText
  BY <1>1, <1>2, <1>4 DEF JoinedBy
<1>9. CASE c = Separator
  <2>1. Len(a) = L + 1 /\ a[L + 1] = <<>> /\ \A i \in 1 .. L : a[i] = w[i]
    BY <1>1, <1>9, AddedIs
  <2>2. g[L - 1] = f[L - 1]
    <3>1. L - 1 + 1 = L /\ L - 1 + 1 <= Len(a) /\ L - 1 + 1 <= Len(w)
      BY <1>1, <1>2, <2>1
    <3> QED
      BY <1>2, <1>3, <1>4, <1>5, <2>1, <3>1, TogetherSoFar
  <2>3. g[L] = g[L - 1] \o bar \o <<>>
    <3>1. L \in 1 .. Len(a) - 1
      BY <1>2, <2>1
    <3>2. g[L] = g[L - 1] \o <<Separator>> \o a[L + 1]
      BY <1>5, <3>1 DEF JoinedBy
    <3> QED
      BY <1>6, <2>1, <3>2
  <2>4. f[L - 1] \o bar \in SomeText
    BY <1>7, <1>8, CharactersAre
  <2>5. f[L - 1] \o bar \o <<>> = f[L - 1] \o bar
    BY <2>4, ConcatEmptySeq DEF SomeText
  <2>6. Len(a) - 1 = L
    BY <1>2, <2>1
  <2>7. d = bar
    BY <1>6, <1>9
  <2> QED
    BY <1>1, <1>4, <1>5, <1>6, <1>8, <2>2, <2>3, <2>5, <2>6, <2>7
<1>10. CASE c # Separator
  <2>1. Len(a) = L /\ a[L] = Append(w[L], c) /\ \A i \in 1 .. L - 1 : a[i] = w[i]
    BY <1>1, <1>10, AddedIs
  <2>2. w[L] \in SomeText /\ a[L] = w[L] \o d
    <3>1. w[L] \in SomeText
      BY <1>2
    <3> QED
      BY <1>6, <2>1, <3>1, AppendIsConcat DEF SomeText
  <2>3. CASE L = 1
    <3>1. g[0] = a[1] /\ f[0] = w[1] /\ L - 1 = 0 /\ Len(a) - 1 = 0
      BY <1>4, <1>5, <2>1, <2>3 DEF JoinedBy
    <3> QED
      BY <1>1, <1>4, <1>5, <1>6, <1>8, <2>2, <2>3, <3>1
  <2>4. CASE L # 1
    <3>1. PICK k : k = L - 2
      OBVIOUS
    <3>2. k \in Nat /\ k + 1 = L - 1 /\ k + 1 <= Len(a) /\ k + 1 <= Len(w)
          /\ L - 1 \in 1 .. Len(a) - 1 /\ L - 1 \in 1 .. Len(w) - 1 /\ L - 1 - 1 = k /\ L - 1 + 1 = L
          /\ k \in 0 .. Len(w) - 1
      BY <1>1, <1>2, <2>1, <2>4, <3>1
    <3>3. g[k] = f[k]
      BY <1>3, <1>4, <1>5, <2>1, <3>2, TogetherSoFar
    <3>4. g[L - 1] = g[k] \o bar \o a[L]
      BY <1>5, <1>6, <3>2 DEF JoinedBy
    <3>5. f[L - 1] = f[k] \o bar \o w[L]
      BY <1>4, <1>6, <3>2 DEF JoinedBy
    <3>6. PICK p : p = f[k] \o bar
      OBVIOUS
    <3>7. p \in SomeText
      <4>1. f[k] \in SomeText
        BY <1>4, <3>2 DEF JoinedBy
      <4> QED
        BY <1>7, <3>6, <4>1, CharactersAre
    <3>8. (p \o w[L]) \o d = p \o (w[L] \o d)
      <4>1. PICK x : x = w[L]
        OBVIOUS
      <4>2. p \in Seq(Character) /\ x \in Seq(Character) /\ d \in Seq(Character)
        BY <1>7, <2>2, <3>7, <4>1 DEF SomeText
      <4>3. (p \o x) \o d = p \o (x \o d)
        BY <4>2, ConcatAssociative
      <4> QED
        BY <4>1, <4>3
    <3>9. g[L - 1] = f[L - 1] \o d
      BY <2>2, <3>3, <3>4, <3>5, <3>6, <3>8
    <3> QED
      BY <1>1, <1>4, <1>5, <1>6, <1>8, <2>1, <3>9
  <2> QED
    BY <2>3, <2>4
<1> QED
  BY <1>9, <1>10

\* What split() has after each character.
Splitting(s, g) ==
  /\ g \in [0 .. Len(s) -> SomeWords]
  /\ g[0] = <<<<>>>>
  /\ \A n \in 1 .. Len(s) : g[n] = Added(g[n - 1], s[n])

\* split() is computed character by character.
LEMMA SplitIs ==
  ASSUME NEW s \in SomeText
  PROVE  \E g : Splitting(s, g) /\ split(s) = g[Len(s)]
<1> DEFINE N == Len(s)
           stepOf == [n \in 1 .. N |-> [w \in SomeWords |-> Added(w, s[n])]]
           words[n \in 0 .. N] == IF n = 0 THEN <<<<>>>> ELSE Added(words[n - 1], s[n])
<1>1. split(s) = words[N]
  BY DEF split
<1>2. N \in Nat /\ \A n \in 1 .. N : s[n] \in Character
  BY DEF SomeText
<1>3. <<<<>>>> \in SomeWords
  <2>1. <<>> \in SomeText
    BY DEF SomeText
  <2> HIDE DEF SomeText
  <2>2. \A x \in SomeText : <<x>> \in Seq(SomeText) /\ <<x>> # <<>>
    OBVIOUS
  <2> QED
    BY <2>1, <2>2 DEF SomeWords
<1>4. \A w \in SomeWords, n \in 1 .. N : Added(w, s[n]) \in SomeWords
  BY <1>2, AddedIs
<1> HIDE DEF N
<1>5. \A w \in SomeWords, n \in 1 .. N : stepOf[n][w] = Added(w, s[n])
  OBVIOUS
<1>6. stepOf \in Steps(N, SomeWords)
  BY <1>4 DEF Steps
<1> HIDE DEF stepOf
<1>7. PICK g \in [0 .. N -> SomeWords] : g[0] = <<<<>>>> /\ \A n \in 1 .. N : g[n] = stepOf[n][g[n - 1]]
  <2>1. Runs(N, SomeWords, <<<<>>>>, stepOf) # {}
    BY <1>2, <1>3, <1>6, Recursion
  <2> QED
    BY <2>1 DEF Runs
<1>8. ASSUME NEW n \in 1 .. N
      PROVE  n - 1 \in 0 .. N /\ g[n - 1] \in SomeWords /\ g[n] = Added(g[n - 1], s[n])
  <2>1. n - 1 \in 0 .. N
    BY <1>2
  <2> QED
    BY <1>5, <1>7, <2>1
<1>9. g = [n \in 0 .. N |-> IF n = 0 THEN <<<<>>>> ELSE Added(g[n - 1], s[n])]
  <2>1. ASSUME NEW n \in 0 .. N PROVE g[n] = IF n = 0 THEN <<<<>>>> ELSE Added(g[n - 1], s[n])
    <3>1. n = 0 \/ n \in 1 .. N
      BY <1>2
    <3> QED
      BY <1>7, <1>8, <3>1
  <2> QED
    BY <1>7, <2>1
<1>10. ASSUME NEW n \in 0 .. N PROVE words[n] = IF n = 0 THEN <<<<>>>> ELSE Added(words[n - 1], s[n])
  <2> DEFINE Body(m) == IF m = 0 THEN <<<<>>>> ELSE Added(words[m - 1], s[m])
  <2>1. words = [m \in 0 .. N |-> Body(m)]
    BY <1>9
  <2> HIDE DEF words, Body
  <2>2. words[n] = Body(n)
    BY <2>1
  <2> QED
    BY <2>2 DEF Body
<1> HIDE DEF words
<1>11. Alike(N, words, g)
  <2>1. words[0] = g[0]
    <3>1. 0 \in 0 .. N
      BY <1>2
    <3>2. words[0] = <<<<>>>>
      BY <1>10, <3>1
    <3> QED
      BY <1>7, <3>2
  <2>2. ASSUME NEW n \in 1 .. N, words[n - 1] = g[n - 1]
        PROVE  words[n] = g[n]
    <3>1. n \in 0 .. N /\ n # 0
      BY <1>2
    <3>2. words[n] = Added(words[n - 1], s[n])
      BY <1>10, <3>1
    <3> QED
      BY <1>8, <2>2, <3>2
  <2> QED
    BY <2>1, <2>2 DEF Alike
<1>12. words[N] = g[N]
  BY <1>2, <1>11, SameValue
<1>13. Splitting(s, g)
  BY <1>7, <1>8 DEF Splitting, N
<1> QED
  BY <1>1, <1>12, <1>13 DEF N

\* What the words of the first n characters are: those characters together, no
\* separator among them, and the first of them ends at the first separator.
NoSeparators(w) == \A k \in 1 .. Len(w) : \A j \in 1 .. Len(w[k]) : w[k][j] # Separator
FirstSeparator(s, i) == s[i] = Separator /\ \A j \in 1 .. i - 1 : s[j] # Separator
FirstWord(s, n, w) ==
  /\ Len(w) = 1 => Len(w[1]) = n /\ \A j \in 1 .. n : s[j] # Separator
  /\ Len(w) > 1 => \E i \in 1 .. n : FirstSeparator(s, i) /\ Len(w[1]) = i - 1

\* The words are the characters so far, after each character.
LEMMA TogetherSplit ==
  ASSUME NEW s \in SomeText, NEW g, Splitting(s, g)
  PROVE  Together(g[Len(s)]) = s
<1> DEFINE N == Len(s)
           S == {n \in 0 .. N : Together(g[n]) = SubSeq(s, 1, n)}
<1>1. N \in Nat /\ \A n \in 1 .. N : s[n] \in Character
  BY DEF SomeText
<1>2. \A n \in 0 .. N : g[n] \in SomeWords
  BY DEF Splitting
<1>3. 0 \in S
  <2>1. g[0] = <<<<>>>> /\ g[0] \in SomeWords
    BY <1>1, <1>2 DEF Splitting
  <2>2. PICK f : JoinedBy(g[0], f) /\ Together(g[0]) = f[Len(g[0]) - 1]
    BY <2>1, TogetherIs
  <2>3. Len(g[0]) - 1 = 0 /\ g[0][1] = <<>>
    BY <2>1
  <2>4. Together(g[0]) = <<>>
    BY <2>2, <2>3 DEF JoinedBy
  <2>5. SubSeq(s, 1, 0) = <<>>
    BY SubSeqEmpty
  <2>6. 0 \in 0 .. N
    BY <1>1
  <2> QED
    BY <2>4, <2>5, <2>6, Zenon
<1>4. ASSUME NEW n \in 1 .. N, n - 1 \in S
      PROVE  n \in S
  <2>1. n - 1 \in 0 .. N /\ n \in 0 .. N
    BY <1>1
  <2>2. PICK c, w : c = s[n] /\ w = g[n - 1]
    OBVIOUS
  <2>3. c \in Character /\ w \in SomeWords /\ g[n] = Added(w, c)
    BY <1>1, <1>2, <2>1, <2>2 DEF Splitting
  <2>4. Together(g[n]) = Together(w) \o <<c>>
    BY <2>3, TogetherAdded
  <2>5. Together(w) = SubSeq(s, 1, n - 1)
    BY <1>4, <2>2
  <2>6. SubSeq(s, 1, n) = SubSeq(s, 1, n - 1) \o <<s[n]>>
    <3>1. s \in Seq(Character) /\ 1 \in 1 .. Len(s) /\ n \in 1 .. Len(s)
      BY <1>1 DEF SomeText
    <3> QED
      BY <3>1, SubSeqRecursiveSecond
  <2> QED
    BY <2>1, <2>2, <2>4, <2>5, <2>6
<1>5. 0 .. N \subseteq S
  <2> HIDE DEF S, N
  <2> QED
    BY <1>1, <1>3, <1>4, UpTo
<1>6. Together(g[N]) = SubSeq(s, 1, N)
  BY <1>1, <1>5
<1>7. SubSeq(s, 1, N) = s
  BY SubSeqFull DEF SomeText
<1> QED
  BY <1>6, <1>7

\* No separator gets into a word, and the first word ends at the first separator.
LEMMA WordsSplit ==
  ASSUME NEW s \in SomeText, NEW g, Splitting(s, g)
  PROVE  NoSeparators(g[Len(s)]) /\ FirstWord(s, Len(s), g[Len(s)])
<1> DEFINE N == Len(s)
           S == {n \in 0 .. N : NoSeparators(g[n]) /\ FirstWord(s, n, g[n])}
<1>1. N \in Nat /\ \A n \in 1 .. N : s[n] \in Character
  BY DEF SomeText
<1>2. \A n \in 0 .. N : g[n] \in SomeWords
  BY DEF Splitting
<1>3. 0 \in S
  <2>1. PICK w : w = g[0]
    OBVIOUS
  <2>2. Len(w) = 1 /\ Len(w[1]) = 0
    BY <2>1 DEF Splitting
  <2>3. NoSeparators(w) /\ FirstWord(s, 0, w)
    BY <2>2 DEF NoSeparators, FirstWord
  <2> QED
    BY <1>1, <2>1, <2>3
<1>4. ASSUME NEW n \in 1 .. N, n - 1 \in S
      PROVE  n \in S
  <2>1. n - 1 \in 0 .. N /\ n \in 0 .. N /\ n \in Nat
    BY <1>1
  <2>2. PICK c, w, a : c = s[n] /\ w = g[n - 1] /\ a = g[n]
    OBVIOUS
  <2>3. c \in Character /\ w \in SomeWords /\ a = Added(w, c)
    BY <1>1, <1>2, <2>1, <2>2 DEF Splitting
  <2>4. PICK L : L = Len(w)
    OBVIOUS
  <2>5. L \in Nat /\ L >= 1 /\ \A k \in 1 .. L : w[k] \in SomeText
    BY <2>3, <2>4, WordsAre
  <2>6. NoSeparators(w) /\ FirstWord(s, n - 1, w)
    BY <1>4, <2>2
  <2>7. CASE c = Separator
    <3>1. Len(a) = L + 1 /\ a[L + 1] = <<>> /\ \A i \in 1 .. L : a[i] = w[i]
      BY <2>3, <2>4, <2>7, AddedIs
    <3>2. NoSeparators(a)
      <4>1. ASSUME NEW k \in 1 .. L + 1, NEW j \in 1 .. Len(a[k]) PROVE a[k][j] # Separator
        <5>1. k # L + 1
          BY <3>1, <4>1
        <5>2. k \in 1 .. L /\ a[k] = w[k]
          BY <2>5, <3>1, <5>1
        <5> QED
          BY <2>4, <2>6, <4>1, <5>2 DEF NoSeparators
      <4> QED
        BY <3>1, <4>1 DEF NoSeparators
    <3>3. a[1] = w[1] /\ Len(a) # 1
      BY <2>5, <3>1
    <3>4. \E i \in 1 .. n : FirstSeparator(s, i) /\ Len(a[1]) = i - 1
      <4>1. CASE L = 1
        <5>1. Len(w[1]) = n - 1 /\ \A j \in 1 .. n - 1 : s[j] # Separator
          BY <2>4, <2>6, <4>1 DEF FirstWord
        <5>2. FirstSeparator(s, n) /\ n \in 1 .. n
          BY <2>1, <2>2, <2>7, <5>1 DEF FirstSeparator
        <5> QED
          BY <3>3, <5>1, <5>2
      <4>2. CASE L > 1
        <5>1. PICK i \in 1 .. n - 1 : FirstSeparator(s, i) /\ Len(w[1]) = i - 1
          BY <2>4, <2>6, <4>2 DEF FirstWord
        <5>2. i \in 1 .. n
          BY <2>1
        <5> QED
          BY <3>3, <5>1, <5>2
      <4> QED
        BY <2>5, <4>1, <4>2
    <3> QED
      BY <2>1, <2>2, <3>2, <3>3, <3>4 DEF FirstWord
  <2>8. CASE c # Separator
    <3>1. Len(a) = L /\ a[L] = Append(w[L], c) /\ \A i \in 1 .. L - 1 : a[i] = w[i]
      BY <2>3, <2>4, <2>8, AddedIs
    <3>2. w[L] \in SomeText
      BY <2>5
    <3>3. /\ Len(a[L]) = Len(w[L]) + 1 /\ Len(w[L]) \in Nat
          /\ a[L][Len(w[L]) + 1] = c /\ \A j \in 1 .. Len(w[L]) : a[L][j] = w[L][j]
      <4>1. Len(w[L]) \in Nat
        BY <3>2 DEF SomeText
      <4> QED
        BY <2>3, <3>1, <3>2, <4>1, AppendProperties DEF SomeText
    <3>4. NoSeparators(a)
      <4>1. ASSUME NEW k \in 1 .. L, NEW j \in 1 .. Len(a[k]) PROVE a[k][j] # Separator
        <5>1. CASE k # L
          <6>1. k \in 1 .. L - 1 /\ a[k] = w[k]
            BY <2>5, <3>1, <5>1
          <6> QED
            BY <2>4, <2>6, <4>1, <6>1 DEF NoSeparators
        <5>2. CASE k = L
          <6>1. CASE j = Len(w[L]) + 1
            BY <2>8, <3>3, <5>2, <6>1
          <6>2. CASE j # Len(w[L]) + 1
            <7>1. j \in 1 .. Len(w[L])
              BY <3>3, <4>1, <5>2, <6>2
            <7> QED
              BY <2>4, <2>6, <3>3, <5>2, <7>1 DEF NoSeparators
          <6> QED
            BY <6>1, <6>2
        <5> QED
          BY <5>1, <5>2
      <4> QED
        BY <3>1, <4>1 DEF NoSeparators
    <3>5. FirstWord(s, n, a)
      <4>1. CASE L = 1
        <5>1. Len(w[1]) = n - 1 /\ \A j \in 1 .. n - 1 : s[j] # Separator
          BY <2>4, <2>6, <4>1 DEF FirstWord
        <5>2. Len(a[1]) = n /\ Len(a) = 1
          BY <2>1, <3>1, <3>3, <4>1, <5>1
        <5>3. \A j \in 1 .. n : s[j] # Separator
          <6>1. ASSUME NEW j \in 1 .. n PROVE s[j] # Separator
            <7>1. j = n \/ j \in 1 .. n - 1
              BY <2>1
            <7> QED
              BY <2>2, <2>8, <5>1, <7>1
          <6> QED
            BY <6>1
        <5> QED
          BY <5>2, <5>3 DEF FirstWord
      <4>2. CASE L > 1
        <5>1. PICK i \in 1 .. n - 1 : FirstSeparator(s, i) /\ Len(w[1]) = i - 1
          BY <2>4, <2>6, <4>2 DEF FirstWord
        <5>2. i \in 1 .. n /\ a[1] = w[1] /\ Len(a) # 1
          BY <2>1, <2>5, <3>1, <4>2
        <5> QED
          BY <5>1, <5>2 DEF FirstWord
      <4> QED
        BY <2>5, <4>1, <4>2
    <3> QED
      BY <2>1, <2>2, <3>4, <3>5
  <2> QED
    BY <2>7, <2>8
<1>5. 0 .. N \subseteq S
  <2> HIDE DEF S, N
  <2> QED
    BY <1>1, <1>3, <1>4, UpTo
<1>6. N \in S
  BY <1>1, <1>5
<1> QED
  BY <1>6

\* The words, and what is left of the string without its first word.
LEMMA SplitIsRight ==
  ASSUME NEW s \in String
  PROVE  IsSplit(s, split(s), _Q(s))
<1>1. s \in SomeText /\ Len(s) \in Nat /\ DOMAIN s = 1 .. Len(s)
  BY StringIs DEF SomeText
<1>2. PICK g : Splitting(s, g) /\ split(s) = g[Len(s)]
  BY <1>1, SplitIs
<1>3. PICK L, w : L = Len(s) /\ w = split(s)
  OBVIOUS
<1>4. w \in SomeWords
  BY <1>1, <1>2, <1>3 DEF Splitting
<1>5. Together(w) = s
  BY <1>1, <1>2, <1>3, TogetherSplit
<1>6. NoSeparators(w) /\ FirstWord(s, L, w)
  BY <1>1, <1>2, <1>3, WordsSplit
<1>7. Len(w) \in Nat /\ Len(w) >= 1 /\ DOMAIN w = 1 .. Len(w) /\ \A k \in 1 .. Len(w) : w[k] \in SomeText
  BY <1>4, WordsAre
<1>8. \A x \in Range(w) : Separator \notin Range(x)
  <2>1. ASSUME NEW k \in 1 .. Len(w) PROVE Separator \notin Range(w[k])
    <3>1. DOMAIN w[k] = 1 .. Len(w[k])
      BY <1>7 DEF SomeText
    <3>2. \A j \in 1 .. Len(w[k]) : w[k][j] # Separator
      BY <1>6 DEF NoSeparators
    <3> QED
      BY <3>1, <3>2 DEF Range
  <2> QED
    BY <1>7, <2>1 DEF Range
<1>9. ASSUME Separator \in Range(s)
      PROVE  \E i \in DOMAIN s : /\ s[i] = Separator
                                 /\ SubSeq(s, i + 1, Len(s)) = _Q(s)
                                 /\ Len(Head(w)) = i - 1
  <2> DEFINE at == {i \in DOMAIN s : s[i] = Separator}
  <2>1. PICK k \in 1 .. L : s[k] = Separator
    BY <1>1, <1>3, <1>9 DEF Range
  <2>2. Len(w) # 1
    BY <1>6, <2>1 DEF FirstWord
  <2>3. PICK i \in 1 .. L : FirstSeparator(s, i) /\ Len(w[1]) = i - 1
    BY <1>6, <1>7, <2>2 DEF FirstWord
  <2>4. at # {}
    BY <1>1, <1>3, <2>1
  <2>5. i \in at /\ \A j \in at : i <= j
    BY <1>1, <1>3, <2>3 DEF FirstSeparator
  <2>6. i = CHOOSE m \in at : \A j \in at : m <= j
    <3>1. \A m \in at : m \in Nat
      BY <1>1
    <3>2. i \in Nat
      BY <2>5, <3>1
    <3> HIDE DEF at
    <3>3. \A m \in at : (\A j \in at : m <= j) => m = i
      BY <2>5, <3>1, <3>2
    <3> QED
      BY <2>5, <3>3
  <2>7. _Q(s) = SubSeq(s, i + 1, Len(s))
    BY <2>4, <2>6 DEF _Q
  <2>8. Head(w) = w[1]
    BY <1>4 DEF SomeWords
  <2> QED
    BY <1>1, <1>3, <2>3, <2>7, <2>8 DEF FirstSeparator
<1> QED
  BY <1>3, <1>5, <1>8, <1>9 DEF IsSplit

\* Nothing is asked at first; then each question gets an answer that is right.
LEMMA StringsStart == StringsInit => AnswersAreRight
<1>1. SUFFICES ASSUME StringsInit PROVE AnswersAreRight
  OBVIOUS
<1>2. question.about = "nothing"
  BY <1>1 DEF StringsInit
<1> QED
  BY <1>2 DEF AnswersAreRight, PeriodsAreRight, SizesAreRight, StringsAreKept

\* The answer to a question about a period, about a size, and about a string.
LEMMA AskedPeriod ==
  ASSUME NEW t \in Int, NEW left \in BOOLEAN,
         question'.about = (IF left THEN "time left" ELSE "duration"), question'.of = t,
         t > 0 /\ (~left => t >= Minute) => PeriodIsShown(t, left, answer')
  PROVE  AnswersAreRight'
<1>1. question'.about \notin {"size", "speed"} /\ question'.about # "string"
  OBVIOUS
<1>2. SizesAreRight' /\ StringsAreKept'
  BY <1>1 DEF SizesAreRight, StringsAreKept
<1>3. PICK b \in BOOLEAN : b = (question'.about = "time left")
  OBVIOUS
<1>4. b = left
  BY <1>3
<1>5. t > 0 /\ (~b => t >= Minute) => PeriodIsShown(t, b, answer')
  BY <1>4
<1>6. t > 0 /\ (question'.about = "duration" => t >= Minute) =>
      PeriodIsShown(t, (question'.about = "time left"), answer')
  BY <1>3, <1>5
<1>7. PeriodsAreRight'
  BY <1>6 DEF PeriodsAreRight
<1> QED
  BY <1>2, <1>7 DEF AnswersAreRight

LEMMA AskedSize ==
  ASSUME NEW size \in Int, question'.about \in {"size", "speed"}, question'.of = size,
         size > 0 => Len(answer') = 1 /\ SizeIsShown(size, answer'[1])
  PROVE  AnswersAreRight'
<1>1. question'.about \notin {"duration", "time left"} /\ question'.about # "string"
  OBVIOUS
<1>2. PeriodsAreRight' /\ StringsAreKept'
  BY <1>1 DEF PeriodsAreRight, StringsAreKept
<1>3. SizesAreRight'
  BY DEF SizesAreRight
<1> QED
  BY <1>2, <1>3 DEF AnswersAreRight

LEMMA AskedString ==
  ASSUME NEW s \in String, AskString(s)
  PROVE  AnswersAreRight'
<1>1. question'.about = "string" /\ question'.of = s
  BY DEF AskString, Ask
<1>2. /\ answer'.trimmed = trim(s) /\ answer'.words = split(s)
      /\ answer'.unqualified = _Q(s) /\ answer'.converted = convert(s)
  BY Zenon DEF AskString, Ask
<1>3. PeriodsAreRight' /\ SizesAreRight'
  BY <1>1 DEF PeriodsAreRight, SizesAreRight
<1>4. /\ IsTrimmed(s, answer'.trimmed)
      /\ IsSplit(s, answer'.words, answer'.unqualified)
      /\ IsConverted(s, answer'.converted)
  BY <1>2, TrimmedIs, SplitIsRight, ConvertedIs
<1>5. StringsAreKept'
  BY <1>1, <1>4 DEF StringsAreKept
<1> QED
  BY <1>3, <1>5 DEF AnswersAreRight

LEMMA StringsStep == AnswersAreRight /\ [StringsNext]_stringVars => AnswersAreRight'
<1>1. SUFFICES ASSUME AnswersAreRight, [StringsNext]_stringVars
               PROVE  AnswersAreRight'
  OBVIOUS
<1>2. ASSUME NEW t \in Periods, NEW zero \in BOOLEAN, AskDuration(t, zero)
      PROVE  AnswersAreRight'
  <2>1. t \in Int
    BY StringsAssumption
  <2>2. question'.about = "duration" /\ question'.of = t /\ answer' = get_time_duration_string(t, zero)
    BY <1>2 DEF AskDuration, Ask
  <2>3. ASSUME t > 0, t >= Minute PROVE PeriodIsShown(t, FALSE, answer')
    <3>1. t \in Nat \ {0} /\ ~(t < Minute)
      BY <2>1, <2>3, PeriodUnits
    <3> QED
      BY <2>2, <3>1, DurationsAre
  <2> QED
    BY <2>1, <2>2, <2>3, AskedPeriod
<1>3. ASSUME NEW t \in Periods, NEW zero \in BOOLEAN, AskTimeLeft(t, zero)
      PROVE  AnswersAreRight'
  <2>1. t \in Int
    BY StringsAssumption
  <2>2. question'.about = "time left" /\ question'.of = t /\ answer' = get_time_left_string(t, zero)
    BY <1>3 DEF AskTimeLeft, Ask
  <2>3. ASSUME t > 0 PROVE PeriodIsShown(t, TRUE, answer')
    <3>1. t \in Nat \ {0}
      BY <2>1, <2>3
    <3> QED
      BY <2>2, <3>1, TimesLeftAre
  <2> QED
    BY <2>1, <2>2, <2>3, AskedPeriod
<1>4. ASSUME NEW s \in Sizes, NEW zero \in BOOLEAN, AskSize(s, zero)
      PROVE  AnswersAreRight'
  <2>1. s \in Int
    BY StringsAssumption
  <2>2. question'.about = "size" /\ question'.of = s /\ answer' = size_to_string(s, zero)
    BY <1>4 DEF AskSize, Ask
  <2>3. s > 0 => Len(answer') = 1 /\ SizeIsShown(s, answer'[1])
    BY <2>1, <2>2, SizesAre
  <2> QED
    BY <2>1, <2>2, <2>3, AskedSize
<1>5. ASSUME NEW s \in Sizes, NEW zero \in BOOLEAN, AskSpeed(s, zero)
      PROVE  AnswersAreRight'
  <2>1. s \in Int
    BY StringsAssumption
  <2>2. question'.about = "speed" /\ question'.of = s /\ answer' = speed_to_string(s, zero)
    BY <1>5 DEF AskSpeed, Ask
  <2>3. s > 0 => Len(answer') = 1 /\ SizeIsShown(s, answer'[1])
    BY <2>1, <2>2, SpeedsAre
  <2> QED
    BY <2>1, <2>2, <2>3, AskedSize
<1>6. ASSUME UNCHANGED stringVars
      PROVE  AnswersAreRight'
  <2>1. question' = question /\ answer' = answer
    BY <1>6 DEF stringVars
  <2> QED
    BY <1>1, <2>1, Zenon DEF AnswersAreRight, PeriodsAreRight, SizesAreRight, StringsAreKept
<1>7. CASE StringsNext
  BY <1>2, <1>3, <1>4, <1>5, <1>7, AskedString, Zenon DEF StringsNext
<1> QED
  BY <1>1, <1>6, <1>7

\* For any periods, sizes and strings, and any kilobyte of at least a hundred bytes
\* that is at most a ninth above a thousand, what string.cpp says is right: times
\* left, and durations of a minute or more, are shown exactly up to a unit, sizes to
\* within a tenth, trim() takes the spaces around a string and nothing else, split()
\* loses no character, and what cannot be converted keeps all that can be printed.
THEOREM AnswersOfStrings == StringsSpec => []AnswersAreRight
BY StringsStart, StringsStep, PTL DEF StringsSpec
===============================================================================
