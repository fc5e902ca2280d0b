------------------------------- MODULE FsConfig -------------------------------
(***************************************************************************)
(* m::fs::config (src/src/mlib/fs.cpp): a configuration file that is       *)
(* replaced through a temporary one, so that a program that ends in the    *)
(* middle of writing finds a configuration when it starts again.           *)
(*                                                                         *)
(* One program saves its configuration again and again; every system call  *)
(* that changes a file is a step, and the program may end, or the call may *)
(* fail, before any of them.  A file that was opened for writing is whole  *)
(* only when the last of it is written.                                    *)
(***************************************************************************)
EXTENDS Naturals

CONSTANT MaxVersion   \* bound: number of configurations the program saves

ASSUME MaxVersionIsNat == MaxVersion \in Nat

Version == 1..MaxVersion

\* A file that is not there has no version.
Absent == [version |-> 0, whole |-> FALSE]
Part(v) == [version |-> v, whole |-> FALSE]
Whole(v) == [version |-> v, whole |-> TRUE]
File == {Absent} \cup {Part(v) : v \in Version} \cup {Whole(v) : v \in Version}

VARIABLES
  config,  \* the file config_path
  temp,    \* the file config_path + ".new"
  pc,      \* where the program is: "idle", "copy", "copying", "save", "saving", "end", "rename"
  saving,  \* the version the program saves, or saved last
  saved,   \* history: the version whose end_writing() returned last
  torn     \* history: config is what an interrupted start_writing() copied

configVars == <<config, temp, pc, saving, saved, torn>>

ConfigInit ==
  /\ config = Absent
  /\ temp = Absent
  /\ pc = "idle"
  /\ saving = 0
  /\ saved = 0
  /\ torn = FALSE

\* The file that start_reading() names: the temporary one stands in for a
\* missing configuration.
start_reading == IF config = Absent /\ temp # Absent THEN temp ELSE config

\* Fault in start_writing: what an interrupted end_writing() left behind is
\* not saved before it is overwritten.
start_writing_at_once ==
  /\ pc = "idle"
  /\ saving < MaxVersion
  /\ saving' = saving + 1
  /\ pc' = "save"
  /\ UNCHANGED <<config, temp, saved, torn>>

\* start_writing() copies the temporary file where the configuration is
\* missing, and gives the temporary file to the program to write.
start_writing ==
  /\ pc = "idle"
  /\ saving < MaxVersion
  /\ saving' = saving + 1
  /\ pc' = IF config = Absent /\ temp # Absent THEN "copy" ELSE "save"
  /\ UNCHANGED <<config, temp, saved, torn>>

\* copy_file() creates the file, and fills it.
CopyCreates ==
  /\ pc = "copy"
  /\ config' = Part(temp.version)
  /\ pc' = "copying"
  /\ UNCHANGED <<temp, saving, saved, torn>>

CopyFills ==
  /\ pc = "copying"
  /\ config' = temp
  /\ pc' = "save"
  /\ UNCHANGED <<temp, saving, saved, torn>>

\* The program writes the file that start_writing() named.
SaveCreates ==
  /\ pc = "save"
  /\ temp' = Part(saving)
  /\ pc' = "saving"
  /\ UNCHANGED <<config, saving, saved, torn>>

SaveFills ==
  /\ pc = "saving"
  /\ temp' = Whole(saving)
  /\ pc' = "end"
  /\ UNCHANGED <<config, saving, saved, torn>>

\* end_writing() removes the configuration, if there is one.
RemoveConfig ==
  /\ pc = "end"
  /\ config' = Absent
  /\ pc' = "rename"
  /\ torn' = FALSE
  /\ UNCHANGED <<temp, saving, saved>>

\* It then renames the new one, and returns.
Rename ==
  /\ pc = "rename"
  /\ config' = temp
  /\ temp' = Absent
  /\ pc' = "idle"
  /\ saved' = saving
  /\ UNCHANGED <<saving, torn>>

end_writing == RemoveConfig \/ Rename

\* The program ends, or the next call throws m::Exception and it gives the
\* saving up: the files stay as they are.
Stop ==
  /\ pc # "idle"
  /\ pc' = "idle"
  /\ torn' = (torn \/ pc = "copying")
  /\ UNCHANGED <<config, temp, saving, saved>>

Finished == pc = "idle" /\ saving = MaxVersion /\ UNCHANGED configVars

ConfigNext ==
  \/ start_writing
  \/ CopyCreates \/ CopyFills
  \/ SaveCreates \/ SaveFills
  \/ end_writing
  \/ Stop
  \/ Finished

ConfigSpec == ConfigInit /\ [][ConfigNext]_configVars

-----------------------------------------------------------------------------
\* Types of the files and of the program's state; what is copied is there.
ConfigTypeOK ==
  /\ config \in File
  /\ temp \in File
  /\ pc \in {"idle", "copy", "copying", "save", "saving", "end", "rename"}
  /\ saving \in 0..MaxVersion
  /\ saved \in 0..MaxVersion
  /\ torn \in BOOLEAN
  /\ pc \in {"copy", "copying"} => temp # Absent

\* Wherever the program ends, the next one finds a whole configuration with
\* start_reading(): the one saved last, or a later one that was whole already.
\* start_writing() must not have been interrupted while it was copying.
SavedIsFound ==
  saved # 0 /\ pc # "copying" /\ ~torn
    => start_reading.whole /\ start_reading.version >= saved

\* What the two functions are for (fs.hpp:64-66): a configuration that was
\* saved is not spoilt when the program ends while it is writing.  Not so: the
\* copy that start_writing() makes is not protected itself.
NeverSpoilt == saved # 0 /\ pc = "idle" => start_reading.whole
=============================================================================
