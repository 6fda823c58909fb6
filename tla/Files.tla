------------------------------- MODULE Files -------------------------------
(***************************************************************************)
(* The file system as the desktop stores use it (external): a directory    *)
(* maps a few fixed names to files.  A change of the directory is lost by  *)
(* a power loss unless the directory was synced after it; changes reach    *)
(* the disk in order, so the disk holds one of the directories seen since  *)
(* the last sync.  A file that was not synced keeps any prefix of its      *)
(* bytes.  The death of the process loses nothing.                         *)
(***************************************************************************)
EXTENDS Naturals

CONSTANTS Inodes,    \* files (bounds how many are in use between two syncs)
          NoFile,    \* what a name with no file maps to
          Values,    \* the records a file may carry
          Absent,    \* reading a name with no file
          Torn       \* reading a file cut short

VARIABLES dir,       \* the directory the process sees: the file of each name
          onDisk,    \* the directories a power loss may leave
          file       \* the contents of each file

files == <<dir, onDisk, file>>

(* How much of its record a file holds. *)
Empty == 0
Part  == 1
Full  == 2

Dirs(names) == [names -> Inodes \cup {NoFile}]
Contents    == [val : Values \cup {Absent}, len : Empty..Full, synced : BOOLEAN]

FilesTypeOK(names) ==
  /\ dir \in Dirs(names)
  /\ onDisk \in SUBSET Dirs(names)
  /\ file \in [Inodes -> Contents]

FilesInit(names) ==
  /\ dir = [n \in names |-> NoFile]
  /\ onDisk = {dir}
  /\ file = [i \in Inodes |-> [val |-> Absent, len |-> Empty, synced |-> TRUE]]

InUse == {i \in Inodes : \E d \in onDisk : \E n \in DOMAIN d : d[n] = i}
Free  == Inodes \ InUse

(* What a reader makes of a file with these contents, or of a name. *)
Reads(f) == IF f.len = Full THEN f.val ELSE Torn

Loaded(name) == IF dir[name] = NoFile THEN Absent ELSE Reads(file[dir[name]])

(* What it may make of them after a power loss. *)
MayRead(f) ==
  IF f.synced THEN {Reads(f)}
  ELSE {Torn} \cup (IF f.len = Full THEN {f.val} ELSE {})

Survivors(name) ==
  UNION {IF d[name] = NoFile THEN {Absent} ELSE MayRead(file[d[name]]) : d \in onDisk}

(***************************************************************************)
(* System calls                                                            *)
(***************************************************************************)

(* Change the directory; nothing is durable before the next sync. *)
SetDir(d) ==
  /\ dir' = d
  /\ onDisk' = onDisk \cup {d}

Unlink(name)     == SetDir([dir EXCEPT ![name] = NoFile]) /\ UNCHANGED file
Rename(from, to) == SetDir([dir EXCEPT ![to] = dir[from], ![from] = NoFile]) /\ UNCHANGED file
Link(from, to)   == SetDir([dir EXCEPT ![to] = dir[from]]) /\ UNCHANGED file

(* A new, empty file i under the name, for the record v. *)
CreateFile(name, i, v) ==
  /\ i \in Free
  /\ SetDir([dir EXCEPT ![name] = i])
  /\ file' = [file EXCEPT ![i] = [val |-> v, len |-> Empty, synced |-> FALSE]]

WriteUpTo(i, len) == file' = [file EXCEPT ![i].len = len] /\ UNCHANGED <<dir, onDisk>>

SyncFile(i) == file' = [file EXCEPT ![i].synced = TRUE] /\ UNCHANGED <<dir, onDisk>>

SyncDir == onDisk' = {dir} /\ UNCHANGED <<dir, file>>

LosePower ==
  /\ \E d \in onDisk : dir' = d /\ onDisk' = {d}
  /\ \E kept \in [Inodes -> Empty..Full] :
       /\ \A i \in Inodes : /\ kept[i] <= file[i].len
                            /\ file[i].synced => kept[i] = file[i].len
       /\ file' = [i \in Inodes |->
                     [file[i] EXCEPT !.len = kept[i], !.synced = TRUE]]
=============================================================================
