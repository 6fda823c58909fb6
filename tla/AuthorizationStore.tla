-------------------------- MODULE AuthorizationStore --------------------------
(***************************************************************************)
(* DesktopDeviceAuthorizationStore (passport_device_authorization_store.rs)*)
(* keeps one signed device authorization beside the vault: written to a    *)
(* temporary file, then published under its name by a hard link, which     *)
(* never replaces a record.                                                *)
(*                                                                         *)
(* persist_verified_once is called by passport_authorize_device, an async  *)
(* command: the runtime may run several at once, and nothing but the file  *)
(* system orders them.  clear is called by passport_clear on the main      *)
(* thread.  One system call is one action.                                 *)
(*                                                                         *)
(* Every authorization here passes verification in the caller's context;   *)
(* a file cut short does not decode.                                       *)
(***************************************************************************)
EXTENDS Files, FiniteSets

CONSTANT Persisters   \* calls of persist_verified_once that may overlap

ASSUME AuthorizationAssumption ==
  /\ Absent \notin Values /\ Torn \notin Values /\ Absent # Torn
  /\ NoFile \notin Inodes

VARIABLES pc,         \* where each call is
          mine,       \* the authorization it persists
          fd,         \* the file it has open
          clearing,   \* where clear is
          removed,    \* clear's flag: something was removed
          answers,    \* history: the Ok answers given for the current record
          late,       \* history: calls that began before the last removal
          alone       \* history: no two calls have overlapped

authorizationVars == <<dir, onDisk, file, pc, mine, fd, clearing, removed, answers, late, alone>>
calls == <<mine, fd, answers, late>>

Names == {"auth", "tmp"}
PersistSteps == {"load", "clean", "create", "write", "sync", "publish", "reload",
          "rm_same", "rm_other", "dirsync", "rm_written"}

AuthorizationTypeOK ==
  /\ FilesTypeOK(Names)
  /\ pc \in [Persisters -> PersistSteps \cup {"idle"}]
  /\ mine \in [Persisters -> Values \cup {Absent}]
  /\ fd \in [Persisters -> Inodes \cup {NoFile}]
  /\ clearing \in {"idle", "auth", "tmp", "sync"}
  /\ removed \in BOOLEAN
  /\ answers \in SUBSET ({"Written", "AlreadyPresent"} \X Values)
  /\ late \in SUBSET Persisters
  /\ alone \in BOOLEAN

Record == Loaded("auth")
Active == {p \in Persisters : pc[p] # "idle"}
Unused == Free \ {fd[p] : p \in Persisters}

AuthorizationInit ==
  /\ FilesInit(Names)
  /\ pc = [p \in Persisters |-> "idle"]
  /\ mine = [p \in Persisters |-> Absent]
  /\ fd = [p \in Persisters |-> NoFile]
  /\ clearing = "idle" /\ removed = FALSE
  /\ answers = {} /\ late = {} /\ alone = TRUE

Advance(p, from, to) ==
  /\ pc[p] = from
  /\ pc' = [pc EXCEPT ![p] = to]
  /\ UNCHANGED <<clearing, removed>>

(* Return from a call; Ok answers are recorded, unless clear removed the   *)
(* record the answer is about while the call ran.                          *)
Return(p, from, given) ==
  /\ Advance(p, from, "idle")
  /\ mine' = [mine EXCEPT ![p] = Absent]
  /\ fd' = [fd EXCEPT ![p] = NoFile]
  /\ answers' = IF p \in late THEN answers ELSE answers \cup given
  /\ late' = late \ {p}

(***************************************************************************)
(* persist_verified_once                                                   *)
(***************************************************************************)

(* The guard on Unused is the bound Inodes on files in use. *)
Call(p, a) ==
  /\ Cardinality(Unused) > Cardinality(Active)
  /\ Advance(p, "idle", "load")
  /\ mine' = [mine EXCEPT ![p] = a]
  /\ UNCHANGED <<files, fd, answers, late>>

NothingStored(p) ==
  /\ Record = Absent
  /\ Advance(p, "load", "clean")
  /\ UNCHANGED <<files, calls>>

(* Faulty: any stored record counts as this one. *)
AnyStored(p) ==
  /\ Record # Absent
  /\ Return(p, "load", {<<"AlreadyPresent", mine[p]>>})
  /\ UNCHANGED files

SameStored(p) ==
  /\ Record = mine[p]
  /\ Return(p, "load", {<<"AlreadyPresent", mine[p]>>})
  /\ UNCHANGED files

(* AuthorizationConflict, or a record that does not decode. *)
OtherStored(p) ==
  /\ Record \notin {Absent, mine[p]}
  /\ Return(p, "load", {})
  /\ UNCHANGED files

RemoveStaleTmp(p) ==
  /\ Advance(p, "clean", "create")
  /\ Unlink("tmp")
  /\ UNCHANGED calls

CreateTmp(p) ==
  /\ dir.tmp = NoFile
  /\ Advance(p, "create", "write")
  /\ \E i \in Unused : CreateFile("tmp", i, mine[p]) /\ fd' = [fd EXCEPT ![p] = i]
  /\ UNCHANGED <<mine, answers, late>>

(* Faulty: the call waits for the temporary file to go away. *)
CreateWaits(p) ==
  /\ dir.tmp # NoFile
  /\ Advance(p, "create", "create")
  /\ UNCHANGED <<files, calls>>

(* create_new finds the temporary file of another call. *)
CreateRefused(p) ==
  /\ dir.tmp # NoFile
  /\ Return(p, "create", {})
  /\ UNCHANGED files

WriteAll(p) ==
  /\ Advance(p, "write", "sync")
  /\ WriteUpTo(fd[p], Full)
  /\ UNCHANGED calls

(* Faulty: the temporary file is not synced. *)
SkipSyncTmp(p) ==
  /\ Advance(p, "sync", "publish")
  /\ fd' = [fd EXCEPT ![p] = NoFile]
  /\ UNCHANGED <<files, mine, answers, late>>

SyncTmp(p) ==
  /\ Advance(p, "sync", "publish")
  /\ SyncFile(fd[p])
  /\ fd' = [fd EXCEPT ![p] = NoFile]
  /\ UNCHANGED <<mine, answers, late>>

(* Faulty: published by a rename, which replaces. *)
PublishByRename(p) ==
  /\ dir.tmp # NoFile
  /\ Advance(p, "publish", "dirsync")
  /\ Rename("tmp", "auth")
  /\ UNCHANGED calls

(* hard_link publishes whatever file has the temporary name now. *)
Publish(p) ==
  /\ dir.tmp # NoFile /\ dir.auth = NoFile
  /\ Advance(p, "publish", "dirsync")
  /\ Link("tmp", "auth")
  /\ UNCHANGED calls

PublishLost(p) ==
  /\ dir.tmp # NoFile /\ dir.auth # NoFile
  /\ Advance(p, "publish", "reload")
  /\ UNCHANGED <<files, calls>>

PublishFailed(p) ==
  /\ dir.tmp = NoFile
  /\ Return(p, "publish", {})
  /\ UNCHANGED files

(* AlreadyExists: the record that won is loaded and compared. *)
Reload(p) ==
  /\ Record \in Values
  /\ Advance(p, "reload", IF Record = mine[p] THEN "rm_same" ELSE "rm_other")
  /\ UNCHANGED <<files, calls>>

ReloadFailed(p) ==
  /\ Record \notin Values
  /\ Return(p, "reload", {})
  /\ UNCHANGED files

RemoveTmpSame(p) ==
  /\ Return(p, "rm_same", {<<"AlreadyPresent", mine[p]>>})
  /\ Unlink("tmp")

RemoveTmpOther(p) ==
  /\ Return(p, "rm_other", {})
  /\ Unlink("tmp")

(* Faulty: the link is not made durable. *)
SkipSyncParent(p) ==
  /\ Advance(p, "dirsync", "rm_written")
  /\ UNCHANGED <<files, calls>>

SyncParent(p) ==
  /\ Advance(p, "dirsync", "rm_written")
  /\ SyncDir
  /\ UNCHANGED calls

RemoveTmpWritten(p) ==
  /\ Return(p, "rm_written", {<<"Written", mine[p]>>})
  /\ Unlink("tmp")

Persist(p) ==
  \/ NothingStored(p) \/ SameStored(p) \/ OtherStored(p)
  \/ RemoveStaleTmp(p) \/ CreateTmp(p) \/ CreateRefused(p)
  \/ WriteAll(p) \/ SyncTmp(p)
  \/ Publish(p) \/ PublishLost(p) \/ PublishFailed(p)
  \/ Reload(p) \/ ReloadFailed(p) \/ RemoveTmpSame(p) \/ RemoveTmpOther(p)
  \/ SyncParent(p) \/ RemoveTmpWritten(p)

(***************************************************************************)
(* clear                                                                   *)
(***************************************************************************)

BeginClearAuth ==
  /\ clearing = "idle" /\ clearing' = "auth"
  /\ removed' = FALSE
  /\ UNCHANGED <<files, pc, calls>>

RemoveAuth ==
  /\ clearing = "auth" /\ clearing' = "tmp"
  /\ removed' = (dir.auth # NoFile)
  /\ Unlink("auth")
  /\ IF dir.auth # NoFile
     THEN answers' = {} /\ late' = Active
     ELSE UNCHANGED <<answers, late>>
  /\ UNCHANGED <<pc, mine, fd>>

RemoveTmp ==
  /\ clearing = "tmp"
  /\ removed' = (removed \/ dir.tmp # NoFile)
  /\ clearing' = IF removed' THEN "sync" ELSE "idle"
  /\ Unlink("tmp")
  /\ UNCHANGED <<pc, calls>>

SyncCleared ==
  /\ clearing = "sync" /\ clearing' = "idle"
  /\ SyncDir
  /\ UNCHANGED <<removed, pc, calls>>

ClearAuth == RemoveAuth \/ RemoveTmp \/ SyncCleared

(***************************************************************************)
(* Failures                                                                *)
(***************************************************************************)

(* A system call fails without effect and its error is returned; an error  *)
(* of publishing removes the temporary file first.                         *)
IoError(p) ==
  /\ pc[p] \in PersistSteps
  /\ Return(p, pc[p], {})
  /\ IF pc[p] = "publish" THEN Unlink("tmp") ELSE UNCHANGED files

ShortWrite(p) ==
  /\ Return(p, "write", {})
  /\ WriteUpTo(fd[p], Part)

ClearError ==
  /\ clearing # "idle" /\ clearing' = "idle"
  /\ UNCHANGED <<files, removed, pc, calls>>

Restart ==
  /\ pc' = [p \in Persisters |-> "idle"]
  /\ mine' = [p \in Persisters |-> Absent]
  /\ fd' = [p \in Persisters |-> NoFile]
  /\ clearing' = "idle" /\ removed' = FALSE
  /\ late' = {}

Kill == Restart /\ UNCHANGED <<files, answers>>

(* AlreadyPresent never said that the record was durable. *)
PowerLoss ==
  /\ Restart
  /\ LosePower
  /\ answers' = {x \in answers : x[1] = "Written"}

Fault == ClearError \/ Kill \/ PowerLoss \/ \E p \in Persisters : IoError(p) \/ ShortWrite(p)

-----------------------------------------------------------------------------
Watch == alone' = (alone /\ \A p, q \in Persisters :
                               p # q => "idle" \in {pc'[p], pc'[q]})

AuthorizationNext ==
  /\ \/ \E p \in Persisters : Persist(p) \/ \E a \in Values : Call(p, a)
     \/ BeginClearAuth \/ ClearAuth
     \/ Fault
  /\ Watch

AuthorizationSpec == AuthorizationInit /\ [][AuthorizationNext]_authorizationVars

-----------------------------------------------------------------------------
(***************************************************************************)
(* Properties                                                              *)
(***************************************************************************)

(* passport_device_authorization_store.rs:7, "one immutable current        *)
(* authorization record; same record is idempotent; conflicting record     *)
(* fails closed": two different authorizations are never both answered     *)
(* with success while no clear came between, as long as calls follow one   *)
(* another.                                                                *)
ConflictFailsClosed ==
  alone => \A x, y \in answers : x[2] = y[2]

(* An answer Written is about the record on the disk: it is what a load,   *)
(* even after a power loss, returns until clear removes it, as long as     *)
(* calls follow one another.                                               *)
WrittenIsDurable ==
  alone => \A a \in Values : <<"Written", a>> \in answers => Survivors("auth") = {a}

(* A reader of the published name never sees a record cut short: neither   *)
(* while it is being written nor after any crash, as long as calls follow  *)
(* one another.                                                            *)
RecordIsWhole == alone => Record # Torn

(* However calls overlap, a record that can be read is never replaced or   *)
(* changed in place; only clear takes it away (or the power, if it was not *)
(* durable yet).                                                           *)
WholeRecordStays ==
  [][(Record \in Values) /\ Record' # Record => RemoveAuth \/ PowerLoss]_authorizationVars

(* Every call returns unless faults never stop, whatever temporary files   *)
(* earlier calls left and other calls take away meanwhile.  A call has no  *)
(* loop, so it is enough that it can always go on.                         *)
NeverStuck ==
  \A p \in Active : ENABLED <<Persist(p)>>_<<files, pc, calls>>

(* However calls overlap, each writes a file of its own, empty until then. *)
FilesOfCalls ==
  /\ dir \in onDisk
  /\ \A p \in Persisters :
       /\ pc[p] # "idle" => mine[p] \in Values
       /\ pc[p] \in {"write", "sync"} <=> fd[p] # NoFile
       /\ pc[p] = "write" => file[fd[p]].len = Empty
  /\ \A p, q \in Persisters : fd[p] = fd[q] /\ fd[p] # NoFile => p = q

(* The published name, whatever a power loss leaves of the directory, is   *)
(* that of a whole record, and of this one.                                *)
Durable(f) == f.len = Full /\ f.synced
IsOnDisk(a) == \A d \in onDisk : d.auth # NoFile /\ file[d.auth].val = a

OneAtATime == \A p, q \in Persisters : p # q => "idle" \in {pc[p], pc[q]}

(* Only whole files are published.                                         *)
OnlyWhole == \A d \in onDisk : d.auth # NoFile => Durable(file[d.auth])

(* The temporary name is the call's own file unless clear took it, and what*)
(* it is about to answer is the record stored.                             *)
OnCourse(p) ==
  /\ pc[p] \in {"write", "sync"} =>
       dir.tmp \in {NoFile, fd[p]} /\ file[fd[p]].val = mine[p]
  /\ pc[p] = "write" => ~file[fd[p]].synced
  /\ pc[p] = "sync" => file[fd[p]].len = Full
  /\ pc[p] = "publish" /\ dir.tmp # NoFile =>
       Durable(file[dir.tmp]) /\ file[dir.tmp].val = mine[p]
  /\ pc[p] \in {"dirsync", "rm_same", "rm_written"} /\ p \notin late =>
       Record = mine[p]
  /\ pc[p] = "rm_written" /\ p \notin late => IsOnDisk(mine[p])

(* What was answered is the record stored.                                 *)
AnsweredIsStored ==
  \A x \in answers : Record = x[2] /\ (x[1] = "Written" => IsOnDisk(x[2]))

(* What holds while calls follow one another.                              *)
CallsInTurn ==
  /\ OneAtATime /\ OnlyWhole /\ AnsweredIsStored
  /\ \A p \in Persisters : OnCourse(p)

(* The store is well formed, and a record persist_verified_once publishes is*)
(* whole whenever it is read, as long as calls follow one another.         *)
AuthorizationInv ==
  AuthorizationTypeOK /\ FilesOfCalls /\ (alone => CallsInTurn) /\ RecordIsWhole
=============================================================================
