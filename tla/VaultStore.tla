----------------------------- MODULE VaultStore -----------------------------
(***************************************************************************)
(* DesktopAtomicVaultStore (passport_vault_store.rs): the encrypted vault  *)
(* kept in one file, replaced through a temporary file, one system call    *)
(* per action.  Commands call it from one thread, so the calls follow one  *)
(* another; what interferes is an I/O error at any call, the death of the  *)
(* process and the loss of power, after which recover_interrupted_write    *)
(* runs before any command (passport_vault_runtime.rs, lib.rs setup).      *)
(***************************************************************************)
EXTENDS Files, FiniteSets

ASSUME DistinctMarkers ==
  /\ Absent \notin Values /\ Torn \notin Values /\ Absent # Torn
  /\ NoFile \notin Inodes

VARIABLES pc,       \* where the store is
          arg,      \* the vault being written, or Absent
          mayHold   \* history: the confirmed vault and those asked for since

vars == <<dir, onDisk, file, pc, arg, mayHold>>

Names == {"vault", "tmp"}

WriteSteps   == {"w_clean", "w_create", "w_write", "w_sync",
                 "w_dirsync", "w_rename", "w_confirm"}
RecoverSteps == {"r_scan", "r_discard", "r_dirsync"}
RemoveSteps  == {"d_vault", "d_tmp", "d_absent", "d_dirsync", "d_confirm"}

TypeOK ==
  /\ FilesTypeOK(Names)
  /\ pc \in {"down", "idle"} \cup WriteSteps \cup RecoverSteps \cup RemoveSteps
  /\ arg \in Values \cup {Absent}
  /\ mayHold \in SUBSET (Values \cup {Absent})

(* What load_encrypted_vault returns. *)
Held == Loaded("vault")

Goto(from, to) == pc = from /\ pc' = to

(* The application starts with recover_interrupted_write. *)
Init ==
  /\ FilesInit(Names)
  /\ pc = "r_scan"
  /\ arg = Absent
  /\ mayHold = {Absent}

(***************************************************************************)
(* write_encrypted_vault_atomic                                            *)
(***************************************************************************)

(* Free # {}: the bound Inodes on files in use before the next sync. *)
BeginWrite(v) ==
  /\ Goto("idle", "w_clean")
  /\ Free # {}
  /\ arg' = v
  /\ mayHold' = mayHold \cup {v}
  /\ UNCHANGED files

RemoveStaleTmp ==
  /\ Goto("w_clean", "w_create")
  /\ Unlink("tmp")
  /\ UNCHANGED <<arg, mayHold>>

CreateTmp ==
  /\ Goto("w_create", "w_write")
  /\ dir.tmp = NoFile                       \* create_new
  /\ \E i \in Inodes : CreateFile("tmp", i, arg)
  /\ UNCHANGED <<arg, mayHold>>

WriteAll ==
  /\ Goto("w_write", "w_sync")
  /\ WriteUpTo(dir.tmp, Full)
  /\ UNCHANGED <<arg, mayHold>>

(* Faulty: the temporary file is not synced. *)
SkipSyncTmp ==
  /\ Goto("w_sync", "w_dirsync")
  /\ UNCHANGED <<files, arg, mayHold>>

SyncTmp ==
  /\ Goto("w_sync", "w_dirsync")
  /\ SyncFile(dir.tmp)
  /\ UNCHANGED <<arg, mayHold>>

SyncBeforeRename ==
  /\ Goto("w_dirsync", "w_rename")
  /\ SyncDir
  /\ UNCHANGED <<arg, mayHold>>

Replace ==
  /\ Goto("w_rename", "w_confirm")
  /\ Rename("tmp", "vault")
  /\ UNCHANGED <<arg, mayHold>>

(* Faulty: the rename is not made durable. *)
ConfirmUnsynced ==
  /\ Goto("w_confirm", "idle")
  /\ mayHold' = {arg}
  /\ arg' = Absent
  /\ UNCHANGED files

(* The last directory sync and Ok(()): only this confirms the write. *)
ConfirmWrite ==
  /\ Goto("w_confirm", "idle")
  /\ SyncDir
  /\ mayHold' = {arg}
  /\ arg' = Absent

(***************************************************************************)
(* recover_interrupted_write, and the start of the process around it       *)
(***************************************************************************)

Start ==
  /\ Goto("down", "r_scan")
  /\ UNCHANGED <<files, arg, mayHold>>

NoRecoveryNeeded ==
  /\ Goto("r_scan", "idle")
  /\ dir.tmp = NoFile
  /\ UNCHANGED <<files, arg, mayHold>>

(* Faulty: an empty temporary file is an error instead. *)
DiscardOnlyBesideVault ==
  /\ Goto("r_scan", "r_discard")
  /\ dir.tmp # NoFile /\ dir.vault # NoFile
  /\ Unlink("tmp")
  /\ UNCHANGED <<arg, mayHold>>

(* A vault is there, or the temporary file is empty: discard the latter. *)
DiscardStaleTmp ==
  /\ Goto("r_scan", "r_discard")
  /\ dir.tmp # NoFile
  /\ dir.vault # NoFile \/ file[dir.tmp].len = Empty
  /\ Unlink("tmp")
  /\ UNCHANGED <<arg, mayHold>>

StaleTmpRemoved ==
  /\ Goto("r_discard", "idle")
  /\ SyncDir
  /\ UNCHANGED <<arg, mayHold>>

(* No vault, and a temporary file with at least a byte in it. *)
PromoteTmp ==
  /\ Goto("r_scan", "r_dirsync")
  /\ dir.tmp # NoFile /\ dir.vault = NoFile
  /\ file[dir.tmp].len # Empty
  /\ Rename("tmp", "vault")
  /\ UNCHANGED <<arg, mayHold>>

TmpPromoted ==
  /\ Goto("r_dirsync", "idle")
  /\ SyncDir
  /\ UNCHANGED <<arg, mayHold>>

(***************************************************************************)
(* remove_encrypted_vault                                                  *)
(***************************************************************************)

BeginRemove ==
  /\ Goto("idle", "d_vault")
  /\ mayHold' = mayHold \cup {Absent}
  /\ UNCHANGED <<files, arg>>

RemoveVault ==
  /\ pc = "d_vault"
  /\ pc' = IF dir.vault # NoFile THEN "d_tmp" ELSE "d_absent"
  /\ Unlink("vault")
  /\ UNCHANGED <<arg, mayHold>>

(* remove_temporary after a removed vault: always followed by a sync. *)
RemoveTmpToo ==
  /\ Goto("d_tmp", "d_confirm")
  /\ Unlink("tmp")
  /\ UNCHANGED <<arg, mayHold>>

(* There was no vault: the directory is synced only if a temporary went. *)
RemoveLoneTmp ==
  /\ pc = "d_absent"
  /\ pc' = IF dir.tmp # NoFile THEN "d_dirsync" ELSE "idle"
  /\ Unlink("tmp")
  /\ UNCHANGED <<arg, mayHold>>

(* Outcome NotFound after the sync of a removed temporary file. *)
NotFound ==
  /\ Goto("d_dirsync", "idle")
  /\ SyncDir
  /\ UNCHANGED <<arg, mayHold>>

(* Outcome Removed. *)
ConfirmRemoved ==
  /\ Goto("d_confirm", "idle")
  /\ SyncDir
  /\ mayHold' = {Absent}
  /\ UNCHANGED arg

(***************************************************************************)
(* Failures                                                                *)
(***************************************************************************)

(* A call fails before it has any effect: the command gets the error, and  *)
(* an application whose recovery failed does not start.                    *)
IoError ==
  /\ pc \notin {"down", "idle"}
  /\ pc' = IF pc \in RecoverSteps THEN "down" ELSE "idle"
  /\ arg' = Absent
  /\ UNCHANGED <<files, mayHold>>

(* write_all writes a first part of the bytes and then fails. *)
ShortWrite ==
  /\ Goto("w_write", "idle")
  /\ WriteUpTo(dir.tmp, Part)
  /\ arg' = Absent
  /\ UNCHANGED mayHold

(* The process dies; the file system keeps all it was told. *)
Kill ==
  /\ pc # "down"
  /\ pc' = "down"
  /\ arg' = Absent
  /\ IF pc = "w_write"
     THEN \E len \in {Empty, Part} : WriteUpTo(dir.tmp, len)
     ELSE UNCHANGED files
  /\ UNCHANGED mayHold

PowerLoss ==
  /\ pc' = "down"
  /\ arg' = Absent
  /\ LosePower
  /\ UNCHANGED mayHold

-----------------------------------------------------------------------------
Write   == \/ RemoveStaleTmp \/ CreateTmp \/ WriteAll \/ SyncTmp
           \/ SyncBeforeRename \/ Replace \/ ConfirmWrite
Recover == \/ Start \/ NoRecoveryNeeded \/ DiscardStaleTmp \/ StaleTmpRemoved
           \/ PromoteTmp \/ TmpPromoted
Remove  == \/ RemoveVault \/ RemoveTmpToo \/ RemoveLoneTmp \/ NotFound
           \/ ConfirmRemoved
Fault   == IoError \/ ShortWrite \/ Kill \/ PowerLoss

Next ==
  \/ \E v \in Values : BeginWrite(v)
  \/ BeginRemove
  \/ Write \/ Recover \/ Remove
  \/ Fault

Spec == Init /\ [][Next]_vars

-----------------------------------------------------------------------------
(***************************************************************************)
(* Properties                                                              *)
(***************************************************************************)

(* The store is an atomic cell: whatever fails or crashes, loading yields  *)
(* the confirmed vault or one asked for since; after Ok(()) or Removed the *)
(* answer is the only thing even a power loss can bring back.              *)
Cell == INSTANCE DurableCell WITH held <- Held, survivors <- Survivors("vault"),
                                  offered <- mayHold
IsDurableCell == Cell!Spec

(* Once a write has answered Ok(()), or a removal Removed, that content is *)
(* loaded and is all a power loss can leave, until another call begins:    *)
(* no stale temporary file, unsynced rename or recovery brings back        *)
(* anything older, however many failures and restarts went before.         *)
ConfirmedIsDurable ==
  \A x \in Values \cup {Absent} :
    mayHold = {x} => Held = x /\ Survivors("vault") = {x}

(* The application always comes up and every call returns, unless faults   *)
(* never stop: no error or crash leaves files a later start or call cannot *)
(* get past.  A call has no loop, so it is enough that it can always go on.*)
NeverStuck == pc # "idle" => ENABLED (Write \/ Recover \/ Remove)

(* Every file a power loss may leave under a name carries a vault asked    *)
(* for since the last confirmed call, or confirmed by it, and unless the   *)
(* store may also be empty a whole one is there.                           *)
Durable(f) == f.len = Full /\ f.synced

DiskIsOffered ==
  /\ dir \in onDisk
  /\ \A d \in onDisk : \A n \in Names :
        d[n] # NoFile => file[d[n]].val \in mayHold \ {Absent}
  /\ \A d \in onDisk :
        Absent \in mayHold \/ (d.vault # NoFile /\ Durable(file[d.vault]))

(* What each step of a call finds done by the steps before it.             *)
StepsAgree ==
  /\ pc \in WriteSteps => arg \in mayHold \ {Absent}
  /\ pc \in {"w_write", "w_sync", "w_dirsync", "w_rename"} =>
        dir.tmp # NoFile /\ file[dir.tmp].val = arg
  /\ pc = "w_write" => ~file[dir.tmp].synced
  /\ pc = "w_sync" => file[dir.tmp].len = Full
  /\ pc \in {"w_dirsync", "w_rename"} => Durable(file[dir.tmp])
  /\ pc = "w_confirm" => /\ dir.tmp = NoFile /\ dir.vault # NoFile
                         /\ file[dir.vault].val = arg /\ Durable(file[dir.vault])
  /\ pc \in RemoveSteps => Absent \in mayHold
  /\ pc = "d_confirm" => dir.vault = NoFile /\ dir.tmp = NoFile
  /\ pc = "d_tmp" => dir.vault = NoFile

(* The store is well formed, and write_encrypted_vault_atomic answers Ok,  *)
(* and remove_encrypted_vault Ok, only when a power loss can no longer find*)
(* anything else.                                                          *)
VaultInv == TypeOK /\ DiskIsOffered /\ StepsAgree /\ ConfirmedIsDurable
=============================================================================
