-------------------------- MODULE VaultStoreProofs --------------------------
(***************************************************************************)
(* Proofs about the vault store, for any vaults and any number of files:   *)
(* what Ok(()) and Removed confirmed survives every failure, crash and     *)
(* loss of power, and the store is the durable cell DurableCell promises.  *)
(***************************************************************************)
EXTENDS VaultStore, TLAPS

USE DistinctMarkers
USE DEF TypeOK, FilesTypeOK, Dirs, Contents, Names, Empty, Part, Full,
        DiskIsOffered, Durable, WriteSteps, RecoverSteps, RemoveSteps, Goto

\* VaultInv, less what follows from the rest.
DiskInv == TypeOK /\ DiskIsOffered /\ StepsAgree

-----------------------------------------------------------------------------
(* What a reader finds.                                                    *)

\* What one name of a directory may be read as after a power loss.
Leaves(d) == IF d.vault = NoFile THEN {Absent} ELSE MayRead(file[d.vault])

LEMMA SurvivorsAre == Survivors("vault") = UNION {Leaves(d) : d \in onDisk}
  BY DEF Survivors, Leaves

(* A file is read as what it carries or as torn, a durable one as what it  *)
(* carries.                                                                *)
LEMMA ReadsOfFile ==
  ASSUME NEW f \in Contents
  PROVE  /\ Reads(f) \in MayRead(f) /\ MayRead(f) \subseteq {f.val, Torn}
         /\ Durable(f) => MayRead(f) = {f.val}
  BY DEF Reads, MayRead

LEMMA DiskIsAllowed ==
  DiskInv => /\ Held \in Survivors("vault")
             /\ Survivors("vault") \subseteq Cell!Allowed(mayHold)
<1> SUFFICES ASSUME DiskInv
             PROVE  /\ Held \in Survivors("vault")
                    /\ Survivors("vault") \subseteq Cell!Allowed(mayHold)
  OBVIOUS
<1> USE DEF DiskInv
<1>1. Held \in Leaves(dir) /\ dir \in onDisk
  BY ReadsOfFile DEF Held, Loaded, Leaves
<1>2. ASSUME NEW d \in onDisk PROVE Leaves(d) \subseteq Cell!Allowed(mayHold)
  <2>1. CASE d.vault = NoFile
    BY <2>1 DEF Leaves, Cell!Allowed
  <2>2. CASE d.vault # NoFile
    <3>1. file[d.vault] \in Contents /\ file[d.vault].val \in mayHold \ {Absent}
      BY <2>2
    <3>2. Leaves(d) = MayRead(file[d.vault])
      BY <2>2 DEF Leaves
    <3>3. Absent \in mayHold \/ Durable(file[d.vault])
      OBVIOUS
    <3> HIDE DEF Contents, Durable
    <3>4. CASE Absent \in mayHold
      BY <3>1, <3>2, <3>4, ReadsOfFile DEF Cell!Allowed
    <3>5. CASE Absent \notin mayHold
      BY <3>1, <3>2, <3>3, <3>5, ReadsOfFile DEF Cell!Allowed
    <3> QED BY <3>4, <3>5
  <2> QED BY <2>1, <2>2
<1> QED BY <1>1, <1>2, SurvivorsAre

(* While only one content is possible, it is what every reader finds.      *)
LEMMA ConfirmedSurvives == DiskInv => ConfirmedIsDurable
<1> SUFFICES ASSUME DiskInv, NEW x, mayHold = {x}
             PROVE  Held = x /\ Survivors("vault") = {x}
  BY DEF ConfirmedIsDurable
<1>1. Cell!Allowed(mayHold) = {x}
  BY DEF Cell!Allowed
<1> QED BY <1>1, DiskIsAllowed

-----------------------------------------------------------------------------
LEMMA InitDisk == Init => DiskInv
  BY DEF Init, FilesInit, DiskInv, StepsAgree

LEMMA WriteKeeps == DiskInv /\ (Write \/ \E v \in Values : BeginWrite(v)) => DiskInv'
<1> SUFFICES ASSUME DiskInv, Write \/ \E v \in Values : BeginWrite(v) PROVE DiskInv'
  OBVIOUS
<1> USE DEF DiskInv, StepsAgree, SetDir, files
<1>1. CASE \E v \in Values : BeginWrite(v)
  BY <1>1 DEF BeginWrite
<1>2. CASE RemoveStaleTmp
  BY <1>2 DEF RemoveStaleTmp, Unlink
<1>3. CASE CreateTmp
  <2>1. PICK i \in Inodes : CreateFile("tmp", i, arg)
    BY <1>3 DEF CreateTmp
  <2>2. /\ pc = "w_create" /\ pc' = "w_write" /\ UNCHANGED <<arg, mayHold>>
        /\ dir' = [dir EXCEPT !["tmp"] = i] /\ onDisk' = onDisk \cup {dir'}
        /\ file' = [file EXCEPT ![i] = [val |-> arg, len |-> Empty, synced |-> FALSE]]
    BY <1>3, <2>1 DEF CreateTmp, CreateFile
  <2>3. \A d \in onDisk : \A n \in Names : d[n] # i
    BY <2>1 DEF CreateFile, Free, InUse
  <2>4. TypeOK'
    BY <2>2
  <2>5. DiskIsOffered'
    BY <2>2, <2>3
  <2>6. StepsAgree'
    BY <2>2
  <2> QED BY <2>4, <2>5, <2>6
<1>4. CASE WriteAll
  BY <1>4 DEF WriteAll, WriteUpTo
<1>5. CASE SyncTmp
  <2>1. /\ dir.tmp \in Inodes /\ file' = [file EXCEPT ![dir.tmp].synced = TRUE]
        /\ UNCHANGED <<dir, onDisk, arg, mayHold>>
    BY <1>5 DEF SyncTmp, SyncFile
  <2>2. \A i \in Inodes : /\ file'[i].val = file[i].val
                          /\ Durable(file[i]) => Durable(file'[i])
    BY <2>1
  <2>3. TypeOK'
    <3>1. file \in [Inodes -> Contents]
      OBVIOUS
    <3>2. [file[dir.tmp] EXCEPT !.synced = TRUE] \in Contents
      BY ONLY <2>1, <3>1 DEF Contents
    <3>3. file' \in [Inodes -> Contents]
      BY ONLY <2>1, <3>1, <3>2
    <3> QED BY <1>5, <2>1, <3>3 DEF SyncTmp
  <2>4. DiskIsOffered'
    <3>1. \A e \in onDisk : \A n \in Names : e[n] # NoFile => e[n] \in Inodes
      OBVIOUS
    <3> HIDE DEF Durable
    <3>2. \A e \in onDisk : \A n \in Names :
             e[n] # NoFile => file'[e[n]].val \in mayHold \ {Absent}
      BY <2>2, <3>1
    <3>3. \A e \in onDisk :
             Absent \in mayHold \/ (e.vault # NoFile /\ Durable(file'[e.vault]))
      BY <2>2, <3>1
    <3> QED BY <2>1, <3>2, <3>3
  <2>5. StepsAgree'
    BY <1>5, <2>1, <2>2 DEF SyncTmp
  <2> QED BY <2>3, <2>4, <2>5
<1>6. CASE SyncBeforeRename
  BY <1>6 DEF SyncBeforeRename, SyncDir
<1>7. CASE Replace
  BY <1>7 DEF Replace, Rename
<1>8. CASE ConfirmWrite
  BY <1>8 DEF ConfirmWrite, SyncDir
<1> QED BY <1>1, <1>2, <1>3, <1>4, <1>5, <1>6, <1>7, <1>8 DEF Write

LEMMA RecoverKeeps == DiskInv /\ Recover => DiskInv'
<1> SUFFICES ASSUME DiskInv, Recover PROVE DiskInv'
  OBVIOUS
<1> USE DEF DiskInv, StepsAgree, SetDir, files
<1>1. CASE Start \/ NoRecoveryNeeded
  BY <1>1 DEF Start, NoRecoveryNeeded
<1>2. CASE DiscardStaleTmp
  BY <1>2 DEF DiscardStaleTmp, Unlink
<1>3. CASE StaleTmpRemoved \/ TmpPromoted
  BY <1>3 DEF StaleTmpRemoved, TmpPromoted, SyncDir
<1>4. CASE PromoteTmp
  BY <1>4 DEF PromoteTmp, Rename
<1> QED BY <1>1, <1>2, <1>3, <1>4 DEF Recover

LEMMA RemoveKeeps == DiskInv /\ (Remove \/ BeginRemove) => DiskInv'
<1> SUFFICES ASSUME DiskInv, Remove \/ BeginRemove PROVE DiskInv'
  OBVIOUS
<1> USE DEF DiskInv, StepsAgree, SetDir, files
<1>1. CASE BeginRemove
  BY <1>1 DEF BeginRemove
<1>2. CASE RemoveVault
  BY <1>2 DEF RemoveVault, Unlink
<1>3. CASE RemoveTmpToo
  BY <1>3 DEF RemoveTmpToo, Unlink
<1>4. CASE RemoveLoneTmp
  BY <1>4 DEF RemoveLoneTmp, Unlink
<1>5. CASE NotFound
  BY <1>5 DEF NotFound, SyncDir
<1>6. CASE ConfirmRemoved
  BY <1>6 DEF ConfirmRemoved, SyncDir
<1> QED BY <1>1, <1>2, <1>3, <1>4, <1>5, <1>6 DEF Remove

LEMMA FaultKeeps == DiskInv /\ Fault => DiskInv'
<1> SUFFICES ASSUME DiskInv, Fault PROVE DiskInv'
  OBVIOUS
<1> USE DEF DiskInv, StepsAgree, files
<1>1. CASE IoError
  BY <1>1 DEF IoError
<1>2. CASE ShortWrite
  BY <1>2 DEF ShortWrite, WriteUpTo
<1>3. CASE Kill
  <2>1. CASE pc = "w_write"
    <3>1. PICK len \in {Empty, Part} : WriteUpTo(dir.tmp, len)
      BY <1>3, <2>1 DEF Kill
    <3> QED BY <1>3, <2>1, <3>1 DEF Kill, WriteUpTo
  <2>2. CASE pc # "w_write"
    BY <1>3, <2>2 DEF Kill
  <2> QED BY <2>1, <2>2
<1>4. CASE PowerLoss
  <2>1. PICK kept \in [Inodes -> Empty..Full] :
           /\ \A i \in Inodes : file[i].synced => kept[i] = file[i].len
           /\ file' = [i \in Inodes |-> [file[i] EXCEPT !.len = kept[i], !.synced = TRUE]]
    BY <1>4 DEF PowerLoss, LosePower
  <2>2. PICK d \in onDisk : dir' = d /\ onDisk' = {d}
    BY <1>4 DEF PowerLoss, LosePower
  <2>3. ASSUME NEW i \in Inodes
        PROVE  /\ file'[i] \in Contents /\ file'[i].val = file[i].val
               /\ Durable(file[i]) => Durable(file'[i])
    <3>1. file'[i] = [file[i] EXCEPT !.len = kept[i], !.synced = TRUE]
      BY <2>1
    <3>2. file[i] \in Contents /\ kept[i] \in Empty..Full
      OBVIOUS
    <3>3. /\ file'[i].val = file[i].val /\ file'[i].len = kept[i]
          /\ file'[i].synced /\ file'[i] \in Contents
      BY <3>1, <3>2
    <3> QED BY <2>1, <3>3
  <2>4. file' \in [Inodes -> Contents]
    BY <2>1, <2>3
  <2>5. TypeOK' /\ StepsAgree'
    BY <1>4, <2>2, <2>4 DEF PowerLoss
  <2>6. DiskIsOffered'
    <3> HIDE DEF Durable
    <3> QED BY <1>4, <2>2, <2>3 DEF PowerLoss
  <2> QED BY <2>5, <2>6
<1> QED BY <1>1, <1>2, <1>3, <1>4 DEF Fault

LEMMA StepDisk == DiskInv /\ [Next]_vars => DiskInv'
<1>1. DiskInv /\ UNCHANGED vars => DiskInv'
  BY DEF DiskInv, StepsAgree, vars
<1> QED BY <1>1, WriteKeeps, RecoverKeeps, RemoveKeeps, FaultKeeps DEF Next

LEMMA DiskIsSafe == Spec => []DiskInv
  BY InitDisk, StepDisk, PTL DEF Spec

(* write_encrypted_vault_atomic and remove_encrypted_vault answer Ok only  *)
(* when a power loss can no longer find anything else.                     *)
THEOREM VaultIsSafe == Spec => []VaultInv
<1>1. DiskInv => VaultInv
  BY ConfirmedSurvives DEF VaultInv, DiskInv
<1> QED BY <1>1, DiskIsSafe, PTL

-----------------------------------------------------------------------------
(* The store as a durable cell.                                            *)

(* A step that confirms nothing and is asked for nothing leaves the cell   *)
(* with what was offered before.                                           *)
LEMMA DriftIsCell ==
  ASSUME DiskInv, DiskInv', UNCHANGED mayHold PROVE Cell!Next
<1>1. DiskInv' => (/\ Held \in Survivors("vault")
                   /\ Survivors("vault") \subseteq Cell!Allowed(mayHold))'
  BY DiskIsAllowed, PTL
<1> QED BY <1>1 DEF Cell!Next, Cell!Drift, Cell!Allowed

LEMMA ConfirmIsCell ==
  ASSUME DiskInv, DiskInv', NEW x \in mayHold, mayHold' = {x},
         x \in Values \cup {Absent}
  PROVE  Cell!Next
<1>1. DiskInv' => ConfirmedIsDurable'
  BY ConfirmedSurvives, PTL
<1>2. Held' = x /\ Survivors("vault")' = {x}
  BY <1>1 DEF ConfirmedIsDurable
<1> QED BY <1>2 DEF Cell!Next, Cell!Confirm

LEMMA StepIsCell ==
  ASSUME DiskInv, Next, DiskInv' PROVE Cell!Next
<1> USE DEF DiskInv, StepsAgree
<1>1. CASE \E v \in Values : BeginWrite(v)
  BY <1>1 DEF BeginWrite, files, Held, Loaded, Survivors, Cell!Next, Cell!Request
<1>2. CASE BeginRemove
  BY <1>2 DEF BeginRemove, files, Held, Loaded, Survivors, Cell!Next, Cell!Request
<1>3. CASE ConfirmWrite
  <2>1. arg \in mayHold /\ arg \in Values \cup {Absent} /\ mayHold' = {arg}
    BY <1>3 DEF ConfirmWrite
  <2> QED BY <2>1, ConfirmIsCell
<1>4. CASE ConfirmRemoved
  <2>1. Absent \in mayHold /\ mayHold' = {Absent}
    BY <1>4 DEF ConfirmRemoved
  <2> QED BY <2>1, ConfirmIsCell
<1>5. CASE RemoveStaleTmp \/ CreateTmp \/ WriteAll \/ SyncTmp \/ SyncBeforeRename
           \/ Replace \/ Recover \/ Fault
           \/ RemoveVault \/ RemoveTmpToo \/ RemoveLoneTmp \/ NotFound
  <2>1. UNCHANGED mayHold
    BY <1>5 DEF RemoveStaleTmp, CreateTmp, WriteAll, SyncTmp, SyncBeforeRename,
       Replace, Recover, Start, NoRecoveryNeeded, DiscardStaleTmp, StaleTmpRemoved,
       PromoteTmp, TmpPromoted, Fault, IoError, ShortWrite, Kill, PowerLoss,
       RemoveVault, RemoveTmpToo, RemoveLoneTmp, NotFound
  <2> QED BY <2>1, DriftIsCell
<1> QED BY <1>1, <1>2, <1>3, <1>4, <1>5 DEF Next, Write, Remove

(* DesktopAtomicVaultStore is an atomic cell: whatever fails or crashes,   *)
(* load_encrypted_vault yields the confirmed vault or one asked for since. *)
THEOREM VaultIsDurableCell == Spec => IsDurableCell
<1>1. Init => Cell!Init
  BY DEF Init, FilesInit, Held, Loaded, Survivors, Cell!Init
<1>2. DiskInv /\ DiskInv' /\ [Next]_vars
        => [Cell!Next]_<<Held, Survivors("vault"), mayHold>>
  <2>1. UNCHANGED vars => UNCHANGED <<Held, Survivors("vault"), mayHold>>
    BY DEF vars, Held, Loaded, Survivors
  <2> QED BY <2>1, StepIsCell
<1> QED BY <1>1, <1>2, DiskIsSafe, PTL DEF Spec, IsDurableCell, Cell!Spec, Cell!cell
=============================================================================
