--------------------------- MODULE CustodyProofs ----------------------------
(***************************************************************************)
(* Proofs about the native side of the passport, for any set of passports  *)
(* and authorizations and any number of async commands and overlapping     *)
(* calls.                                                                  *)
(*                                                                         *)
(* The main thread: CustodyInv is inductive.  It says, at every step of    *)
(* every command, that what is held belongs to the one passport of the     *)
(* vault; the properties that the runs check are conjuncts or consequences *)
(* of it.  One lemma per command shows that its actions preserve it.       *)
(*                                                                         *)
(* The async commands beside it implement the Requests of PassportCustody, *)
(* so that everything proved of custody holds beside them, and they never  *)
(* sign for another passport.                                              *)
(*                                                                         *)
(* The authorization store: a record that can be read is never replaced;   *)
(* while calls follow one another, none is stored torn, what was written   *)
(* survives a power loss, and no two are ever both confirmed.              *)
(***************************************************************************)
EXTENDS PassportRequests, AuthorizationStore, TLAPS

(***************************************************************************)
(* The passport commands                                                   *)
(***************************************************************************)

-----------------------------------------------------------------------------
(* The main thread.                                                        *)

USE DEF TypeOK, Maybe, Vaults, NoVault, Broken, Goto,
        CreateSteps, UnlockSteps, CeremonySteps, ClearSteps,
        store, pending, public, history

(* The empty custody of a new installation satisfies the invariant. *)
LEMMA InitCustody == Init => CustodyInv
BY DistinctMarkers
   DEF Init, CustodyInv, SessionIsOfVault, DescriptorIsOfVault,
       CreatedStaysUsable, CreateInv, FactorInv, ClearInv, AckInv

(* passport_create keeps it: what is drawn, sealed and written is always   *)
(* the passport that arg names, and there is no vault until the write.     *)
LEMMA CreateKeeps == ASSUME CustodyInv, Create PROVE CustodyInv'
<1> USE DistinctMarkers DEF CustodyInv, SessionIsOfVault, DescriptorIsOfVault, CreatedStaysUsable,
           CreateInv, FactorInv, ClearInv, AckInv
<1>1. CASE BeginCreate
  BY <1>1 DEF BeginCreate
<1>2. ASSUME NEW p \in Fresh, StageFactors(p) PROVE CustodyInv'
  BY <1>2 DEF StageFactors, Fresh
<1>3. CASE SealRoot
  BY <1>3 DEF SealRoot
<1>4. CASE SealDevice
  BY <1>4 DEF SealDevice
<1>5. CASE WriteNewVault
  <2> USE <1>5 DEF WriteNewVault
  <2>1. /\ arg \in Passports \ acked
        /\ pendRec = arg /\ pendOp = arg
        /\ sealed.root = arg /\ sealed.device = arg
    OBVIOUS
  <2>2. TypeOK' /\ vault'.pid = arg /\ tmp'.pid = None
    BY <2>1
  <2>3. SessionIsOfVault' /\ DescriptorIsOfVault' /\ CreatedStaysUsable'
    BY <2>1, <2>2
  <2>4. CreateInv' /\ FactorInv' /\ ClearInv'
    BY <2>1, <2>2
  <2>5. AckInv'
    BY <2>1, <2>2
  <2> QED BY <2>2, <2>3, <2>4, <2>5
<1>6. CASE CreateFails
  BY <1>6 DEF CreateFails, FailedWrite
<1> QED BY <1>1, <1>2, <1>3, <1>4, <1>5, <1>6 DEF Create

(* passport_unlock_operational keeps it, the V1 to V2 migration included: *)
(* the session opens only with the factor of the vault that is stored.     *)
LEMMA UnlockKeeps == ASSUME CustodyInv, Unlock PROVE CustodyInv'
<1> USE DistinctMarkers DEF CustodyInv, SessionIsOfVault, DescriptorIsOfVault, CreatedStaysUsable,
           CreateInv, FactorInv, ClearInv, AckInv
<1>1. CASE BeginUnlock
  BY <1>1 DEF BeginUnlock
<1>2. CASE TakeFactor
  BY <1>2 DEF TakeFactor
<1>3. CASE OpenSession
  BY <1>3 DEF OpenSession
<1>4. CASE UnlockRejected
  BY <1>4 DEF UnlockRejected
<1>5. CASE MigrateVault
  BY <1>5 DEF MigrateVault
<1>6. CASE MigrationFails
  BY <1>6 DEF MigrationFails, FailedWrite
<1>7. CASE RevokeAfterMigration
  BY <1>7 DEF RevokeAfterMigration
<1> QED BY <1>1, <1>2, <1>3, <1>4, <1>5, <1>6, <1>7 DEF Unlock

(* passport_lock keeps it. *)
LEMMA LockKeeps == ASSUME CustodyInv, Lock PROVE CustodyInv'
<1> USE DistinctMarkers DEF CustodyInv, SessionIsOfVault, DescriptorIsOfVault, CreatedStaysUsable,
           CreateInv, FactorInv, ClearInv, AckInv
<1>1. CASE BeginLock
  BY <1>1 DEF BeginLock
<1>2. CASE LockSession
  BY <1>2 DEF LockSession
<1> QED BY <1>1, <1>2 DEF Lock

(* passport_unlock_root keeps it: the factor that opens the vault is the   *)
(* one the descriptor derives from.                                        *)
LEMMA FinalizeKeeps == ASSUME CustodyInv, Finalize PROVE CustodyInv'
<1> USE DistinctMarkers DEF CustodyInv, SessionIsOfVault, DescriptorIsOfVault, CreatedStaysUsable,
           CreateInv, FactorInv, ClearInv, AckInv
<1>1. CASE BeginFinalize
  BY <1>1 DEF BeginFinalize
<1>2. CASE FinalizeIdentity
  BY <1>2 DEF FinalizeIdentity
<1> QED BY <1>1, <1>2 DEF Finalize

(* passport_recovery_ceremony keeps it: a factor that is taken is either   *)
(* acknowledged or restored, and it is that of the vault.                  *)
LEMMA CeremonyKeeps == ASSUME CustodyInv, Ceremony PROVE CustodyInv'
<1> USE DistinctMarkers DEF CustodyInv, SessionIsOfVault, DescriptorIsOfVault, CreatedStaysUsable,
           CreateInv, FactorInv, ClearInv, AckInv
<1>1. CASE BeginPendingCeremony
  BY <1>1 DEF BeginPendingCeremony
<1>2. CASE AlreadyAcknowledged
  BY <1>2 DEF AlreadyAcknowledged
<1>3. CASE ShowPendingPhrase
  BY <1>3 DEF ShowPendingPhrase
<1>4. CASE BeginStoredCeremony
  BY <1>4 DEF BeginStoredCeremony
<1>5. CASE ShowStoredPhrase
  BY <1>5 DEF ShowStoredPhrase
<1>6. CASE Acknowledge
  BY <1>6 DEF Acknowledge
<1>7. CASE CeremonyFails
  BY <1>7 DEF CeremonyFails
<1> QED BY <1>1, <1>2, <1>3, <1>4, <1>5, <1>6, <1>7 DEF Ceremony

(* passport_clear keeps it, wherever it stops. *)
LEMMA ClearKeeps == ASSUME CustodyInv, Clear PROVE CustodyInv'
<1> USE DistinctMarkers DEF CustodyInv, SessionIsOfVault, DescriptorIsOfVault, CreatedStaysUsable,
           CreateInv, FactorInv, ClearInv, AckInv
<1>1. CASE BeginClear
  BY <1>1 DEF BeginClear
<1>2. CASE ClearAuthorization
  BY <1>2 DEF ClearAuthorization
<1>3. CASE ClearDescriptor
  BY <1>3 DEF ClearDescriptor
<1>4. CASE ClearSession
  BY <1>4 DEF ClearSession
<1>5. CASE ClearPending
  BY <1>5 DEF ClearPending
<1>6. CASE ClearRootFactor
  BY <1>6 DEF ClearRootFactor
<1>7. CASE ClearDeviceFactor
  BY <1>7 DEF ClearDeviceFactor
<1>8. CASE ClearVault
  BY <1>8 DEF ClearVault
<1>9. CASE ClearTmp
  BY <1>9 DEF ClearTmp
<1>10. CASE ClearAcknowledgement
  BY <1>10 DEF ClearAcknowledgement
<1>11. CASE ClearStops
  BY <1>11 DEF ClearStops
<1> QED BY <1>1, <1>2, <1>3, <1>4, <1>5, <1>6, <1>7, <1>8, <1>9, <1>10, <1>11 DEF Clear

(* A prompt that comes to nothing, a crash at any step and a start after   *)
(* it keep it: what is in memory is gone, and the file that was cut short  *)
(* is of the passport that was being written.                              *)
LEMMA EnvironmentKeeps ==
  ASSUME CustodyInv, Dismiss \/ Crash \/ Start \/ Requests PROVE CustodyInv'
<1> USE DistinctMarkers DEF CustodyInv, SessionIsOfVault, DescriptorIsOfVault,
           CreatedStaysUsable, CreateInv, FactorInv, ClearInv, AckInv
<1>1. CASE Dismiss
  BY <1>1 DEF Dismiss
<1>2. CASE Crash
  <2> USE <1>2 DEF Crash
  <2>1. \/ UNCHANGED store
        \/ main = "c_write" /\ FailedWrite([pid |-> arg, ver |-> 1])
        \/ main = "m_write" /\ vault.ver = 1
             /\ FailedWrite([pid |-> vault.pid, ver |-> 2])
    BY DEF BeingWritten
  <2>2. TypeOK'
    BY <2>1 DEF FailedWrite
  <2>3. SessionIsOfVault' /\ CreateInv' /\ FactorInv' /\ ClearInv'
    OBVIOUS
  <2>4. DescriptorIsOfVault' /\ CreatedStaysUsable'
    BY <2>1 DEF FailedWrite
  <2>5. AckInv'
    BY <2>1 DEF FailedWrite
  <2> QED BY <2>2, <2>3, <2>4, <2>5
<1>3. CASE Start
  <2> USE <1>3 DEF Start
  <2>1. TypeOK'
    OBVIOUS
  <2>2. SessionIsOfVault' /\ DescriptorIsOfVault' /\ CreatedStaysUsable'
    OBVIOUS
  <2>3. CreateInv' /\ FactorInv' /\ ClearInv'
    OBVIOUS
  <2>4. AckInv'
    OBVIOUS
  <2> QED BY <2>1, <2>2, <2>3, <2>4
<1>4. CASE Requests
  BY <1>4 DEF Requests
<1> QED BY <1>1, <1>2, <1>3, <1>4

(* Every step of the specification, a stuttering one included, keeps it. *)
LEMMA StepCustody == CustodyInv /\ [Next]_vars => CustodyInv'
<1> SUFFICES ASSUME CustodyInv, [Next]_vars PROVE CustodyInv'
  OBVIOUS
<1>1. CASE UNCHANGED vars
  BY <1>1 DEF vars, CustodyInv, SessionIsOfVault, DescriptorIsOfVault,
       CreatedStaysUsable, CreateInv, FactorInv, ClearInv, AckInv
<1>2. CASE Command
  BY <1>2, CreateKeeps, UnlockKeeps, LockKeeps, FinalizeKeeps, CeremonyKeeps,
     ClearKeeps DEF Command
<1>3. CASE Dismiss \/ Crash \/ Start \/ Requests
  BY <1>3, EnvironmentKeeps
<1> QED BY <1>1, <1>2, <1>3 DEF Next

(* At every step of every command, and after any crash, all that is in     *)
(* custody belongs to the passport in the vault.                           *)
THEOREM CustodyIsKept == Spec => []CustodyInv
<1> QED BY InitCustody, StepCustody, PTL DEF Spec

(* Every variable keeps to its set of values. *)
THEOREM CustodyTypes == Spec => []TypeOK
<1>1. CustodyInv => TypeOK
  BY DEF CustodyInv
<1> QED BY <1>1, CustodyIsKept, PTL

(* passport_operational_unlock_runtime.rs: an unlocked session holds the   *)
(* key of the vault that is stored, never of one that was cleared.         *)
THEOREM SessionSafety == Spec => []SessionIsOfVault
<1>1. CustodyInv => SessionIsOfVault
  BY DEF CustodyInv
<1> QED BY <1>1, CustodyIsKept, PTL

(* passport_vault_create_runtime.rs: no pending factor outlives the        *)
(* command that failed to store its vault.                                 *)
THEOREM PendingSafety == Spec => []PendingIsOfVault
<1>1. CustodyInv => PendingIsOfVault
  BY DEF CustodyInv, FactorInv, PendingIsOfVault
<1> QED BY <1>1, CustodyIsKept, PTL

(* passport_identity_finalization_runtime.rs: the public descriptor is     *)
(* that of the stored vault.                                               *)
THEOREM DescriptorSafety == Spec => []DescriptorIsOfVault
<1>1. CustodyInv => DescriptorIsOfVault
  BY DEF CustodyInv
<1> QED BY <1>1, CustodyIsKept, PTL

(* passport_create: a passport whose creation was confirmed stays whole    *)
(* until a clear begins, whatever fails or crashes.                        *)
THEOREM CreatedSafety == Spec => []CreatedStaysUsable
<1>1. CustodyInv => CreatedStaysUsable
  BY DEF CustodyInv
<1> QED BY <1>1, CustodyIsKept, PTL

(* passport_recovery_phrase_runtime.rs: a phrase that was acknowledged is  *)
(* not shown again.  The marker of an acknowledged phrase is there as long *)
(* as its vault is (AckInv), and both ways of showing look for it.         *)
THEOREM PhraseSafety == Spec => PhraseShownOnce
<1>1. CustodyInv /\ [Next]_vars =>
        [ShowPendingPhrase \/ ShowStoredPhrase => arg \notin acked]_vars
  BY DistinctMarkers
     DEF CustodyInv, FactorInv, AckInv, ShowPendingPhrase, ShowStoredPhrase
<1> QED BY <1>1, CustodyIsKept, PTL DEF Spec, PhraseShownOnce

(* passport_clear: the vault is removed only once both keychain factors    *)
(* are gone, so that a clear that stops can be repeated.                   *)
THEOREM ClearOrder == Spec => VaultGoesLast
<1>1. ASSUME CustodyInv, [Next]_vars, vault # NoVault, vault' = NoVault
      PROVE  sealed.root = None /\ sealed.device = None
  <2> USE <1>1, DistinctMarkers
  <2>1. CASE ClearVault
    BY <2>1 DEF ClearVault, CustodyInv, ClearInv
  <2>2. CASE Clear /\ ~ClearVault
    BY <2>2 DEF Clear, BeginClear, ClearAuthorization, ClearDescriptor,
         ClearSession, ClearPending, ClearRootFactor, ClearDeviceFactor,
         ClearTmp, ClearAcknowledgement, ClearStops
  <2>3. CASE Create
    BY <2>3 DEF Create, BeginCreate, StageFactors, SealRoot, SealDevice,
         WriteNewVault, CreateFails, CustodyInv, CreateInv
  <2>4. CASE Unlock
    BY <2>4 DEF Unlock, BeginUnlock, TakeFactor, OpenSession, UnlockRejected,
         MigrateVault, MigrationFails, FailedWrite, RevokeAfterMigration
  <2>5. CASE Lock \/ Finalize
    BY <2>5 DEF Lock, BeginLock, LockSession, Finalize, BeginFinalize,
         FinalizeIdentity
  <2>6. CASE Ceremony
    BY <2>6 DEF Ceremony, BeginPendingCeremony, AlreadyAcknowledged,
         ShowPendingPhrase, BeginStoredCeremony, ShowStoredPhrase,
         Acknowledge, CeremonyFails
  <2>7. CASE Dismiss \/ Crash \/ Start \/ Requests
    BY <2>7 DEF Dismiss, Crash, BeingWritten, FailedWrite, Start, Requests
  <2>8. CASE UNCHANGED vars
    BY <2>8 DEF vars
  <2> QED BY <2>1, <2>2, <2>3, <2>4, <2>5, <2>6, <2>7, <2>8 DEF Next, Command
<1>2. CustodyInv /\ [Next]_vars =>
        [vault # NoVault /\ vault' = NoVault =>
           sealed.root = None /\ sealed.device = None]_vars
  BY <1>1
<1> QED BY <1>2, CustodyIsKept, PTL DEF Spec, VaultGoesLast

(* passport_clear: when it answers that the passport is cleared, nothing   *)
(* of it is left, in memory or stored.                                     *)
THEOREM ClearIsComplete == Spec => ClearedIsEmpty
<1>1. ASSUME CustodyInv, ClearAcknowledgement
      PROVE  /\ vault' = NoVault /\ tmp' = NoVault
             /\ sealed'.root = None /\ sealed'.device = None
             /\ ack' = None /\ descriptor' = None
             /\ vmk' = None /\ pendRec' = None /\ pendOp' = None
  BY <1>1 DEF ClearAcknowledgement, CustodyInv, ClearInv
<1>2. CustodyInv /\ [Next]_vars =>
        [ClearAcknowledgement =>
           /\ vault' = NoVault /\ tmp' = NoVault
           /\ sealed'.root = None /\ sealed'.device = None
           /\ ack' = None /\ descriptor' = None
           /\ vmk' = None /\ pendRec' = None /\ pendOp' = None]_vars
  BY <1>1
<1> QED BY <1>2, CustodyIsKept, PTL DEF Spec, ClearedIsEmpty

-----------------------------------------------------------------------------
(* The async commands beside it.                                           *)

(* A command about to sign for a capability was authorized for the very    *)
(* passport and device that it read.                                       *)
SignerInv == \A j \in Jobs : step[j] = "i_sign" => root[j] = device[j]

RequestsInv == CustodyInv /\ JobsTypeOK /\ SignerInv

USE DEF TypeOK, Maybe, store, pending, public, history, Kept, Move, End

(* One step of an async command leaves all of custody alone but the        *)
(* capability and the authorization, and gives those a passport or None.   *)
LEMMA RequestIsRequests ==
  ASSUME RequestsInv, NEW j \in Jobs, Request(j) PROVE Requests
<1> USE DEF RequestsInv, JobsTypeOK, CustodyInv
<1>1. CASE StoreCapability(j)
  BY <1>1 DEF StoreCapability, Requests
<1>2. CASE PersistAuthorization(j)
  BY <1>2 DEF PersistAuthorization, Requests
<1>3. CASE Begin(j) \/ BeginRegister(j) \/ ReadDescriptor(j) \/ ReadDevice(j)
  BY <1>3 DEF Begin, BeginRegister, ReadDescriptor, ReadDevice, Requests
<1>4. CASE LoadAuthorization(j) \/ SignSession(j) \/ BeginClaim(j) \/ SignClaim(j)
  BY <1>4 DEF LoadAuthorization, SignSession, BeginClaim, SignClaim, Requests
<1>5. CASE ReuseAuthorization(j) \/ NoAuthorization(j) \/ LoadVault(j)
  BY <1>5 DEF ReuseAuthorization, NoAuthorization, LoadVault, Requests
<1>6. CASE SignAuthorization(j) \/ RecheckRoot(j) \/ RecheckDevice(j)
  BY <1>6 DEF SignAuthorization, RecheckRoot, RecheckDevice, Requests
<1>7. CASE SignRegistration(j) \/ Fails(j)
  BY <1>7 DEF SignRegistration, Fails, Requests
<1> QED BY <1>1, <1>2, <1>3, <1>4, <1>5, <1>6, <1>7 DEF Request

(* Every step of the whole is a step of custody, or leaves it alone. *)
LEMMA StepIsCustody == RequestsInv /\ [RequestsNext]_all => [Next]_vars
<1> SUFFICES ASSUME RequestsInv, [RequestsNext]_all PROVE [Next]_vars
  OBVIOUS
<1>1. CASE MainThread \/ ProcessDies
  BY <1>1 DEF MainThread, ProcessDies, Next
<1>2. CASE Expire
  BY <1>2 DEF Expire, Next, Requests, RequestsInv, CustodyInv
<1>3. CASE \E j \in Jobs : Request(j)
  BY <1>3, RequestIsRequests DEF Next
<1>4. CASE UNCHANGED all
  BY <1>4 DEF all, vars
<1> QED BY <1>1, <1>2, <1>3, <1>4 DEF RequestsNext

(* A step of one command keeps every command's reading well formed, and    *)
(* only LoadAuthorization, which compares the two, leads to signing.       *)
LEMMA RequestKeeps ==
  ASSUME RequestsInv, NEW k \in Jobs, Request(k) PROVE JobsTypeOK' /\ SignerInv'
<1> USE DEF RequestsInv, JobsTypeOK, HasRoot, HasDevice, SignerInv, Steps, CustodyInv
<1>1. CASE Begin(k)
  BY <1>1 DEF Begin
<1>2. CASE BeginRegister(k)
  BY <1>2 DEF BeginRegister
<1>3. CASE ReadDescriptor(k)
  BY <1>3 DEF ReadDescriptor, AfterRoot
<1>4. CASE ReadDevice(k)
  BY <1>4 DEF ReadDevice, AfterDevice, DeviceKey
<1>5. CASE LoadAuthorization(k)
  BY <1>5 DEF LoadAuthorization
<1>6. CASE SignSession(k)
  BY <1>6 DEF SignSession
<1>7. CASE BeginClaim(k)
  BY <1>7 DEF BeginClaim
<1>8. CASE NoAuthorization(k) \/ LoadVault(k)
  BY <1>8 DEF NoAuthorization, LoadVault
<1>9. CASE SignAuthorization(k) \/ RecheckRoot(k) \/ RecheckDevice(k)
  BY <1>9 DEF SignAuthorization, RecheckRoot, RecheckDevice
<1>10. CASE \E from \in Steps : End(k, from)
  BY <1>10
<1>11. CASE StoreCapability(k) \/ SignClaim(k) \/ ReuseAuthorization(k)
            \/ PersistAuthorization(k) \/ SignRegistration(k) \/ Fails(k)
  BY <1>10, <1>11 DEF StoreCapability, SignClaim, ReuseAuthorization,
     PersistAuthorization, SignRegistration, Fails
<1> QED BY <1>1, <1>2, <1>3, <1>4, <1>5, <1>6, <1>7, <1>8, <1>9, <1>11 DEF Request

(* The invariant of the whole is inductive. *)
LEMMA StepRequests == RequestsInv /\ [RequestsNext]_all => RequestsInv'
<1> SUFFICES ASSUME RequestsInv, [RequestsNext]_all PROVE RequestsInv'
  OBVIOUS
<1>1. CustodyInv'
  BY StepIsCustody, StepCustody DEF RequestsInv
<1>2. JobsTypeOK' /\ SignerInv'
  <2>1. CASE MainThread \/ Expire \/ UNCHANGED all
    BY <2>1 DEF MainThread, Expire, all, jobs, RequestsInv, JobsTypeOK, SignerInv
  <2>2. CASE ProcessDies
    BY <2>2 DEF ProcessDies, JobsTypeOK, HasRoot, HasDevice, Steps, SignerInv
  <2>3. CASE \E j \in Jobs : Request(j)
    BY <2>3, RequestKeeps
  <2> QED BY <2>1, <2>2, <2>3 DEF RequestsNext
<1> QED BY <1>1, <1>2 DEF RequestsInv

(* Custody stays consistent, and every command well formed, however the    *)
(* async commands overlap each other and the main thread.                  *)
THEOREM RequestsAreSafe == RequestsSpec => []RequestsInv
<1>1. RequestsInit => RequestsInv
  BY InitCustody DEF RequestsInit, JobsInit, RequestsInv, JobsTypeOK, HasRoot,
     HasDevice, Steps, SignerInv
<1> QED BY <1>1, StepRequests, PTL DEF RequestsSpec

(* The type invariant of the commands. *)
THEOREM JobsTypes == RequestsSpec => []JobsTypeOK
<1>1. RequestsInv => JobsTypeOK
  BY DEF RequestsInv
<1> QED BY <1>1, RequestsAreSafe, PTL

(* The async commands do to custody only what PassportCustody allows, so   *)
(* that its theorems hold of the whole.                                    *)
THEOREM RequestsImplementCustody == RequestsSpec => ImplementsCustody
<1>1. RequestsInit => Init
  BY DEF RequestsInit
<1> QED BY <1>1, StepIsCustody, RequestsAreSafe, PTL
        DEF RequestsSpec, ImplementsCustody, Spec

(* passport_device_session_signing_runtime.rs and passport_register_root_- *)
(* http_runtime.rs: whatever the main thread did during the awaits, a      *)
(* proof names the passport whose key signs it and whose vault is stored.  *)
THEOREM ProofsNameSigner == RequestsSpec => ProofNamesSigner
<1>1. ASSUME RequestsInv, NEW j \in Jobs, SignSession(j)
      PROVE  root[j] = vmk /\ vault.pid = vmk
  BY <1>1 DEF SignSession, DeviceKey, RequestsInv, SignerInv
<1>2. ASSUME RequestsInv, NEW j \in Jobs, SignRegistration(j)
      PROVE  descriptor \in {None, root[j]}
  BY <1>2 DEF SignRegistration, RequestsInv, CustodyInv, DescriptorIsOfVault
<1>3. RequestsInv /\ [RequestsNext]_all =>
        [\A j \in Jobs : /\ SignSession(j) => root[j] = vmk /\ vault.pid = vmk
                         /\ SignRegistration(j) => descriptor \in {None, root[j]}]_all
  BY <1>1, <1>2
<1> QED BY <1>3, RequestsAreSafe, PTL DEF RequestsSpec, ProofNamesSigner

(***************************************************************************)
(* The device authorization store                                          *)
(***************************************************************************)

USE AuthorizationAssumption
USE DEF AuthorizationTypeOK, FilesTypeOK, Dirs, Contents, Names, PersistSteps, Empty, Part, Full,
        FilesOfCalls, Advance, Return, calls, files, SetDir, Unlink

\* AuthorizationInv, less what follows from the rest.
CallsInv == AuthorizationTypeOK /\ FilesOfCalls /\ (alone => CallsInTurn)

LEMMA InitCalls == AuthorizationInit => CallsInv
<1> SUFFICES ASSUME AuthorizationInit PROVE CallsInv
  OBVIOUS
<1> USE DEF AuthorizationInit, FilesInit
<1>1. /\ dir \in Dirs(Names) /\ onDisk = {dir} /\ file \in [Inodes -> Contents]
      /\ pc \in [Persisters -> PersistSteps \cup {"idle"}]
      /\ mine \in [Persisters -> Values \cup {Absent}]
      /\ fd \in [Persisters -> Inodes \cup {NoFile}]
  OBVIOUS
<1>2. AuthorizationTypeOK /\ FilesOfCalls
  BY <1>1
<1>3. CallsInTurn
  BY DEF CallsInTurn, OneAtATime, OnlyWhole, AnsweredIsStored, OnCourse
<1> QED BY <1>2, <1>3 DEF CallsInv

-----------------------------------------------------------------------------
(* However calls overlap.                                                  *)

\* What the steps of one call keep.
FilesKept == AuthorizationTypeOK /\ FilesOfCalls

LEMMA PersistKeeps ==
  ASSUME FilesKept, NEW p \in Persisters, Persist(p), alone' \in BOOLEAN PROVE FilesKept'
<1> USE DEF FilesKept
<1>1. CASE NothingStored(p) \/ PublishLost(p) \/ Reload(p)
  BY <1>1 DEF NothingStored, PublishLost, Reload
<1>2. CASE SameStored(p)
  BY <1>2 DEF SameStored
<1>3. CASE OtherStored(p) \/ CreateRefused(p) \/ PublishFailed(p) \/ ReloadFailed(p)
  BY <1>3 DEF OtherStored, CreateRefused, PublishFailed, ReloadFailed
<1>4. CASE RemoveStaleTmp(p)
  BY <1>4 DEF RemoveStaleTmp
<1>5. CASE CreateTmp(p)
  BY <1>5 DEF CreateTmp, CreateFile, Unused, Free, InUse
<1>6. CASE WriteAll(p)
  BY <1>6 DEF WriteAll, WriteUpTo
<1>7. CASE SyncTmp(p)
  <2>1. /\ pc[p] = "sync" /\ fd[p] \in Inodes /\ UNCHANGED <<dir, onDisk>>
        /\ file' = [file EXCEPT ![fd[p]].synced = TRUE]
    BY <1>7 DEF SyncTmp, SyncFile
  <2>2. /\ file' \in [Inodes -> Contents]
        /\ \A i \in Inodes : file'[i].len = file[i].len
    <3>1. file \in [Inodes -> Contents]
      OBVIOUS
    <3>2. [file[fd[p]] EXCEPT !.synced = TRUE] \in Contents
      BY ONLY <2>1, <3>1 DEF Contents
    <3>3. [file[fd[p]] EXCEPT !.synced = TRUE].len = file[fd[p]].len
      BY ONLY <2>1, <3>1 DEF Contents
    <3> QED BY ONLY <2>1, <3>1, <3>2, <3>3
  <2>3. /\ pc' = [pc EXCEPT ![p] = "publish"] /\ fd' = [fd EXCEPT ![p] = NoFile]
        /\ UNCHANGED <<clearing, removed, mine, answers, late>>
    BY <1>7 DEF SyncTmp
  <2>4. AuthorizationTypeOK'
    BY <2>1, <2>2, <2>3
  <2>5. FilesOfCalls'
    BY <2>1, <2>2, <2>3
  <2> QED BY <2>4, <2>5
<1>8. CASE Publish(p)
  BY <1>8 DEF Publish, Link
<1>9. CASE RemoveTmpSame(p)
  BY <1>9 DEF RemoveTmpSame
<1>10. CASE RemoveTmpOther(p)
  BY <1>10 DEF RemoveTmpOther
<1>11. CASE SyncParent(p)
  BY <1>11 DEF SyncParent, SyncDir
<1>12. CASE RemoveTmpWritten(p)
  BY <1>12 DEF RemoveTmpWritten
<1> QED BY <1>1, <1>2, <1>3, <1>4, <1>5, <1>6, <1>7, <1>8, <1>9, <1>10, <1>11, <1>12
        DEF Persist

LEMMA CallKeeps ==
  ASSUME FilesKept, NEW p \in Persisters, NEW a \in Values, Call(p, a), alone' \in BOOLEAN
  PROVE  FilesKept'
  BY DEF FilesKept, Call

LEMMA ClearKeepsFiles ==
  ASSUME FilesKept, BeginClearAuth \/ ClearAuth, alone' \in BOOLEAN PROVE FilesKept'
<1> USE DEF FilesKept
<1>1. CASE BeginClearAuth
  BY <1>1 DEF BeginClearAuth
<1>2. CASE RemoveAuth
  BY <1>2 DEF RemoveAuth, Active
<1>3. CASE RemoveTmp
  BY <1>3 DEF RemoveTmp
<1>4. CASE SyncCleared
  BY <1>4 DEF SyncCleared, SyncDir
<1> QED BY <1>1, <1>2, <1>3, <1>4 DEF ClearAuth

(* A power loss cuts files short, but none that was synced, and changes    *)
(* what none carries.                                                      *)
LEMMA PowerKeepsFiles ==
  ASSUME FilesKept, LosePower
  PROVE  /\ file' \in [Inodes -> Contents]
         /\ \A i \in Inodes : /\ file'[i].val = file[i].val
                              /\ Durable(file[i]) => Durable(file'[i])
<1> USE DEF FilesKept
<1>1. PICK kept \in [Inodes -> Empty..Full] :
         /\ \A i \in Inodes : /\ kept[i] <= file[i].len
                              /\ file[i].synced => kept[i] = file[i].len
         /\ file' = [i \in Inodes |-> [file[i] EXCEPT !.len = kept[i], !.synced = TRUE]]
  BY DEF LosePower
<1>2. ASSUME NEW i \in Inodes
      PROVE  /\ file'[i] \in Contents /\ file'[i].val = file[i].val
             /\ Durable(file[i]) => Durable(file'[i])
  <2>1. file'[i] = [file[i] EXCEPT !.len = kept[i], !.synced = TRUE]
    BY <1>1
  <2>2. file[i] \in Contents /\ kept[i] \in Empty..Full
    OBVIOUS
  <2>3. /\ file'[i].val = file[i].val /\ file'[i].len = kept[i]
        /\ file'[i].synced /\ file'[i] \in Contents
    BY <2>1, <2>2
  <2> QED BY <1>1, <2>3 DEF Durable
<1> QED BY <1>1, <1>2

LEMMA FaultKeeps ==
  ASSUME FilesKept, Fault, alone' \in BOOLEAN PROVE FilesKept'
<1> USE DEF FilesKept
<1>1. ASSUME NEW p \in Persisters, IoError(p) PROVE FilesKept'
  BY <1>1 DEF IoError
<1>2. ASSUME NEW p \in Persisters, ShortWrite(p) PROVE FilesKept'
  <2>1. /\ pc[p] = "write" /\ fd[p] \in Inodes /\ UNCHANGED <<dir, onDisk>>
        /\ file' = [file EXCEPT ![fd[p]].len = 1]
    BY <1>2 DEF ShortWrite, WriteUpTo
  <2>2. /\ file' \in [Inodes -> Contents]
        /\ \A i \in Inodes : i # fd[p] => file'[i] = file[i]
    BY <2>1
  <2>3. /\ pc' = [pc EXCEPT ![p] = "idle"] /\ mine' = [mine EXCEPT ![p] = Absent]
        /\ fd' = [fd EXCEPT ![p] = NoFile] /\ UNCHANGED <<clearing, removed>>
        /\ answers' = answers /\ late' \subseteq late
    BY <1>2 DEF ShortWrite
  <2>4. AuthorizationTypeOK'
    BY <2>1, <2>2, <2>3
  <2>5. FilesOfCalls'
    BY <2>1, <2>2, <2>3
  <2> QED BY <2>4, <2>5
<1>3. CASE ClearError
  BY <1>3 DEF ClearError
<1>4. CASE Kill
  BY <1>4 DEF Kill, Restart
<1>5. CASE PowerLoss
  <2>1. dir' \in onDisk' /\ dir' \in Dirs(Names) /\ onDisk' \subseteq Dirs(Names)
    BY <1>5 DEF PowerLoss, LosePower
  <2>2. file' \in [Inodes -> Contents]
    BY <1>5, PowerKeepsFiles DEF PowerLoss
  <2>3. answers' \in SUBSET ({"Written", "AlreadyPresent"} \X Values)
    BY <1>5 DEF PowerLoss
  <2> QED BY <1>5, <2>1, <2>2, <2>3 DEF PowerLoss, Restart
<1> QED BY <1>1, <1>2, <1>3, <1>4, <1>5 DEF Fault

LEMMA NextKeeps == FilesKept /\ AuthorizationNext => FilesKept'
<1>1. AuthorizationNext => alone' \in BOOLEAN
  BY DEF AuthorizationNext, Watch
<1> QED BY <1>1, PersistKeeps, CallKeeps, ClearKeepsFiles, FaultKeeps DEF AuthorizationNext

(* persist_verified_once publishes by hard_link, which never replaces, and *)
(* writes only files no other call and no published name has: a record     *)
(* that can be read stays, but for clear and, not yet durable, the power.  *)
THEOREM RecordsStay == AuthorizationSpec => WholeRecordStays
<1>1. ASSUME FilesKept, AuthorizationNext, Record \in Values PROVE Record' = Record \/ RemoveAuth \/ PowerLoss
  <2> USE DEF FilesKept, Record, Loaded, Reads
  <2>1. dir.auth \in Inodes /\ file[dir.auth].len = Full
    BY <1>1
  <2>2. CASE UNCHANGED <<dir, file>>
    BY <2>2
  <2>3. CASE Unlink("tmp")
    BY <2>1, <2>3
  <2>4. ASSUME NEW i \in Inodes, NEW f, i # dir.auth, dir'.auth = dir.auth,
               file' = [file EXCEPT ![i] = f]
        PROVE  Record' = Record
    BY <2>1, <2>4
  <2>5. ASSUME NEW p \in Persisters, CreateTmp(p) PROVE Record' = Record
    <3>1. PICK i \in Inodes : i \in Free /\ CreateFile("tmp", i, mine[p])
      BY <2>5 DEF CreateTmp, CreateFile, Unused, Free
    <3>2. dir \in onDisk /\ "auth" \in DOMAIN dir
      BY <1>1
    <3>3. i # dir.auth
      BY ONLY <3>1, <3>2 DEF Free, InUse
    <3>4. /\ dir' = [dir EXCEPT !["tmp"] = i]
          /\ file' = [file EXCEPT ![i] = [val |-> mine[p], len |-> 0, synced |-> FALSE]]
      BY <3>1 DEF CreateFile
    <3>5. dir'.auth = dir.auth
      BY <3>4
    <3> QED BY <2>4, <3>3, <3>4, <3>5
  <2>6. ASSUME NEW p \in Persisters, WriteAll(p) \/ ShortWrite(p) PROVE Record' = Record
    <3>1. pc[p] = "write" /\ dir' = dir
      BY <2>6 DEF WriteAll, ShortWrite, WriteUpTo
    <3>2. fd[p] \in Inodes /\ file[fd[p]].len = 0
      BY <1>1, <3>1
    <3>3. fd[p] # dir.auth
      BY ONLY <2>1, <3>2 DEF Full
    <3>4. PICK len : file' = [file EXCEPT ![fd[p]].len = len]
      BY <2>6 DEF WriteAll, ShortWrite, WriteUpTo
    <3> QED BY <2>4, <3>1, <3>2, <3>3, <3>4
  <2>7. ASSUME NEW p \in Persisters, SyncTmp(p) PROVE Record' = Record
    <3>1. file'[dir.auth].len = Full /\ file'[dir.auth].val = file[dir.auth].val
      BY <2>1, <2>7 DEF SyncTmp, SyncFile
    <3> QED BY <2>1, <2>7, <3>1 DEF SyncTmp, SyncFile
  <2>8. ASSUME NEW p \in Persisters, Publish(p) PROVE FALSE
    BY <2>1, <2>8 DEF Publish
  <2>9. ASSUME NEW p \in Persisters, Persist(p) PROVE Record' = Record
    <3>1. ASSUME NothingStored(p) \/ SameStored(p) \/ OtherStored(p) \/ CreateRefused(p)
                 \/ PublishLost(p) \/ PublishFailed(p) \/ Reload(p) \/ ReloadFailed(p)
                 \/ SyncParent(p)
          PROVE  Record' = Record
      BY <2>2, <3>1 DEF NothingStored, SameStored, OtherStored, CreateRefused, PublishLost,
         PublishFailed, Reload, ReloadFailed, SyncParent, SyncDir
    <3>2. ASSUME RemoveStaleTmp(p) \/ RemoveTmpSame(p) \/ RemoveTmpOther(p)
                 \/ RemoveTmpWritten(p)
          PROVE  Record' = Record
      <4>1. Unlink("tmp")
        BY <3>2 DEF RemoveStaleTmp, RemoveTmpSame, RemoveTmpOther, RemoveTmpWritten
      <4> QED BY <2>3, <4>1
    <3>3. ASSUME CreateTmp(p) \/ WriteAll(p) \/ SyncTmp(p) \/ Publish(p)
          PROVE  Record' = Record
      BY <2>5, <2>6, <2>7, <2>8, <3>3
    <3> QED BY <2>9, <3>1, <3>2, <3>3 DEF Persist
  <2>10. CASE BeginClearAuth \/ ClearAuth
    BY <2>2, <2>3, <2>10 DEF BeginClearAuth, ClearAuth, RemoveTmp, SyncCleared, SyncDir
  <2>11. CASE Fault
    BY <2>2, <2>3, <2>6, <2>11 DEF Fault, ClearError, Kill, IoError
  <2>12. CASE \E p \in Persisters, a \in Values : Call(p, a)
    BY <2>2, <2>12 DEF Call
  <2> QED BY <1>1, <2>9, <2>10, <2>11, <2>12 DEF AuthorizationNext
<1>2. AuthorizationInit => FilesKept
  BY InitCalls DEF CallsInv, FilesKept
<1>3. FilesKept /\ UNCHANGED authorizationVars => FilesKept'
  BY DEF FilesKept, authorizationVars
<1>4. FilesKept /\ [AuthorizationNext]_authorizationVars
        => [(Record \in Values) /\ Record' # Record => RemoveAuth \/ PowerLoss]_authorizationVars
  BY <1>1
<1> QED BY <1>2, <1>3, <1>4, NextKeeps, PTL DEF AuthorizationSpec, WholeRecordStays

-----------------------------------------------------------------------------
(* While calls follow one another.                                         *)

Alone == FilesKept /\ CallsInTurn

\* What a name reads as, spelled out.
LEMMA RecordIs ==
  ASSUME FilesKept
  PROVE  \A a \in Values : Record = a <=> /\ dir.auth # NoFile
                                          /\ file[dir.auth].len = Full
                                          /\ file[dir.auth].val = a
  BY DEF FilesKept, Record, Loaded, Reads

\* A step that leaves the published names and their files alone.
LEMMA PublishedStay ==
  ASSUME Alone, dir'.auth = dir.auth,
         \A d \in onDisk' : \E e \in onDisk : d.auth = e.auth,
         \A d \in onDisk : d.auth # NoFile => file'[d.auth] = file[d.auth]
  PROVE  /\ OnlyWhole' /\ Record' = Record
         /\ \A a \in Values : IsOnDisk(a) => IsOnDisk(a)'
         /\ answers' \subseteq answers => AnsweredIsStored'
<1> USE DEF Alone, FilesKept, CallsInTurn
<1>1. OnlyWhole'
  BY DEF OnlyWhole, Durable
<1>2. Record' = Record
  BY DEF Record, Loaded, Reads
<1>3. \A a \in Values : IsOnDisk(a) => IsOnDisk(a)'
  BY DEF IsOnDisk
<1>4. ASSUME answers' \subseteq answers PROVE AnsweredIsStored'
  <2> SUFFICES ASSUME NEW x \in answers'
               PROVE  Record' = x[2] /\ (x[1] = "Written" => IsOnDisk(x[2])')
    BY DEF AnsweredIsStored
  <2>1. x \in answers /\ x[2] \in Values
    BY <1>4
  <2> QED BY <1>2, <1>3, <2>1 DEF AnsweredIsStored
<1> QED BY <1>1, <1>2, <1>3, <1>4

\* While one call runs, the others are idle.
LEMMA OthersWait ==
  ASSUME Alone, NEW p \in Persisters, NEW to \in PersistSteps \cup {"idle"},
         pc[p] # "idle", pc' = [pc EXCEPT ![p] = to]
  PROVE  OneAtATime' /\ \A q \in Persisters \ {p} : OnCourse(q)'
  BY DEF Alone, FilesKept, CallsInTurn, OneAtATime, OnCourse

\* An answer about the record stored.
LEMMA AnswerIsStored ==
  ASSUME Alone, NEW p \in Persisters, NEW kind \in {"Written", "AlreadyPresent"},
         mine[p] \in Values,
         answers' = IF p \in late THEN answers ELSE answers \cup {<<kind, mine[p]>>},
         Record' = Record, \A a \in Values : IsOnDisk(a) => IsOnDisk(a)',
         p \notin late => Record = mine[p] /\ (kind = "Written" => IsOnDisk(mine[p]))
  PROVE  AnsweredIsStored'
<1> USE DEF Alone, FilesKept, CallsInTurn
<1> SUFFICES ASSUME NEW x \in answers'
             PROVE  Record' = x[2] /\ (x[1] = "Written" => IsOnDisk(x[2])')
  BY DEF AnsweredIsStored
<1>1. CASE x \in answers
  <2>1. x[2] \in Values
    BY <1>1
  <2> QED BY <1>1, <2>1 DEF AnsweredIsStored
<1>2. CASE x \notin answers
  <2>1. p \notin late /\ x = <<kind, mine[p]>>
    BY <1>2
  <2> QED BY <2>1
<1> QED BY <1>1, <1>2

LEMMA PersistInTurn ==
  ASSUME Alone, NEW p \in Persisters, Persist(p) PROVE CallsInTurn'
<1> USE DEF Alone, FilesKept
<1>1. OnlyWhole /\ AnsweredIsStored /\ OnCourse(p)
  BY DEF CallsInTurn
<1>2. OneAtATime' /\ \A q \in Persisters \ {p} : OnCourse(q)'
  <2>1. PICK to \in PersistSteps \cup {"idle"} : pc[p] # "idle" /\ pc' = [pc EXCEPT ![p] = to]
    BY DEF Persist, NothingStored, SameStored, OtherStored, RemoveStaleTmp, CreateTmp,
       CreateRefused, WriteAll, SyncTmp, Publish, PublishLost, PublishFailed, Reload,
       ReloadFailed, RemoveTmpSame, RemoveTmpOther, SyncParent, RemoveTmpWritten
  <2> QED BY <2>1, OthersWait
<1>3. SUFFICES OnlyWhole' /\ AnsweredIsStored' /\ OnCourse(p)'
  BY <1>2 DEF CallsInTurn
<1>4. ASSUME UNCHANGED files \/ Unlink("tmp")
      PROVE  /\ OnlyWhole' /\ Record' = Record
             /\ \A a \in Values : IsOnDisk(a) => IsOnDisk(a)'
             /\ answers' \subseteq answers => AnsweredIsStored'
  <2>1. /\ dir'.auth = dir.auth /\ file' = file
        /\ \A d \in onDisk' : \E e \in onDisk : d.auth = e.auth
    BY <1>4
  <2> QED BY <2>1, PublishedStay
<1>6. CASE NothingStored(p) \/ PublishLost(p)
  BY <1>4, <1>6 DEF NothingStored, PublishLost, OnCourse
<1>7. CASE Reload(p)
  BY <1>4, <1>7 DEF Reload, OnCourse
<1>8. CASE OtherStored(p) \/ CreateRefused(p) \/ PublishFailed(p) \/ ReloadFailed(p)
  BY <1>4, <1>8 DEF OtherStored, CreateRefused, PublishFailed, ReloadFailed, OnCourse
<1>9. CASE SameStored(p)
  BY <1>4, <1>9, AnswerIsStored DEF SameStored, OnCourse
<1>10. CASE RemoveStaleTmp(p)
  BY <1>4, <1>10 DEF RemoveStaleTmp, OnCourse
<1>11. CASE RemoveTmpSame(p)
  <2>1. pc[p] = "rm_same" /\ pc'[p] = "idle" /\ Unlink("tmp")
    BY <1>11 DEF RemoveTmpSame
  <2>2. mine[p] \in Values /\ (p \notin late => Record = mine[p])
    BY <1>1, <2>1 DEF OnCourse
  <2>3. answers' = IF p \in late THEN answers
                   ELSE answers \cup {<<"AlreadyPresent", mine[p]>>}
    BY <1>11 DEF RemoveTmpSame
  <2> QED BY <1>4, <2>1, <2>2, <2>3, AnswerIsStored DEF OnCourse
<1>12. CASE RemoveTmpOther(p)
  BY <1>4, <1>12 DEF RemoveTmpOther, OnCourse
<1>13. CASE RemoveTmpWritten(p)
  <2>1. pc[p] = "rm_written" /\ pc'[p] = "idle" /\ Unlink("tmp")
    BY <1>13 DEF RemoveTmpWritten
  <2>2. mine[p] \in Values /\ (p \notin late => Record = mine[p] /\ IsOnDisk(mine[p]))
    BY <1>1, <2>1 DEF OnCourse
  <2>3. answers' = IF p \in late THEN answers
                   ELSE answers \cup {<<"Written", mine[p]>>}
    BY <1>13 DEF RemoveTmpWritten
  <2> QED BY <1>4, <2>1, <2>2, <2>3, AnswerIsStored DEF OnCourse
<1>14. CASE CreateTmp(p)
  <2>1. PICK i \in Inodes : CreateFile("tmp", i, mine[p]) /\ fd' = [fd EXCEPT ![p] = i]
    BY <1>14 DEF CreateTmp, CreateFile, Unused, Free
  <2>2. \A d \in onDisk : d.auth # i
    BY <2>1 DEF CreateFile, Free, InUse
  <2>3. /\ dir' = [dir EXCEPT !["tmp"] = i] /\ onDisk' = onDisk \cup {dir'}
        /\ file' = [file EXCEPT ![i] = [val |-> mine[p], len |-> 0, synced |-> FALSE]]
    BY <2>1 DEF CreateFile
  <2>4. /\ dir'.auth = dir.auth /\ \A d \in onDisk' : \E e \in onDisk : d.auth = e.auth
        /\ \A d \in onDisk : d.auth # NoFile => file'[d.auth] = file[d.auth]
    BY <2>2, <2>3
  <2>5. OnCourse(p)'
    BY <1>14, <2>1, <2>3 DEF CreateTmp, OnCourse
  <2>6. answers' = answers
    BY <1>14 DEF CreateTmp
  <2> QED BY <2>4, <2>5, <2>6, PublishedStay
<1>15. CASE WriteAll(p)
  <2>1. /\ pc[p] = "write" /\ fd[p] \in Inodes
        /\ ~file[fd[p]].synced /\ file[fd[p]].val = mine[p]
    BY <1>1, <1>15 DEF WriteAll, OnCourse
  <2>2. /\ UNCHANGED <<dir, onDisk, fd, mine, answers>>
        /\ file' = [file EXCEPT ![fd[p]].len = 2] /\ pc'[p] = "sync"
    BY <1>15 DEF WriteAll, WriteUpTo
  <2>3. \A d \in onDisk : d.auth # NoFile => d.auth # fd[p]
    BY <1>1, <2>1 DEF OnlyWhole, Durable
  <2>4. \A d \in onDisk : d.auth # NoFile => file'[d.auth] = file[d.auth]
    BY <2>2, <2>3
  <2>5. OnCourse(p)'
    BY <1>1, <2>1, <2>2 DEF OnCourse
  <2> QED BY <2>2, <2>4, <2>5, PublishedStay
<1>16. CASE SyncTmp(p)
  <2>1. /\ pc[p] = "sync" /\ fd[p] \in Inodes /\ dir.tmp \in {NoFile, fd[p]}
        /\ file[fd[p]].val = mine[p] /\ file[fd[p]].len = 2
    BY <1>1, <1>16 DEF SyncTmp, OnCourse
  <2>2. /\ UNCHANGED <<dir, onDisk, mine, answers>>
        /\ file' = [file EXCEPT ![fd[p]].synced = TRUE] /\ pc'[p] = "publish"
    BY <1>16 DEF SyncTmp, SyncFile
  <2>3. ASSUME NEW d \in onDisk, d.auth # NoFile PROVE file'[d.auth] = file[d.auth]
    <3>1. d.auth \in Inodes /\ file[d.auth] \in Contents /\ file[d.auth].synced = TRUE
      BY <1>1, <2>3 DEF OnlyWhole, Durable
    <3>2. [file[d.auth] EXCEPT !.synced = TRUE] = file[d.auth]
      BY <3>1
    <3> QED BY <2>1, <2>2, <3>1, <3>2
  <2>4. OnCourse(p)'
    <3>1. dir'.tmp # NoFile => Durable(file'[dir'.tmp]) /\ file'[dir'.tmp].val = mine'[p]
      BY <2>1, <2>2 DEF Durable
    <3>2. (dir.tmp # NoFile => Durable(file[dir.tmp]) /\ file[dir.tmp].val = mine[p])'
      BY <3>1 DEF Durable
    <3> QED BY <2>2, <3>2 DEF OnCourse
  <2> QED BY <2>2, <2>3, <2>4, PublishedStay
<1>17. CASE Publish(p)
  <2>1. /\ pc[p] = "publish" /\ pc'[p] = "dirsync" /\ dir.tmp \in Inodes /\ dir.auth = NoFile
        /\ mine[p] \in Values /\ UNCHANGED <<file, mine, answers, late>>
        /\ dir' = [dir EXCEPT !["auth"] = dir.tmp] /\ onDisk' = onDisk \cup {dir'}
    BY <1>17 DEF Publish, Link
  <2>2. dir'.auth = dir.tmp /\ Durable(file[dir'.auth]) /\ file[dir'.auth].val = mine[p]
    BY <1>1, <2>1 DEF OnCourse
  <2>3. OnlyWhole'
    BY <1>1, <2>1, <2>2 DEF OnlyWhole, Durable
  <2>4. Record' = mine[p]
    BY <2>1, <2>2 DEF Record, Loaded, Reads, Durable
  <2>5. answers = {}
    <3>1. Record = Absent
      BY <2>1 DEF Record, Loaded
    <3> QED BY <1>1, <3>1 DEF AnsweredIsStored
  <2> QED BY <2>1, <2>3, <2>4, <2>5 DEF OnCourse, AnsweredIsStored
<1>18. CASE SyncParent(p)
  <2>1. /\ pc[p] = "dirsync" /\ pc'[p] = "rm_written" /\ mine[p] \in Values
        /\ UNCHANGED <<dir, file, mine, answers, late>> /\ onDisk' = {dir}
    BY <1>18 DEF SyncParent, SyncDir
  <2>2. /\ OnlyWhole' /\ Record' = Record /\ AnsweredIsStored'
    BY <2>1, PublishedStay
  <2>3. p \notin late => dir.auth # NoFile /\ file[dir.auth].val = mine[p]
    BY <1>1, <2>1, RecordIs DEF OnCourse
  <2>4. p \notin late => IsOnDisk(mine[p])'
    BY <2>1, <2>3 DEF IsOnDisk
  <2> QED BY <1>1, <2>1, <2>2, <2>4 DEF OnCourse
<1> QED BY <1>6, <1>7, <1>8, <1>9, <1>10, <1>11, <1>12, <1>13, <1>14, <1>15, <1>16,
           <1>17, <1>18 DEF Persist

LEMMA CallInTurn ==
  ASSUME Alone, NEW p \in Persisters, NEW a \in Values, Call(p, a), Watch, alone'
  PROVE  CallsInTurn'
<1> USE DEF Alone, FilesKept
<1>1. OneAtATime'
  BY DEF Watch, OneAtATime
<1>2. /\ UNCHANGED files /\ UNCHANGED <<fd, answers, late>>
      /\ mine' = [mine EXCEPT ![p] = a] /\ pc' = [pc EXCEPT ![p] = "load"]
  BY DEF Call
<1>3. /\ OnlyWhole' /\ AnsweredIsStored' /\ Record' = Record
      /\ \A x \in Values : IsOnDisk(x) => IsOnDisk(x)'
  BY <1>2, PublishedStay
<1>4. ASSUME NEW q \in Persisters PROVE OnCourse(q)'
  <2>1. CASE q = p
    BY <1>2, <2>1 DEF OnCourse
  <2>2. CASE q # p
    <3>1. pc'[q] = pc[q] /\ mine'[q] = mine[q]
      BY <1>2, <2>2
    <3>2. OnCourse(q) /\ (pc[q] # "idle" => mine[q] \in Values)
      BY DEF CallsInTurn
    <3> QED BY <1>2, <1>3, <3>1, <3>2 DEF OnCourse
  <2> QED BY <2>1, <2>2
<1> QED BY <1>1, <1>3, <1>4 DEF CallsInTurn

(* clear comes between any two steps of a call: it may take the temporary  *)
(* name, and the record with every answer about it.                        *)
LEMMA ClearInTurn ==
  ASSUME Alone, BeginClearAuth \/ ClearAuth PROVE CallsInTurn'
<1> USE DEF Alone, FilesKept
<1>1. OneAtATime' /\ UNCHANGED <<pc, mine, fd>>
  BY DEF BeginClearAuth, ClearAuth, RemoveAuth, RemoveTmp, SyncCleared, OneAtATime, CallsInTurn
<1>2. ASSUME UNCHANGED <<file, answers, late>>, dir'.auth = dir.auth,
             dir'.tmp \in {dir.tmp, NoFile},
             \A d \in onDisk' : \E e \in onDisk : d.auth = e.auth
      PROVE  CallsInTurn'
  <2>1. /\ OnlyWhole' /\ AnsweredIsStored' /\ Record' = Record
        /\ \A x \in Values : IsOnDisk(x) => IsOnDisk(x)'
    BY <1>2, PublishedStay
  <2>2. ASSUME NEW q \in Persisters PROVE OnCourse(q)'
    <3>1. OnCourse(q) /\ (pc[q] # "idle" => mine[q] \in Values)
      BY DEF CallsInTurn
    <3> QED BY <1>1, <1>2, <2>1, <3>1 DEF OnCourse, Durable
  <2> QED BY <1>1, <2>1, <2>2 DEF CallsInTurn
<1>3. CASE BeginClearAuth \/ RemoveTmp \/ SyncCleared
  BY <1>2, <1>3 DEF BeginClearAuth, RemoveTmp, SyncCleared, SyncDir
<1>4. CASE RemoveAuth /\ dir.auth = NoFile
  BY <1>2, <1>4 DEF RemoveAuth
<1>5. CASE RemoveAuth /\ dir.auth # NoFile
  <2>1. /\ UNCHANGED file /\ answers' = {} /\ late' = Active
        /\ dir' = [dir EXCEPT !["auth"] = NoFile] /\ onDisk' = onDisk \cup {dir'}
    BY <1>5 DEF RemoveAuth
  <2>2. OnlyWhole' /\ AnsweredIsStored'
    BY <2>1 DEF OnlyWhole, AnsweredIsStored, CallsInTurn
  <2>3. ASSUME NEW q \in Persisters PROVE OnCourse(q)'
    <3>1. OnCourse(q) /\ dir'.tmp = dir.tmp /\ (pc[q] # "idle" => q \in late')
      BY <2>1 DEF CallsInTurn, Active
    <3> QED BY <1>1, <2>1, <3>1 DEF OnCourse, Durable
  <2> QED BY <1>1, <2>2, <2>3 DEF CallsInTurn
<1> QED BY <1>3, <1>4, <1>5 DEF ClearAuth

LEMMA FaultInTurn ==
  ASSUME Alone, Fault PROVE CallsInTurn'
<1> USE DEF Alone, FilesKept
<1>1. ASSUME NEW p \in Persisters, IoError(p) PROVE CallsInTurn'
  <2>1. pc[p] # "idle" /\ pc' = [pc EXCEPT ![p] = "idle"] /\ answers' = answers
    BY <1>1 DEF IoError
  <2>2. OneAtATime' /\ \A q \in Persisters \ {p} : OnCourse(q)'
    BY <2>1, OthersWait
  <2>3. /\ dir'.auth = dir.auth /\ file' = file
        /\ \A d \in onDisk' : \E e \in onDisk : d.auth = e.auth
    BY <1>1 DEF IoError
  <2>4. OnlyWhole' /\ AnsweredIsStored'
    BY <2>1, <2>3, PublishedStay
  <2>5. OnCourse(p)'
    BY <2>1 DEF OnCourse
  <2> QED BY <2>2, <2>4, <2>5 DEF CallsInTurn
<1>2. ASSUME NEW p \in Persisters, ShortWrite(p) PROVE CallsInTurn'
  <2>1. /\ pc[p] = "write" /\ pc' = [pc EXCEPT ![p] = "idle"] /\ answers' = answers
        /\ UNCHANGED <<dir, onDisk>> /\ file' = [file EXCEPT ![fd[p]].len = 1]
    BY <1>2 DEF ShortWrite, WriteUpTo
  <2>2. OneAtATime' /\ \A q \in Persisters \ {p} : OnCourse(q)'
    BY <2>1, OthersWait
  <2>3. OnlyWhole /\ fd[p] \in Inodes /\ ~file[fd[p]].synced
    BY <2>1 DEF CallsInTurn, OnCourse
  <2>4. \A d \in onDisk : d.auth # NoFile => file'[d.auth] = file[d.auth]
    BY <2>1, <2>3 DEF OnlyWhole, Durable
  <2>5. OnlyWhole' /\ AnsweredIsStored'
    BY <2>1, <2>4, PublishedStay
  <2>6. OnCourse(p)'
    BY <2>1 DEF OnCourse
  <2> QED BY <2>2, <2>5, <2>6 DEF CallsInTurn
<1>3. CASE ClearError
  <2>1. UNCHANGED <<dir, onDisk, file, pc, mine, fd, answers, late>>
    BY <1>3 DEF ClearError
  <2> QED BY <2>1 DEF CallsInTurn, OneAtATime, OnlyWhole, AnsweredIsStored, OnCourse,
             Record, Loaded, IsOnDisk
<1>4. ASSUME Restart PROVE OneAtATime' /\ \A q \in Persisters : OnCourse(q)'
  BY <1>4 DEF Restart, OneAtATime, OnCourse
<1>5. CASE Kill
  <2>1. OnlyWhole' /\ AnsweredIsStored'
    BY <1>5, PublishedStay DEF Kill
  <2> QED BY <1>4, <1>5, <2>1 DEF Kill, CallsInTurn
<1>6. CASE PowerLoss
  <2>1. PICK d \in onDisk : dir' = d /\ onDisk' = {d}
    BY <1>6 DEF PowerLoss, LosePower
  <2>2. \A i \in Inodes : /\ file'[i].val = file[i].val
                          /\ Durable(file[i]) => Durable(file'[i])
    BY <1>6, PowerKeepsFiles DEF PowerLoss
  <2>3. d.auth # NoFile => d.auth \in Inodes /\ Durable(file'[d.auth])
    BY <2>2 DEF CallsInTurn, OnlyWhole
  <2>4. OnlyWhole'
    BY <2>1, <2>3 DEF OnlyWhole, Durable
  <2>5. ASSUME NEW x \in answers' PROVE Record' = x[2] /\ IsOnDisk(x[2])'
    <3>1. d.auth # NoFile /\ file[d.auth].val = x[2]
      BY <1>6, <2>5 DEF PowerLoss, CallsInTurn, AnsweredIsStored, IsOnDisk
    <3>2. file'[d.auth].val = x[2] /\ file'[d.auth].len = 2
      BY <2>2, <2>3, <3>1 DEF Durable
    <3> QED BY <2>1, <3>1, <3>2 DEF Record, Loaded, Reads, IsOnDisk
  <2> QED BY <1>4, <1>6, <2>4, <2>5 DEF PowerLoss, CallsInTurn, AnsweredIsStored
<1> QED BY <1>1, <1>2, <1>3, <1>5, <1>6 DEF Fault

LEMMA NextInTurn == CallsInv /\ AuthorizationNext => CallsInv'
<1> SUFFICES ASSUME FilesKept, alone => CallsInTurn, AuthorizationNext, alone' PROVE CallsInTurn'
  BY NextKeeps DEF CallsInv, FilesKept
<1>1. Watch /\ alone
  BY DEF AuthorizationNext, Watch
<1>2. Alone
  BY <1>1 DEF Alone
<1> QED BY <1>1, <1>2, PersistInTurn, CallInTurn, ClearInTurn, FaultInTurn DEF AuthorizationNext

LEMMA StutterInTurn == CallsInv /\ UNCHANGED authorizationVars => CallsInv'
<1> SUFFICES ASSUME CallsInv, UNCHANGED authorizationVars PROVE CallsInv'
  OBVIOUS
<1>1. FilesKept'
  BY DEF CallsInv, FilesKept, authorizationVars
<1>2. alone => CallsInTurn'
  BY DEF CallsInv, authorizationVars, CallsInTurn, OneAtATime, OnlyWhole, AnsweredIsStored, OnCourse,
     Record, Loaded, IsOnDisk, Durable, Reads
<1> QED BY <1>1, <1>2 DEF CallsInv, FilesKept, authorizationVars

LEMMA CallsAlways == AuthorizationSpec => []CallsInv
  BY InitCalls, NextInTurn, StutterInTurn, PTL DEF AuthorizationSpec

(* Published files are whole files, so no reader finds a torn record.      *)
LEMMA WholeIsRead == CallsInv => RecordIsWhole
<1> SUFFICES ASSUME FilesKept, CallsInTurn PROVE Record # Torn
  BY DEF CallsInv, FilesKept, RecordIsWhole
<1>1. dir \in onDisk /\ OnlyWhole
  BY DEF FilesKept, CallsInTurn
<1>2. CASE dir.auth = NoFile
  BY <1>2 DEF Record, Loaded
<1>3. CASE dir.auth # NoFile
  <2>1. file[dir.auth] \in Contents
    BY <1>3 DEF FilesKept
  <2>2. file[dir.auth].len = Full
    BY <1>1, <1>3 DEF OnlyWhole, Durable
  <2> QED BY <1>3, <2>1, <2>2 DEF Record, Loaded, Reads
<1> QED BY <1>2, <1>3

(* The store of passport_device_authorization_store.rs is well formed: each*)
(* call writes a file of its own, and while calls follow one another no    *)
(* reader finds a record cut short, whatever fails or crashes.             *)
THEOREM AuthorizationIsWhole == AuthorizationSpec => []AuthorizationInv
<1>1. CallsInv => AuthorizationInv
  BY WholeIsRead DEF CallsInv, AuthorizationInv
<1> QED BY <1>1, CallsAlways, PTL

(* passport_device_authorization_store.rs:7, "conflicting record fails     *)
(* closed": all success answers since the last clear are about one record, *)
(* as long as calls follow one another.                                    *)
THEOREM ConflictsFailClosed == AuthorizationSpec => []ConflictFailsClosed
<1>1. CallsInv => ConflictFailsClosed
  BY DEF CallsInv, CallsInTurn, AnsweredIsStored, ConflictFailsClosed
<1> QED BY <1>1, CallsAlways, PTL

(* Written is answered only after sync_parent, so it survives a power loss.*)
THEOREM WrittenSurvives == AuthorizationSpec => []WrittenIsDurable
<1>1. ASSUME CallsInv, alone, NEW a \in Values, <<"Written", a>> \in answers
      PROVE  Survivors("auth") = {a}
  <2>1. CallsInTurn /\ IsOnDisk(a)
    BY <1>1 DEF CallsInv, CallsInTurn, AnsweredIsStored
  <2>2. ASSUME NEW d \in onDisk
        PROVE  d.auth # NoFile /\ MayRead(file[d.auth]) = {a}
    BY <2>1 DEF CallsInTurn, OnlyWhole, Durable, IsOnDisk, MayRead, Reads
  <2>3. onDisk # {}
    BY <1>1 DEF CallsInv
  <2> QED BY <2>2, <2>3 DEF Survivors
<1>2. CallsInv => WrittenIsDurable
  BY <1>1 DEF WrittenIsDurable
<1> QED BY <1>2, CallsAlways, PTL
=============================================================================
