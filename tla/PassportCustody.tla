--------------------------- MODULE PassportCustody ---------------------------
(***************************************************************************)
(* The custody of the desktop Native Passport: what the Tauri commands     *)
(* that run on the main thread do to the vault file, the platform keychain,*)
(* the acknowledgement marker, the public descriptor and the secrets held  *)
(* in memory.  These commands follow one another; one action is one change *)
(* of durable state, or the answer to one native prompt, so that a crash   *)
(* may fall between any two.                                               *)
(*                                                                         *)
(* A passport is the pair of factors drawn when it is created; a secret is *)
(* named by the passport it belongs to.  A PIN is right or wrong, chosen   *)
(* freely.  The files behind the stores are those of VaultStore: a write   *)
(* that fails or is interrupted leaves one of FailedWrite.                 *)
(*                                                                         *)
(* The async commands touch custody only through the capability and the    *)
(* device authorization (Requests); PassportRequests details them.         *)
(***************************************************************************)
EXTENDS Naturals

CONSTANTS Passports,   \* the passports the user may create
          None,        \* nothing stored
          Damaged      \* a file that was cut short and does not decode

ASSUME DistinctMarkers ==
  None \notin Passports /\ Damaged \notin Passports /\ None # Damaged

VARIABLES vault,       \* the encrypted vault: passport and format version
          tmp,         \* its temporary file
          sealed,      \* the factor in each keychain account
          ack,         \* the recovery acknowledgement marker
          descriptor,  \* the public descriptor
          authRec,     \* the device authorization
          vmk,         \* the operational session: None when it is locked
          pendRec,     \* the recovery factor pending since creation
          pendOp,      \* the operational factor pending since creation
          capability,  \* the capability session
          main,        \* the step of the main thread
          arg,         \* the passport whose factor that command holds
          acked,       \* history: passports whose phrase was acknowledged
          confirmed    \* history: the passport created, until a clear begins

store   == <<vault, tmp>>
pending == <<pendRec, pendOp>>
public  == <<descriptor, authRec>>
history == <<acked, confirmed>>
vars    == <<vault, tmp, sealed, ack, descriptor, authRec, vmk, pendRec,
             pendOp, capability, main, arg, acked, confirmed>>

Maybe   == Passports \cup {None}
NoVault == [pid |-> None, ver |-> 0]
Broken  == [pid |-> Damaged, ver |-> 0]
Vaults  == [pid : Passports, ver : {1, 2}] \cup {NoVault, Broken}

CreateSteps   == {"c_prompt", "c_root", "c_device", "c_write"}
UnlockSteps   == {"u_prompt", "u_verify", "m_write", "m_drop"}
CeremonySteps == {"p_ack", "p_shown", "s_prompt", "s_shown"}
ClearSteps    == {"x_auth", "x_desc", "x_session", "x_pending", "x_root",
                  "x_device", "x_incomplete", "x_vault", "x_tmp", "x_ack"}

TypeOK ==
  /\ vault \in Vaults /\ tmp \in Vaults
  /\ sealed \in [{"root", "device"} -> Maybe]
  /\ ack \in Maybe \cup {Damaged}
  /\ descriptor \in Maybe /\ authRec \in Maybe
  /\ vmk \in Maybe /\ pendRec \in Maybe /\ pendOp \in Maybe
  /\ capability \in Maybe
  /\ main \in {"idle", "down", "l_session", "r_prompt"}
               \cup CreateSteps \cup UnlockSteps \cup CeremonySteps \cup ClearSteps
  /\ arg \in Maybe
  /\ acked \in SUBSET Passports /\ confirmed \in Maybe

Init ==
  /\ vault = NoVault /\ tmp = NoVault
  /\ sealed = [c \in {"root", "device"} |-> None]
  /\ ack = None /\ descriptor = None /\ authRec = None
  /\ vmk = None /\ pendRec = None /\ pendOp = None /\ capability = None
  /\ main = "idle" /\ arg = None
  /\ acked = {} /\ confirmed = None

Goto(from, to) == main = from /\ main' = to

(* Factors are drawn at random: a new passport shares none with what is    *)
(* left of earlier ones.                                                   *)
Fresh == Passports \ {vault.pid, tmp.pid, sealed.root, sealed.device, ack,
                      descriptor, authRec, capability}

(* Faulty: the vault is overwritten in place. *)
FailedWriteInPlace(v) == vault' \in {vault, Broken, v} /\ tmp' = NoVault

(* What write_encrypted_vault_atomic leaves when it fails or is cut short: *)
(* nothing done, or the old temporary file gone, then a partial or a whole *)
(* new one, or already the new vault.                                      *)
FailedWrite(v) ==
  \/ vault' = vault /\ tmp' \in {tmp, NoVault, Broken, v}
  \/ vault' = v /\ tmp' = NoVault

(***************************************************************************)
(* passport_create                                                         *)
(***************************************************************************)

BeginCreate ==
  /\ Goto("idle", "c_prompt")
  /\ vault = NoVault
  /\ pendRec' = None /\ pendOp' = None
  /\ UNCHANGED <<store, sealed, ack, public, vmk, capability, arg, history>>

StageFactors(p) ==
  /\ Goto("c_prompt", "c_root")
  /\ vault = NoVault
  /\ arg' = p /\ pendRec' = p /\ pendOp' = p
  /\ acked' = acked \ {p}
  /\ UNCHANGED <<store, sealed, ack, public, vmk, capability, confirmed>>

SealRoot ==
  /\ Goto("c_root", "c_device")
  /\ sealed' = [sealed EXCEPT !["root"] = arg]
  /\ UNCHANGED <<store, ack, public, vmk, pending, capability, arg, history>>

SealDevice ==
  /\ Goto("c_device", "c_write")
  /\ sealed' = [sealed EXCEPT !["device"] = arg]
  /\ UNCHANGED <<store, ack, public, vmk, pending, capability, arg, history>>

WriteNewVault ==
  /\ Goto("c_write", "idle")
  /\ vault' = [pid |-> arg, ver |-> 1] /\ tmp' = NoVault
  /\ arg' = None /\ confirmed' = arg
  /\ UNCHANGED <<sealed, ack, public, vmk, pending, capability, acked>>

(* Faulty: the pending recovery factor of the failed passport stays. *)
CreateFailsKeepingFactor ==
  /\ main \in {"c_root", "c_device", "c_write"} /\ main' = "idle"
  /\ IF main = "c_write" THEN FailedWrite([pid |-> arg, ver |-> 1])
                         ELSE UNCHANGED store
  /\ pendOp' = None /\ arg' = None
  /\ UNCHANGED <<pendRec, sealed, ack, public, vmk, capability, history>>

(* Whatever step fails, both pending factors are dropped. *)
CreateFails ==
  /\ main \in {"c_root", "c_device", "c_write"} /\ main' = "idle"
  /\ IF main = "c_write" THEN FailedWrite([pid |-> arg, ver |-> 1])
                         ELSE UNCHANGED store
  /\ pendRec' = None /\ pendOp' = None /\ arg' = None
  /\ UNCHANGED <<sealed, ack, public, vmk, capability, history>>

(***************************************************************************)
(* passport_unlock_operational                                             *)
(***************************************************************************)

BeginUnlock ==
  /\ main = "idle" /\ vault # NoVault
  /\ main' = IF vmk = None THEN "u_prompt" ELSE "m_write"
  /\ UNCHANGED <<store, sealed, ack, public, vmk, pending, capability, arg, history>>

(* The PIN is in: the pending factor, if there is one, is taken. *)
TakeFactor ==
  /\ Goto("u_prompt", "u_verify")
  /\ arg' = pendOp /\ pendOp' = None
  /\ UNCHANGED <<store, sealed, ack, public, vmk, pendRec, capability, history>>

(* The factor and the PIN open the vault. *)
OpenSession ==
  /\ Goto("u_verify", "m_write")
  /\ vault.pid \in Passports
  /\ vault.pid = IF arg = None THEN sealed.device ELSE arg
  /\ vmk' = vault.pid /\ arg' = None
  /\ UNCHANGED <<store, sealed, ack, public, pending, capability, history>>

(* They do not, or something fails: a taken factor is restored. *)
UnlockRejected ==
  /\ Goto("u_verify", "idle")
  /\ pendOp' = arg /\ arg' = None
  /\ UNCHANGED <<store, sealed, ack, public, vmk, pendRec, capability, history>>

MigrateVault ==
  /\ Goto("m_write", "idle")
  /\ \/ vault.ver = 2 /\ vault.pid = vmk /\ UNCHANGED store
     \/ vault.ver = 1 /\ vault' = [pid |-> vault.pid, ver |-> 2] /\ tmp' = NoVault
  /\ UNCHANGED <<sealed, ack, public, vmk, pending, capability, arg, history>>

(* Any failure, a write error followed by a good readback included. *)
MigrationFails ==
  /\ Goto("m_write", "m_drop")
  /\ IF vault.ver = 1 THEN FailedWrite([pid |-> vault.pid, ver |-> 2])
                      ELSE UNCHANGED store
  /\ UNCHANGED <<sealed, ack, public, vmk, pending, capability, arg, history>>

RevokeAfterMigration ==
  /\ Goto("m_drop", "l_session")
  /\ capability' = None
  /\ UNCHANGED <<store, sealed, ack, public, vmk, pending, arg, history>>

(***************************************************************************)
(* passport_lock                                                           *)
(***************************************************************************)

BeginLock ==
  /\ Goto("idle", "l_session")
  /\ capability' = None
  /\ UNCHANGED <<store, sealed, ack, public, vmk, pending, arg, history>>

LockSession ==
  /\ Goto("l_session", "idle")
  /\ vmk' = None
  /\ UNCHANGED <<store, sealed, ack, public, pending, capability, arg, history>>

(***************************************************************************)
(* passport_unlock_root                                                    *)
(***************************************************************************)

BeginFinalize ==
  /\ Goto("idle", "r_prompt")
  /\ vault # NoVault /\ vmk # None /\ descriptor = None
  /\ UNCHANGED <<store, sealed, ack, public, vmk, pending, capability, arg, history>>

(* Faulty: the factor is not checked against the vault. *)
FinalizeUnchecked ==
  /\ Goto("r_prompt", "idle")
  /\ sealed.root # None
  /\ descriptor' = sealed.root
  /\ UNCHANGED <<store, sealed, ack, authRec, vmk, pending, capability, arg, history>>

(* The root PIN opens the compartment with the unsealed factor; the        *)
(* descriptor derives from that factor.                                    *)
FinalizeIdentity ==
  /\ Goto("r_prompt", "idle")
  /\ vault.pid \in Passports /\ sealed.root = vault.pid
  /\ descriptor' = sealed.root
  /\ UNCHANGED <<store, sealed, ack, authRec, vmk, pending, capability, arg, history>>

(***************************************************************************)
(* passport_recovery_ceremony                                              *)
(***************************************************************************)

(* The pending factor is taken; were there no vault, it would be dropped. *)
BeginPendingCeremony ==
  /\ main = "idle" /\ pendRec # None /\ vault # Broken
  /\ main' = IF vault = NoVault THEN "idle" ELSE "p_ack"
  /\ arg' = IF vault = NoVault THEN None ELSE pendRec
  /\ pendRec' = None
  /\ UNCHANGED <<store, sealed, ack, public, vmk, pendOp, capability, history>>

(* The marker names this factor: done, the pending factor is consumed. *)
AlreadyAcknowledged ==
  /\ Goto("p_ack", "idle")
  /\ ack = arg
  /\ arg' = None
  /\ UNCHANGED <<store, sealed, ack, public, vmk, pending, capability, history>>

ShowPendingPhrase ==
  /\ Goto("p_ack", "p_shown")
  /\ ack = None
  /\ UNCHANGED <<store, sealed, ack, public, vmk, pending, capability, arg, history>>

(* After a restart: the sealed factor, not yet acknowledged. *)
BeginStoredCeremony ==
  /\ Goto("idle", "s_prompt")
  /\ pendRec = None /\ vault.pid \in Passports
  /\ sealed.root # None /\ ack = None
  /\ arg' = sealed.root
  /\ UNCHANGED <<store, sealed, ack, public, vmk, pending, capability, history>>

ShowStoredPhrase ==
  /\ Goto("s_prompt", "s_shown")
  /\ arg = vault.pid /\ ack = None
  /\ UNCHANGED <<store, sealed, ack, public, vmk, pending, capability, arg, history>>

(* Faulty: the marker is not stored. *)
AcknowledgeUnmarked ==
  /\ main \in {"p_shown", "s_shown"} /\ main' = "idle"
  /\ arg' = None
  /\ acked' = acked \cup {arg}
  /\ UNCHANGED <<ack, store, sealed, public, vmk, pending, capability, confirmed>>

Acknowledge ==
  /\ main \in {"p_shown", "s_shown"} /\ main' = "idle"
  /\ ack' = arg /\ arg' = None
  /\ acked' = acked \cup {arg}
  /\ UNCHANGED <<store, sealed, public, vmk, pending, capability, confirmed>>

(* The ceremony ends without its marker: an error, a mismatch, a dismissed *)
(* surface, or a marker write that failed half way.  A pending factor is   *)
(* restored.                                                               *)
CeremonyFails ==
  /\ main \in CeremonySteps /\ main' = "idle"
  /\ ack' \in IF main \in {"p_shown", "s_shown"} THEN {ack, arg, Damaged} ELSE {ack}
  /\ pendRec' = IF main \in {"p_ack", "p_shown"} THEN arg ELSE pendRec
  /\ arg' = None
  /\ UNCHANGED <<store, sealed, public, vmk, pendOp, capability, history>>

(***************************************************************************)
(* passport_clear                                                          *)
(***************************************************************************)

BeginClear ==
  /\ Goto("idle", "x_auth")
  /\ capability' = None
  /\ confirmed' = None
  /\ UNCHANGED <<store, sealed, ack, public, vmk, pending, arg, acked>>

ClearAuthorization ==
  /\ Goto("x_auth", "x_desc")
  /\ authRec' = None
  /\ UNCHANGED <<store, sealed, ack, descriptor, vmk, pending, capability, arg, history>>

ClearDescriptor ==
  /\ Goto("x_desc", "x_session")
  /\ descriptor' = None
  /\ UNCHANGED <<store, sealed, ack, authRec, vmk, pending, capability, arg, history>>

(* Faulty: an unlocked session survives the clear. *)
ClearSessionSkipped ==
  /\ Goto("x_session", "x_pending")
  /\ UNCHANGED <<vmk, store, sealed, ack, public, pending, capability, arg, history>>

ClearSession ==
  /\ Goto("x_session", "x_pending")
  /\ vmk' = None
  /\ UNCHANGED <<store, sealed, ack, public, pending, capability, arg, history>>

ClearPending ==
  /\ Goto("x_pending", "x_root")
  /\ pendRec' = None /\ pendOp' = None
  /\ UNCHANGED <<store, sealed, ack, public, vmk, capability, arg, history>>

(* Both keychain entries are tried, whatever becomes of the first. *)
ClearRootFactor ==
  /\ main = "x_root"
  /\ \/ main' = "x_device" /\ sealed' = [sealed EXCEPT !["root"] = None]
     \/ main' = "x_incomplete" /\ UNCHANGED sealed
  /\ UNCHANGED <<store, ack, public, vmk, pending, capability, arg, history>>

(* Faulty: the failure to delete the first entry is forgotten. *)
ClearDeviceFactorForgetful ==
  /\ main \in {"x_device", "x_incomplete"}
  /\ \/ main' = "x_vault" /\ sealed' = [sealed EXCEPT !["device"] = None]
     \/ main' = "idle" /\ UNCHANGED sealed
  /\ UNCHANGED <<store, ack, public, vmk, pending, capability, arg, history>>

ClearDeviceFactor ==
  /\ main \in {"x_device", "x_incomplete"}
  /\ \/ /\ main' = IF main = "x_device" THEN "x_vault" ELSE "idle"
        /\ sealed' = [sealed EXCEPT !["device"] = None]
     \/ main' = "idle" /\ UNCHANGED sealed
  /\ UNCHANGED <<store, ack, public, vmk, pending, capability, arg, history>>

ClearVault ==
  /\ Goto("x_vault", "x_tmp")
  /\ vault' = NoVault
  /\ UNCHANGED <<tmp, sealed, ack, public, vmk, pending, capability, arg, history>>

(* Faulty: only the vault itself is removed. *)
ClearTmpSkipped ==
  /\ Goto("x_tmp", "x_ack")
  /\ UNCHANGED <<tmp, vault, sealed, ack, public, vmk, pending, capability, arg, history>>

ClearTmp ==
  /\ Goto("x_tmp", "x_ack")
  /\ tmp' = NoVault
  /\ UNCHANGED <<vault, sealed, ack, public, vmk, pending, capability, arg, history>>

ClearAcknowledgement ==
  /\ Goto("x_ack", "idle")
  /\ ack' = None
  /\ UNCHANGED <<store, sealed, public, vmk, pending, capability, arg, history>>

(* A store answers with an error: the command stops there. *)
ClearStops ==
  /\ main \in {"x_auth", "x_desc", "x_vault", "x_tmp", "x_ack"} /\ main' = "idle"
  /\ UNCHANGED <<store, sealed, ack, public, vmk, pending, capability, arg, history>>

(***************************************************************************)
(* The environment                                                         *)
(***************************************************************************)

(* A prompt is dismissed, its PIN is wrong, or the command fails behind it.*)
Dismiss ==
  /\ main \in {"c_prompt", "u_prompt", "r_prompt"} /\ main' = "idle"
  /\ UNCHANGED <<store, sealed, ack, public, vmk, pending, capability, arg, history>>

BeingWritten ==
  IF main = "c_write" THEN {[pid |-> arg, ver |-> 1]}
  ELSE IF main = "m_write" /\ vault.ver = 1 THEN {[pid |-> vault.pid, ver |-> 2]}
  ELSE {}

(* The process dies; what was being written is left as after a failure. *)
Crash ==
  /\ main # "down" /\ main' = "down"
  /\ vmk' = None /\ pendRec' = None /\ pendOp' = None
  /\ capability' = None /\ arg' = None
  /\ UNCHANGED store \/ \E v \in BeingWritten : FailedWrite(v)
  /\ ack' \in IF main \in {"p_shown", "s_shown"} THEN {ack, arg, Damaged} ELSE {ack}
  /\ UNCHANGED <<sealed, public, history>>

(* recover_interrupted_write, before the first command: a temporary file   *)
(* becomes the vault if there is none.                                     *)
Start ==
  /\ Goto("down", "idle")
  /\ vault' = IF vault = NoVault THEN tmp ELSE vault
  /\ tmp' = NoVault
  /\ UNCHANGED <<sealed, ack, public, vmk, pending, capability, arg, history>>

(* The async commands store a capability or a device authorization. *)
Requests ==
  /\ main # "down"
  /\ capability' \in Maybe /\ authRec' \in Maybe
  /\ UNCHANGED <<store, sealed, ack, descriptor, vmk, pending, main, arg, history>>

-----------------------------------------------------------------------------
Create   == BeginCreate \/ (\E p \in Fresh : StageFactors(p))
            \/ SealRoot \/ SealDevice \/ WriteNewVault \/ CreateFails
Unlock   == BeginUnlock \/ TakeFactor \/ OpenSession \/ UnlockRejected
            \/ MigrateVault \/ MigrationFails \/ RevokeAfterMigration
Lock     == BeginLock \/ LockSession
Finalize == BeginFinalize \/ FinalizeIdentity
Ceremony == BeginPendingCeremony \/ AlreadyAcknowledged
            \/ ShowPendingPhrase \/ BeginStoredCeremony \/ ShowStoredPhrase
            \/ Acknowledge \/ CeremonyFails
Clear    == BeginClear \/ ClearAuthorization \/ ClearDescriptor \/ ClearSession
            \/ ClearPending \/ ClearRootFactor \/ ClearDeviceFactor
            \/ ClearVault \/ ClearTmp \/ ClearAcknowledgement \/ ClearStops

Command == Create \/ Unlock \/ Lock \/ Finalize \/ Ceremony \/ Clear

Next == Command \/ Dismiss \/ Crash \/ Start \/ Requests

Spec == Init /\ [][Next]_vars

-----------------------------------------------------------------------------
(***************************************************************************)
(* Properties                                                              *)
(***************************************************************************)

(* An unlocked session always holds the key of the vault that is stored:   *)
(* no clear, failed migration or new passport leaves another one's key.    *)
SessionIsOfVault == vmk # None => vault.pid = vmk

(* Between commands a pending factor is one of the stored vault: a failed  *)
(* or repeated create, a clear, a restored factor never leave a stale one. *)
PendingIsOfVault ==
  main = "idle" => /\ pendRec \in {None, vault.pid}
                   /\ pendOp \in {None, vault.pid}

(* The public descriptor names the passport in the vault, even when the    *)
(* keychain holds another passport's factors after an interrupted create.  *)
DescriptorIsOfVault == descriptor # None => vault.pid = descriptor

(* A passport whose creation was answered with created_locked stays whole, *)
(* vault and both factors, until the user clears it, whatever fails or     *)
(* crashes in between.                                                     *)
CreatedStaysUsable ==
  confirmed # None => /\ vault.pid = confirmed
                      /\ sealed.root = confirmed /\ sealed.device = confirmed

(***************************************************************************)
(* What the commands rely on from one step to the next                     *)
(***************************************************************************)

(* While a passport is created there is no vault, and what is pending or   *)
(* was sealed so far is its own.                                           *)
CreateInv ==
  /\ main \in CreateSteps => vault = NoVault
  /\ main \in {"c_root", "c_device", "c_write"} =>
       arg \in Passports /\ pendRec = arg /\ pendOp = arg
  /\ main \in {"c_device", "c_write"} => sealed.root = arg
  /\ main = "c_write" => sealed.device = arg

(* Factors in memory, or taken by a command, are those of the vault.       *)
FactorInv ==
  /\ main \notin {"c_root", "c_device", "c_write"} =>
       pendRec \in {None, vault.pid} /\ pendOp \in {None, vault.pid}
  /\ main = "u_verify" => arg \in {None, vault.pid}
  /\ main \in {"p_ack", "p_shown", "s_shown"} => arg = vault.pid
  /\ main \in CeremonySteps => arg \in Passports

(* What a clear has behind it at each of its steps. *)
ClearInv ==
  /\ main \in ClearSteps => confirmed = None
  /\ main \in ClearSteps \ {"x_auth", "x_desc"} => descriptor = None
  /\ main \in ClearSteps \ {"x_auth", "x_desc", "x_session"} => vmk = None
  /\ main \in {"x_root", "x_device", "x_incomplete", "x_vault", "x_tmp", "x_ack"} =>
       pendRec = None /\ pendOp = None
  /\ main \in {"x_device", "x_vault", "x_tmp", "x_ack"} => sealed.root = None
  /\ main \in {"x_vault", "x_tmp", "x_ack"} => sealed.device = None
  /\ main \in {"x_tmp", "x_ack"} => vault = NoVault
  /\ main = "x_ack" => tmp = NoVault

(* The marker stays as long as the passport it is about can be loaded, now *)
(* or after a restart.                                                     *)
AckInv ==
  /\ \A p \in acked : p \in {vault.pid, tmp.pid} => ack = p
  /\ main \in {"p_shown", "s_shown"} => ack = None
  /\ main \in {"c_root", "c_device", "c_write"} => arg \notin acked
  /\ vault # NoVault => tmp.pid \in {None, Damaged, vault.pid}

(* The invariant that each step preserves: every secret and every public   *)
(* record in custody belongs to the one passport of the vault, at every    *)
(* step of every command.                                                  *)
CustodyInv ==
  /\ TypeOK
  /\ SessionIsOfVault /\ DescriptorIsOfVault /\ CreatedStaysUsable
  /\ CreateInv /\ FactorInv /\ ClearInv /\ AckInv

(* Once a phrase was acknowledged it is never shown again.                 *)
PhraseShownOnce ==
  [][ShowPendingPhrase \/ ShowStoredPhrase => arg \notin acked]_vars

(* commands/passport.rs:376: platform material must be completely absent   *)
(* before the vault may be removed; until then the clear can be retried.   *)
VaultGoesLast ==
  [][vault # NoVault /\ vault' = NoVault => sealed.root = None /\ sealed.device = None]_vars

(* When passport_clear answers cleared or no_passport, nothing a main      *)
(* thread command keeps is left of the passport, a temporary file that a   *)
(* restart could promote included.                                         *)
ClearedIsEmpty ==
  [][ClearAcknowledgement =>
       /\ vault' = NoVault /\ tmp' = NoVault
       /\ sealed'.root = None /\ sealed'.device = None
       /\ ack' = None /\ descriptor' = None
       /\ vmk' = None /\ pendRec' = None /\ pendOp' = None]_vars
=============================================================================
