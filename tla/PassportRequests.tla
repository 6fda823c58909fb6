-------------------------- MODULE PassportRequests --------------------------
(***************************************************************************)
(* The async Passport commands, running beside the main thread's custody   *)
(* commands: passport_issue_username_capability, passport_verify_device_-  *)
(* possession, passport_claim_username, passport_authorize_device and      *)
(* passport_register_root.  Each reads a piece of custody, awaits the      *)
(* service or the user, and goes on with what it read; no lock is held     *)
(* across an await.  The service may answer anything or nothing (a time-   *)
(* out), so every command may end at any step.                             *)
(***************************************************************************)
EXTENDS PassportCustody

CONSTANT Jobs     \* the async commands that may run at once

VARIABLES step,   \* where each of them is
          root,   \* the passport of the descriptor (or capability) it read
          device  \* the passport of the device key, or of the vault, it read

jobs == <<step, root, device>>
all  == <<vars, jobs>>

Steps == {"i_device", "i_auth", "i_sign", "i_store", "k_sign",
          "a_device", "a_auth", "b_root", "b_device", "b_vault", "b_sign",
          "b_rootcheck", "b_devcheck", "b_persist", "g_root", "g_sign"}

(* The steps behind the reading of a public identity, and of a device. *)
HasRoot   == Steps \ {"g_root"}
HasDevice == Steps \ {"i_device", "a_device", "k_sign", "g_root", "g_sign"}

(* What a command goes on with after an await, it has really read. *)
JobsTypeOK ==
  /\ step \in [Jobs -> Steps \cup {"idle"}]
  /\ root \in [Jobs -> Maybe] /\ device \in [Jobs -> Maybe]
  /\ \A j \in Jobs : /\ step[j] \in HasRoot => root[j] \in Passports
                     /\ step[j] \in HasDevice => device[j] \in Passports

JobsInit ==
  /\ step = [j \in Jobs |-> "idle"]
  /\ root = [j \in Jobs |-> None]
  /\ device = [j \in Jobs |-> None]

(* What the commands share with the main thread and never change. *)
Kept == UNCHANGED <<store, sealed, ack, descriptor, vmk, pending, main, arg, history>>

Move(j, from, to) ==
  /\ main # "down"
  /\ step[j] = from
  /\ step' = [step EXCEPT ![j] = to]
  /\ Kept

End(j, from) ==
  /\ Move(j, from, "idle")
  /\ root' = [root EXCEPT ![j] = None]
  /\ device' = [device EXCEPT ![j] = None]

(* The V2 device key the open session decrypts; None if there is none. *)
DeviceKey == IF vault = [pid |-> vmk, ver |-> 2] THEN vmk ELSE None

(***************************************************************************)
(* Reading the public identity and the device identity                     *)
(***************************************************************************)

(* Issuance, possession proof (both i_) and authorization (a_) start with  *)
(* the descriptor.                                                         *)
Begin(j) ==
  /\ \E s \in {"i_device", "a_device"} : Move(j, "idle", s)
  /\ descriptor # None
  /\ root' = [root EXCEPT ![j] = descriptor]
  /\ UNCHANGED <<device, capability, authRec>>

(* passport_register_root looks at the session here, and only here. *)
BeginRegister(j) ==
  /\ vmk # None
  /\ Move(j, "idle", "g_root")
  /\ UNCHANGED <<root, device, capability, authRec>>

AfterRoot == [b_root |-> "b_device", g_root |-> "g_sign"]

ReadDescriptor(j) ==
  /\ step[j] \in DOMAIN AfterRoot
  /\ Move(j, step[j], AfterRoot[step[j]])
  /\ descriptor # None
  /\ root' = [root EXCEPT ![j] = descriptor]
  /\ UNCHANGED <<device, capability, authRec>>

AfterDevice == [i_device |-> "i_auth", a_device |-> "a_auth", b_device |-> "b_vault"]

(* Faulty: a missing device key is not an error. *)
ReadDeviceUnchecked(j) ==
  /\ step[j] \in DOMAIN AfterDevice
  /\ Move(j, step[j], AfterDevice[step[j]])
  /\ device' = [device EXCEPT ![j] = DeviceKey]
  /\ UNCHANGED <<root, capability, authRec>>

ReadDevice(j) ==
  /\ step[j] \in DOMAIN AfterDevice
  /\ Move(j, step[j], AfterDevice[step[j]])
  /\ DeviceKey # None
  /\ device' = [device EXCEPT ![j] = DeviceKey]
  /\ UNCHANGED <<root, capability, authRec>>

(***************************************************************************)
(* Capability issuance and possession proof                                *)
(***************************************************************************)

(* load_verified: the record binds this passport to this device.  The      *)
(* challenge is requested next.                                            *)
LoadAuthorization(j) ==
  /\ Move(j, "i_auth", "i_sign")
  /\ authRec = root[j] /\ authRec = device[j]
  /\ UNCHANGED <<root, device, capability, authRec>>

(* Faulty: the key is not compared with the device that was read. *)
SignSessionUnbound(j) ==
  /\ Move(j, "i_sign", "i_store")
  /\ DeviceKey # None
  /\ UNCHANGED <<root, device, capability, authRec>>

(* The challenge is in.  The transcript names the passport and the device  *)
(* that were read; svc-passport rejects another device's key.              *)
SignSession(j) ==
  /\ Move(j, "i_sign", "i_store")
  /\ DeviceKey # None
  /\ device[j] = DeviceKey
  /\ UNCHANGED <<root, device, capability, authRec>>

(* The issued capability is in, for the passport of the challenge.  (A     *)
(* possession proof ends here without one: Fails.)                         *)
StoreCapability(j) ==
  /\ End(j, "i_store")
  /\ capability' = root[j]
  /\ UNCHANGED authRec

(***************************************************************************)
(* Username claim                                                          *)
(***************************************************************************)

BeginClaim(j) ==
  /\ capability # None
  /\ Move(j, "idle", "k_sign")
  /\ root' = [root EXCEPT ![j] = capability]
  /\ UNCHANGED <<device, capability, authRec>>

SignClaim(j) ==
  /\ End(j, "k_sign")
  /\ DeviceKey # None
  /\ UNCHANGED <<capability, authRec>>

(* load_active or state finds that the capability has expired. *)
Expire ==
  /\ main # "down" /\ capability # None
  /\ capability' = None
  /\ UNCHANGED authRec /\ Kept /\ UNCHANGED jobs

(***************************************************************************)
(* Device authorization                                                    *)
(***************************************************************************)

(* A stored authorization of this passport and device is used again. *)
ReuseAuthorization(j) ==
  /\ End(j, "a_auth")
  /\ authRec = root[j] /\ authRec = device[j]
  /\ UNCHANGED <<capability, authRec>>

NoAuthorization(j) ==
  /\ Move(j, "a_auth", "b_root")
  /\ authRec = None
  /\ UNCHANGED <<root, device, capability, authRec>>

(* The session is looked at and the vault loaded before the PIN prompt.    *)
(* That vault's passport must be the device's for the rest to succeed.     *)
LoadVault(j) ==
  /\ Move(j, "b_vault", "b_sign")
  /\ vmk # None /\ vault.pid = device[j]
  /\ UNCHANGED <<root, device, capability, authRec>>

(* The unsealed factor opens the loaded vault, and the authorization it    *)
(* signs verifies under the descriptor that was read.                      *)
SignAuthorization(j) ==
  /\ Move(j, "b_sign", "b_rootcheck")
  /\ sealed.root = device[j] /\ sealed.root = root[j]
  /\ UNCHANGED <<root, device, capability, authRec>>

(* The descriptor, then the device identity, are read again ...            *)
RecheckRoot(j) ==
  /\ Move(j, "b_rootcheck", "b_devcheck")
  /\ descriptor = root[j]
  /\ UNCHANGED <<root, device, capability, authRec>>

RecheckDevice(j) ==
  /\ Move(j, "b_devcheck", "b_persist")
  /\ DeviceKey = device[j]
  /\ UNCHANGED <<root, device, capability, authRec>>

(* ... and persist_verified_once verifies against that second reading.     *)
PersistAuthorization(j) ==
  /\ End(j, "b_persist")
  /\ authRec \in {None, root[j]}
  /\ authRec' = root[j]
  /\ UNCHANGED capability

(***************************************************************************)
(* Root registration                                                       *)
(***************************************************************************)

(* Faulty: the descriptor that was read is written back. *)
SignRegistrationRepairing(j) ==
  /\ step[j] = "g_sign" /\ main # "down"
  /\ vault.pid \in Passports /\ sealed.root = vault.pid /\ sealed.root = root[j]
  /\ descriptor' = root[j]
  /\ step' = [step EXCEPT ![j] = "idle"]
  /\ root' = [root EXCEPT ![j] = None] /\ device' = [device EXCEPT ![j] = None]
  /\ UNCHANGED <<store, sealed, ack, authRec, vmk, pending, capability, main, arg, history>>

(* The challenge and the root PIN are in: the vault is loaded now, and the *)
(* factor must derive the descriptor read at the start.                    *)
SignRegistration(j) ==
  /\ End(j, "g_sign")
  /\ vault.pid \in Passports
  /\ sealed.root = vault.pid /\ sealed.root = root[j]
  /\ UNCHANGED <<capability, authRec>>

(* An error, a rejection, a dismissed prompt or a timeout. *)
Fails(j) ==
  /\ step[j] # "idle"
  /\ End(j, step[j])
  /\ UNCHANGED <<capability, authRec>>

-----------------------------------------------------------------------------
Request(j) ==
  \/ Begin(j) \/ BeginRegister(j) \/ ReadDescriptor(j) \/ ReadDevice(j)
  \/ LoadAuthorization(j) \/ SignSession(j) \/ StoreCapability(j)
  \/ BeginClaim(j) \/ SignClaim(j)
  \/ ReuseAuthorization(j) \/ NoAuthorization(j) \/ LoadVault(j)
  \/ SignAuthorization(j) \/ RecheckRoot(j) \/ RecheckDevice(j)
  \/ PersistAuthorization(j)
  \/ SignRegistration(j)
  \/ Fails(j)

(* A new passport's factors are not those a running command has read. *)
MainThread ==
  /\ Command \/ Dismiss \/ Start
  /\ \A j \in Jobs : main = "c_prompt" /\ main' = "c_root" => arg' \notin {root[j], device[j]}
  /\ UNCHANGED jobs

(* The async commands die with the process. *)
ProcessDies ==
  /\ Crash
  /\ step' = [j \in Jobs |-> "idle"]
  /\ root' = [j \in Jobs |-> None]
  /\ device' = [j \in Jobs |-> None]

RequestsInit == Init /\ JobsInit

RequestsNext ==
  \/ MainThread \/ ProcessDies \/ Expire
  \/ \E j \in Jobs : Request(j)

RequestsSpec == RequestsInit /\ [][RequestsNext]_all

-----------------------------------------------------------------------------
(***************************************************************************)
(* Properties                                                              *)
(***************************************************************************)

(* The async commands do to custody only what PassportCustody allows them: *)
(* every invariant of PassportCustody holds beside them.                   *)
ImplementsCustody == Spec

(* A proof never names a passport other than the one whose key signed it,  *)
(* nor a passport whose vault is gone: a clear and a new passport during   *)
(* an await end the command, also when the new passport is unlocked.       *)
ProofNamesSigner ==
  [][\A j \in Jobs : /\ SignSession(j) => root[j] = vmk /\ vault.pid = vmk
                     /\ SignRegistration(j) => descriptor \in {None, root[j]}]_all

(* commands/passport.rs:4, "lock and clear drop native capability          *)
(* authority before continuing": when no main thread command runs and the  *)
(* session is locked, no capability is in memory.                          *)
LockedHoldsNoCapability == main = "idle" /\ vmk = None => capability = None
=============================================================================
