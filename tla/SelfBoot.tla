------------------------------ MODULE SelfBoot ------------------------------
(***************************************************************************)
(* The application of src/src started from a USB memory, over any number   *)
(* of boots: the firmware's boot manager, efi_main with the self-only      *)
(* route it takes when its file is named BOOTX64.EFI, the firmware's setup *)
(* screen with the machine's owner in front of it, and power losses.       *)
(*                                                                         *)
(* One action is one call the application makes to the firmware, with the  *)
(* code that runs up to the next one; power may be lost between any two.   *)
(* A failing call takes one unit of the budget MaxFaults, a power loss one *)
(* of MaxCrashes.  ResetSystem and the cold reset are taken to work.       *)
(***************************************************************************)
EXTENDS SecureBootMode

CONSTANTS
  Self,         \* the owner of the certificates on the USB memory
  Foreign,      \* the owners of the certificates the factory installs
  NoKey,        \* the platform key is absent
  Machines,     \* the firmware and file-name variants considered
  MaxFaults,    \* bound on failing firmware calls
  MaxCrashes    \* bound on power losses

Machine ==
  [ name       : {"BOOTX64.EFI", "GRUBX64.EFI", "other"},
    sb         : BOOLEAN,    \* the firmware implements secure boot
    uefi25     : BOOLEAN,    \* ... with AuditMode and DeployedMode
    auditSetup : 0..1,       \* what SetupMode reads in audit mode
    fwUi       : BOOLEAN,    \* OsIndicationsSupported has BOOT_TO_FW_UI
    conIn      : {"works",   \* the console's input device answers,
                  "broken",  \* ... never has a key to read,
                  "missing"} ]  \* ... is not there

ASSUME SelfBootAssumption ==
  /\ Self \notin Foreign
  /\ NoKey \notin Foreign \cup {Self}
  /\ Machines \subseteq Machine
  /\ MaxFaults \in Nat
  /\ MaxCrashes \in Nat

VARIABLES
  (* persistent, in the firmware and on the USB memory *)
  machine,      \* the machine at hand
  pk, kek, db,  \* the platform key, the certificates in KEK and in db
  sbEnabled,    \* the owner's secure boot switch
  mode,         \* "plain", or the UEFI 2.5 "audit" or "deployed" mode
  osInd,        \* OsIndications asks for the setup screen at next boot
  files,        \* the certificate files on the USB memory
  (* the running program; lost at a reset *)
  pc,           \* the next call
  handles,      \* regist_uefi_keys' three file handles
  reboot_msg,   \* utils.c: announce the reboot before waiting for a key
  (* the console, which the owner remembers until the next run prints *)
  shown,
  (* the budgets *)
  faults, crashes

keyVars     == <<pk, kek, db>>
fwVars      == <<machine, sbEnabled, mode, osInd>>
programVars == <<handles, reboot_msg, shown>>
budget      == <<faults, crashes>>
vars        == <<machine, pk, kek, db, sbEnabled, mode, osInd, files,
                 pc, handles, reboot_msg, shown, faults, crashes>>

Store == INSTANCE KeyStore

Keys == {"PK", "KEK", "DB"}

Messages == {"success",      \* Successful registration of PK, KEK and DB.
             "activate",     \* After please activate the UEFI secure boot.
             "clear",        \* After please clear the UEFI key.
             "manualClear",  \* Manually please switch ... clear the UEFI key.
             "anyKey",       \* boot_common: press any key, then a reset
             "reboot",       \* When you press any key, the system will reboot.
             "error",        \* error_print
             "badName"}      \* Bad file name

EnrollPcs == {"enrollDB", "enrollKEK", "enrollPK"}
DeletePcs == {"deleteDB", "deletePK", "deleteKEK"}
AppPcs    == {"init", "boot_exec", "exists", "mode", "begin", "open"}
               \cup EnrollPcs \cup DeletePcs
               \cup {"transitionEnable", "transitionClear", "setOsInd",
                     "readKey", "commonKey", "exit", "reset_cold"}
FirmwarePcs == {"load", "screen", "rejected", "returned"}

TypeOK ==
  /\ machine \in Machines
  /\ pk \in Foreign \cup {Self, NoKey}
  /\ kek \subseteq Foreign \cup {Self}
  /\ db \subseteq Foreign \cup {Self}
  /\ sbEnabled \in BOOLEAN
  /\ mode \in {"plain", "audit", "deployed"}
  /\ osInd \in BOOLEAN
  /\ files \subseteq Keys
  /\ pc \in AppPcs \cup FirmwarePcs
  /\ handles \in [Keys -> {"null", "open", "closed"}]
  /\ reboot_msg \in BOOLEAN
  /\ shown \subseteq Messages
  /\ faults \in 0..MaxFaults
  /\ crashes \in 0..MaxCrashes

\* The owner has run cp.cmd; the machine holds whatever keys it came with.
Init ==
  /\ machine \in Machines
  /\ \/ machine.sb /\ pk \in Foreign /\ kek = Foreign /\ db = Foreign
     \/ pk = NoKey /\ kek = {} /\ db = {}
  /\ sbEnabled \in BOOLEAN
  /\ mode = "plain"
  /\ osInd = FALSE
  /\ files = Keys
  /\ pc = "load"
  /\ handles = [k \in Keys |-> "null"]
  /\ reboot_msg = TRUE
  /\ shown = {}
  /\ faults = 0
  /\ crashes = 0

-----------------------------------------------------------------------------
(* The firmware, as the application sees it. *)

\* The firmware enforces secure boot: its SecureBoot variable reads 1.
Enforcing == machine.sb /\ sbEnabled /\ pk # NoKey

\* codesign.cmd signs bootx64.efi with the key whose certificate is DBself.
Verified == Enforcing => Self \in db

Bit(b) == IF b THEN 1 ELSE 0

\* The variables of EfiGlobalVariable that secure_boot_mode.c asks for.
FirmwareStore ==
  LET names == (IF pk # NoKey THEN {"PK"} ELSE {})
                 \cup (IF machine.sb THEN {"SetupMode", "SecureBoot"} ELSE {})
                 \cup (IF machine.uefi25 THEN {"AuditMode", "DeployedMode"} ELSE {})
  IN [v \in names |->
        CASE v = "PK"           -> 1
          [] v = "SecureBoot"   -> Bit(Enforcing)
          [] v = "AuditMode"    -> Bit(mode = "audit")
          [] v = "DeployedMode" -> Bit(mode = "deployed")
          [] v = "SetupMode"    -> IF mode = "audit" THEN machine.auditSetup
                                                     ELSE Bit(pk = NoKey)]

\* A fresh image: every static of the program has its initial value.
StartImage ==
  /\ pc' = "init"
  /\ handles' = [k \in Keys |-> "null"]
  /\ reboot_msg' = TRUE
  /\ shown' = {}

Load ==
  /\ pc = "load"
  /\ \/ /\ osInd
        /\ osInd' = FALSE
        /\ pc' = "screen"
        /\ UNCHANGED programVars
     \/ /\ ~osInd /\ Verified
        /\ StartImage
        /\ UNCHANGED osInd
     \/ /\ ~osInd /\ ~Verified
        /\ pc' = "rejected"
        /\ UNCHANGED <<osInd, handles, reboot_msg, shown>>
  /\ UNCHANGED <<machine, pk, kek, db, sbEnabled, mode, files, faults, crashes>>

\* The owner presses the setup key, or the boot manager has nothing to start.
EnterSetup ==
  /\ pc \in {"load", "rejected", "returned"}
  /\ pc' = "screen"
  /\ UNCHANGED <<keyVars, fwVars, files, programVars, budget>>

PowerLoss ==
  /\ pc \in AppPcs
  /\ crashes < MaxCrashes
  /\ crashes' = crashes + 1
  /\ pc' = "load"
  /\ UNCHANGED <<keyVars, fwVars, files, programVars, faults>>

-----------------------------------------------------------------------------
(* The owner in front of the setup screen, and at the PC where cp.cmd      *)
(* copies the files to the USB memory.                                     *)

OwnerUnchanged == UNCHANGED <<machine, osInd, pc, programVars, budget>>

OwnerClearPK ==
  /\ pc = "screen" /\ machine.sb
  /\ Store!ClearPK
  /\ mode' = "plain"
  /\ UNCHANGED sbEnabled
  /\ OwnerUnchanged

OwnerClearKeys ==
  /\ pc = "screen" /\ machine.sb
  /\ Store!ClearKeys
  /\ mode' = "plain"
  /\ UNCHANGED sbEnabled
  /\ OwnerUnchanged

OwnerRestoreFactoryKeys ==
  /\ pc = "screen" /\ machine.sb
  /\ Store!RestoreFactoryKeys
  /\ mode' = "plain"
  /\ UNCHANGED sbEnabled
  /\ OwnerUnchanged

OwnerCopyFiles ==
  /\ pc = "screen"
  /\ Store!CopyFiles
  /\ UNCHANGED <<sbEnabled, mode>>
  /\ OwnerUnchanged

OwnerSwitchSecureBoot ==
  /\ pc = "screen" /\ machine.sb
  /\ sbEnabled' = ~sbEnabled
  /\ UNCHANGED <<keyVars, files, mode>>
  /\ OwnerUnchanged

OwnerSwitchMode ==
  /\ pc = "screen" /\ machine.sb /\ machine.uefi25
  /\ mode' \in {"plain", IF pk = NoKey THEN "audit" ELSE "deployed"}
  /\ UNCHANGED <<keyVars, files, sbEnabled>>
  /\ OwnerUnchanged

LeaveSetup ==
  /\ pc = "screen"
  /\ pc' = "load"
  /\ UNCHANGED <<keyVars, fwVars, files, programVars, budget>>

Owner == \/ OwnerClearPK \/ OwnerClearKeys \/ OwnerRestoreFactoryKeys
         \/ OwnerCopyFiles \/ OwnerSwitchSecureBoot \/ OwnerSwitchMode
         \/ LeaveSetup

-----------------------------------------------------------------------------
(* utils.c.  Before ExitBootServices, reset_system prints and then waits   *)
(* for a key; ResetSystem follows the key.                                 *)

reset_system(printed) ==
  /\ pc' = "readKey"
  /\ shown' = shown \cup printed \cup (IF reboot_msg' THEN {"reboot"} ELSE {})

error_print == reset_system({"error"})

\* The program reports an error and does nothing else.
Reports ==
  /\ UNCHANGED <<keyVars, fwVars, files, reboot_msg, crashes>>
  /\ error_print

\* A call the application makes at this point fails.
Fails == faults < MaxFaults /\ faults' = faults + 1 /\ Reports

\* A call succeeds and changes nothing but the next call and the console.
Proceed(next, printed) ==
  /\ pc' = next
  /\ shown' = shown \cup printed
  /\ UNCHANGED <<keyVars, fwVars, files, handles, reboot_msg, budget>>

\* Mutant: the loop of read_key waits for the opposite status.
read_key_WrongStatus(next) ==
  /\ pc' = pc
  /\ UNCHANGED <<keyVars, fwVars, files, programVars, budget>>

\* A key is read, or there is no device to wait for; otherwise the loop goes
\* on, whatever ReadKeyStroke says, and never ends on a device that is broken.
read_key(next) ==
  /\ \/ machine.conIn # "broken" /\ pc' = next
     \/ machine.conIn # "missing" /\ pc' = pc
  /\ UNCHANGED <<keyVars, fwVars, files, programVars, budget>>

ResetSystem == pc = "readKey" /\ read_key("load")

(* setup_screen.c *)

\* When OsIndicationsSupported cannot be read, the program does not get
\* past the question; a variable that is not there says no.
is_boot_to_fw_ui == machine.fwUi

TransitionPc(enable) == IF enable THEN "transitionEnable" ELSE "transitionClear"

transition_setup_screen(enable) ==
  /\ pc = TransitionPc(enable)
  /\ \/ /\ is_boot_to_fw_ui
        /\ Proceed("setOsInd", IF enable THEN {"activate"} ELSE {"clear"})
     \/ /\ ~is_boot_to_fw_ui
        /\ UNCHANGED <<keyVars, fwVars, files, handles, reboot_msg, budget>>
        /\ reset_system({"manualClear"})
     \/ Fails /\ UNCHANGED handles

\* Mutant: set_reboot_no_msg runs before the SetVariable that may fail.
set_boot_to_fw_ui_SilencedEarly ==
  /\ pc = "setOsInd"
  /\ reboot_msg' = FALSE
  /\ \/ /\ osInd' = TRUE
        /\ reset_system({})
        /\ UNCHANGED faults
     \/ /\ faults < MaxFaults
        /\ faults' = faults + 1
        /\ error_print
        /\ UNCHANGED osInd
  /\ UNCHANGED <<keyVars, machine, sbEnabled, mode, files, handles, crashes>>

set_boot_to_fw_ui ==
  /\ pc = "setOsInd"
  /\ \/ /\ osInd' = TRUE
        /\ reboot_msg' = FALSE
        /\ reset_system({})
        /\ UNCHANGED <<keyVars, machine, sbEnabled, mode, files, handles, budget>>
     \/ Fails /\ UNCHANGED handles

-----------------------------------------------------------------------------
(* efi_main.c *)

\* init and tp_draw_logo: the console, the loaded image and the screen.  A
\* device that is there and never has a key may still take a Reset.
init ==
  /\ pc = "init"
  /\ \/ machine.conIn # "missing" /\ Proceed("boot_exec", {})
     \/ machine.conIn # "works" /\ Reports /\ UNCHANGED <<handles, faults>>
     \/ Fails /\ UNCHANGED handles

boot_exec ==
  /\ pc = "boot_exec"
  /\ \/ machine.name = "GRUBX64.EFI" /\ Proceed("commonKey", {"anyKey"})
     \/ machine.name = "BOOTX64.EFI" /\ Proceed("exists", {})
     \/ machine.name = "other"       /\ Proceed("returned", {"badName"})
     \/ Fails /\ UNCHANGED handles

\* Mutant: a file that cannot be opened, for whatever reason, is not there.
boot_self_signed_exists_ErrorIgnored ==
  /\ pc = "exists"
  /\ \/ files = Keys /\ Proceed("mode", {})
     \/ files # Keys /\ Proceed("commonKey", {"anyKey"})
     \/ /\ faults < MaxFaults
        /\ faults' = faults + 1
        /\ pc' = "commonKey"
        /\ shown' = shown \cup {"anyKey"}
        /\ UNCHANGED <<keyVars, fwVars, files, handles, reboot_msg, crashes>>

\* boot_self_signed, first half: uefi_keys(UEFI_KEYS_EXISTS).
boot_self_signed_exists ==
  /\ pc = "exists"
  /\ \/ files = Keys /\ Proceed("mode", {})
     \/ files # Keys /\ Proceed("commonKey", {"anyKey"})
     \/ Fails /\ UNCHANGED handles

\* Mutant: every mode without a platform key counts as setup mode.
boot_self_signed_mode_UnknownEnrolls ==
  /\ pc = "mode"
  /\ \/ ModeOf(FirmwareStore) \in {"setup", "unknown"} /\ Proceed("begin", {})
     \/ ModeOf(FirmwareStore) \in {"user", "audit", "deployed"}
          /\ Proceed("transitionClear", {})
     \/ Fails /\ UNCHANGED handles

\* Mutant: transition_setup_screen gets the wrong argument outside setup mode.
boot_self_signed_mode_Activates ==
  /\ pc = "mode"
  /\ \/ ModeOf(FirmwareStore) = "setup"   /\ Proceed("begin", {})
     \/ ModeOf(FirmwareStore) = "unknown" /\ Proceed("commonKey", {"anyKey"})
     \/ ModeOf(FirmwareStore) \notin {"setup", "unknown"}
          /\ Proceed("transitionEnable", {})
     \/ Fails /\ UNCHANGED handles

\* Mutant: outside setup mode the program just boots.
boot_self_signed_mode_Boots ==
  /\ pc = "mode"
  /\ \/ ModeOf(FirmwareStore) = "setup" /\ Proceed("begin", {})
     \/ ModeOf(FirmwareStore) # "setup" /\ Proceed("commonKey", {"anyKey"})
     \/ Fails /\ UNCHANGED handles

\* boot_self_signed, second half: the secure boot mode decides.
boot_self_signed_mode ==
  /\ pc = "mode"
  /\ \/ LET m == ModeOf(FirmwareStore)
        IN \/ m = "setup"   /\ Proceed("begin", {})
           \/ m = "unknown" /\ Proceed("commonKey", {"anyKey"})
           \/ m \notin {"setup", "unknown"} /\ Proceed("transitionClear", {})
     \/ Fails /\ UNCHANGED handles

\* regist_uefi_keys: tp_begin_enroll_keys.
regist_uefi_keys_begin ==
  /\ pc = "begin"
  /\ \/ Proceed("open", {})
     \/ Fails /\ UNCHANGED handles

\* uefi_keys(UEFI_KEYS_OPEN) opens PK, KEK and DB in this order; the handles
\* opened before a failing Open stay open.
uefi_keys_open ==
  LET opened(ks) == [k \in Keys |-> IF k \in ks THEN "open" ELSE handles[k]]
  IN /\ pc = "open"
     /\ \/ /\ pc' = "enrollDB"
           /\ handles' = opened(Keys)
           /\ UNCHANGED <<keyVars, fwVars, files, reboot_msg, shown, budget>>
        \/ /\ Fails
           /\ \E ks \in {{}, {"PK"}, {"PK", "KEK"}} : handles' = opened(ks)

\* Mutant: the variable is always written anew, never appended to.
SetSignatures_NoAppend(old) == {Self}

\* EnrollX509toSigDB, EnrollX509ToKek: append to a variable that exists,
\* create one that does not.
SetSignatures(old) == IF old # {} THEN old \cup {Self} ELSE {Self}

\* A failing enrolment closes the three files before it reports.
EnrollFails == Fails /\ handles' = [k \in Keys |-> "closed"]

EnrollUnchanged ==
  UNCHANGED <<machine, sbEnabled, mode, osInd, files, programVars, budget>>

\* Mutant: the status of the db enrolment is ignored.
regist_uefi_keys_db_ErrorIgnored ==
  /\ pc = "enrollDB"
  /\ db' \in {db, SetSignatures(db)}
  /\ pc' = "enrollKEK"
  /\ UNCHANGED <<pk, kek>>
  /\ EnrollUnchanged

regist_uefi_keys_db ==
  /\ pc = "enrollDB"
  /\ \/ /\ db' = SetSignatures(db)
        /\ pc' = "enrollKEK"
        /\ UNCHANGED <<pk, kek>>
        /\ EnrollUnchanged
     \/ EnrollFails

regist_uefi_keys_kek ==
  /\ pc = "enrollKEK"
  /\ \/ /\ kek' = SetSignatures(kek)
        /\ pc' = "enrollPK"
        /\ UNCHANGED <<pk, db>>
        /\ EnrollUnchanged
     \/ EnrollFails

\* Mutant: the status of the PK enrolment is ignored.
regist_uefi_keys_pk_ErrorIgnored ==
  /\ pc = "enrollPK"
  /\ pk' \in {pk, Self}
  /\ pc' = "deleteDB"
  /\ UNCHANGED <<kek, db>>
  /\ EnrollUnchanged

\* The platform key is written without EFI_VARIABLE_APPEND_WRITE.
regist_uefi_keys_pk ==
  /\ pc = "enrollPK"
  /\ \/ /\ pk' = Self
        /\ pc' = "deleteDB"
        /\ UNCHANGED <<kek, db>>
        /\ EnrollUnchanged
     \/ EnrollFails

\* Mutant: pk_file->Delete(db_file) taken to delete the file of pk_file.
DeleteFile_WrongHandle(k, next, printed) ==
  /\ handles' = [handles EXCEPT !["PK"] = "closed"]
  /\ files' = files \ {"PK"}
  /\ pc' = next
  /\ shown' = shown \cup printed
  /\ UNCHANGED <<keyVars, fwVars, reboot_msg, budget>>

\* EFI_FILE.Delete always closes the handle; when the file cannot be deleted
\* it answers EFI_WARN_DELETE_FAILURE, which is not an EFI_ERROR.
DeleteFile(k, next, printed) ==
  /\ handles' = [handles EXCEPT ![k] = "closed"]
  /\ \/ /\ files' = files \ {k}
        /\ UNCHANGED faults
     \/ /\ faults < MaxFaults
        /\ faults' = faults + 1
        /\ UNCHANGED files
  /\ pc' = next
  /\ shown' = shown \cup printed
  /\ UNCHANGED <<keyVars, fwVars, reboot_msg, crashes>>

regist_uefi_keys_delete ==
  \/ pc = "deleteDB"  /\ DeleteFile("DB", "deletePK", {})
  \/ pc = "deletePK"  /\ DeleteFile("PK", "deleteKEK", {})
  \/ pc = "deleteKEK" /\ DeleteFile("KEK", TransitionPc(TRUE), {"success"})

\* boot_common: read_key, then exit_boot_services.
boot_common_key == pc = "commonKey" /\ read_key("exit")

exit_boot_services ==
  /\ pc = "exit"
  /\ \/ Proceed("reset_cold", {})
     \/ Fails /\ UNCHANGED handles

\* SetVirtualAddressMap, and tp_reset_cold whatever it answers.
tp_reset_cold ==
  /\ pc = "reset_cold"
  /\ Proceed("load", {})

Application ==
  \/ init \/ boot_exec \/ boot_self_signed_exists \/ boot_self_signed_mode
  \/ regist_uefi_keys_begin \/ uefi_keys_open
  \/ regist_uefi_keys_db \/ regist_uefi_keys_kek \/ regist_uefi_keys_pk
  \/ regist_uefi_keys_delete
  \/ \E enable \in BOOLEAN : transition_setup_screen(enable)
  \/ set_boot_to_fw_ui \/ ResetSystem
  \/ boot_common_key \/ exit_boot_services \/ tp_reset_cold

Next == Application \/ Load \/ EnterSetup \/ PowerLoss \/ Owner

Spec == Init /\ [][Next]_vars

-----------------------------------------------------------------------------
(* What must hold. *)

(* When the application has told the owner to switch secure boot on, and   *)
(* until the machine is reset, PK, KEK and db hold its own certificates:   *)
(* following the advice cannot lock the machine.  efi_main.c registers the *)
(* three keys before transition_setup_screen(true).                        *)
ActivateIsSafe ==
  ("activate" \in shown /\ pc \in AppPcs) => (pk = Self /\ Store!Chain)

(* A machine whose platform key is the application's own never refuses to  *)
(* load the application, whatever power losses and failures interrupted    *)
(* the enrolment.                                                          *)
OwnKeyNeverRejects == pc = "rejected" => pk # Self

(* regist_uefi_keys reads and deletes through handles that are open: one   *)
(* pass opens each file, and neither an error path nor a Delete hands a    *)
(* closed handle on.                                                       *)
HandlesOpenWhenUsed ==
  /\ pc \in EnrollPcs \cup {"deleteDB"} => \A k \in Keys : handles[k] = "open"
  /\ pc = "deletePK" => handles["PK"] = "open" /\ handles["KEK"] = "open"
  /\ pc = "deleteKEK" => handles["KEK"] = "open"

(* Nobody is left in front of a program that waits for a key without       *)
(* saying what the key will do: set_reboot_no_msg is called only where     *)
(* transition_setup_screen has announced the setup screen.                 *)
NoSilentWait ==
  pc = "readKey" => ("reboot" \in shown \/ (osInd /\ shown \cap {"activate", "clear"} # {}))

(* The keys are written in plain setup mode only: what the mode variables  *)
(* said in get_pk_and_mode_variables still holds, five calls later, at     *)
(* each SetVariable.                                                       *)
EnrollOnlyInSetupMode ==
  [][(<<pk, kek, db>>' # <<pk, kek, db>> /\ pc # "screen")
       => (pk = NoKey /\ mode = "plain" /\ ~Enforcing)]_vars

(* Enrolment keeps the certificates an earlier owner left in KEK and db    *)
(* when only the platform key was cleared.                                 *)
ForeignCertsKept ==
  [][pc # "screen" => (kek \subseteq kek' /\ db \subseteq db')]_vars

(* Seen from the keys alone, the program with its failures and power       *)
(* losses does what KeyStore promises.                                     *)
KeyStorePromise == Store!StoreSpec

\* efi_main.c prints "Successful registration" after three calls of Delete,
\* each with a branch "Delete(...) failed."; UDK's SimpleFileSystem.h says
\* that a failed Delete is EFI_WARN_DELETE_FAILURE.  The success message
\* means the certificate files are gone.
SuccessMeansFilesGone ==
  ("success" \in shown /\ pc \in AppPcs) => files = {}

\* README.md: after the successful registration the message asks to activate
\* secure boot.  It never asks to clear the keys just enrolled.
SuccessNeverAsksToClear ==
  "success" \in shown => shown \cap {"clear", "manualClear"} = {}
=============================================================================
