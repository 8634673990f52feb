--------------------------- MODULE SelfBoot_proofs ---------------------------
(***************************************************************************)
(* What TLAPS proves of SelfBoot, for any set of machines and of foreign   *)
(* certificates and any budget of failures and power losses.               *)
(***************************************************************************)
EXTENDS GuidedBoot, TLAPS

(***************************************************************************)
(* The inductive invariant.  OwnKeyHasChain alone is not inductive: that   *)
(* the platform key is written last shows only in what each enrolment step *)
(* finds done by the ones before it, and that the owner's advice is sound  *)
(* only in what is true from the first Delete on.                          *)
(***************************************************************************)
SetupPcs == {"begin", "open"} \cup EnrollPcs

SetupHolds    == pc \in SetupPcs => pk = NoKey /\ mode = "plain"
EnrollOrder   == /\ pc \in {"enrollKEK", "enrollPK"} => Self \in db
                 /\ pc = "enrollPK" => Self \in kek
EnrolledHolds == pc \in DeletePcs \cup {"transitionEnable"} => pk = Self
AdviceHolds   == ("activate" \in shown /\ pc \in AppPcs) => pk = Self
RejectedHolds == pc = "rejected" => ~(Self \in db)
ModesHold     == ~machine.uefi25 => mode = "plain"

IInv == /\ TypeOK
        /\ Store!OwnKeyHasChain
        /\ SetupHolds /\ EnrollOrder /\ EnrolledHolds
        /\ AdviceHolds /\ RejectedHolds /\ ModesHold

(* get_pk_and_mode_variables answers "setup" only when there is no         *)
(* platform key and the firmware is in neither of the UEFI 2.5 modes.      *)
LEMMA SetupModeMeansNoKey ==
  ASSUME TypeOK, ModesHold, ModeOf(FirmwareStore) = "setup"
  PROVE  pk = NoKey /\ mode = "plain"
<1> DEFINE S == FirmwareStore
<1>1. /\ get_PK(S) = 0
      /\ get_variable(S, "AuditMode") = 0
      /\ get_variable(S, "DeployedMode") = 0
  BY DEF ModeOf, is_setup_mode, is_audit_mode, is_deployed_mode, is_user_mode
<1>2. pk = NoKey
  BY <1>1 DEF get_PK, FirmwareStore
<1>3. mode # "audit"
  <2>1. CASE machine.uefi25
    <3>1. "AuditMode" \in DOMAIN S /\ S["AuditMode"] = Bit(mode = "audit")
      BY <2>1 DEF FirmwareStore
    <3>2. Bit(mode = "audit") = 0
      BY <1>1, <3>1 DEF get_variable
    <3> QED  BY <3>2 DEF Bit
  <2>2. CASE ~machine.uefi25
    BY <2>2 DEF ModesHold
  <2> QED  BY <2>1, <2>2
<1>4. mode # "deployed"
  <2>1. CASE machine.uefi25
    <3>1. "DeployedMode" \in DOMAIN S /\ S["DeployedMode"] = Bit(mode = "deployed")
      BY <2>1 DEF FirmwareStore
    <3>2. Bit(mode = "deployed") = 0
      BY <1>1, <3>1 DEF get_variable
    <3> QED  BY <3>2 DEF Bit
  <2>2. CASE ~machine.uefi25
    BY <2>2 DEF ModesHold
  <2> QED  BY <2>1, <2>2
<1> QED  BY <1>2, <1>3, <1>4 DEF TypeOK

(* Appending to a signature variable and creating it come to the same set. *)
LEMMA SetSignaturesAdds ==
  ASSUME NEW old
  PROVE  SetSignatures(old) = old \cup {Self}
  BY DEF SetSignatures

(* The machine as it comes, with the files just copied.                    *)
LEMMA InitIInv == Init => IInv
<1> SUFFICES ASSUME Init PROVE IInv
  OBVIOUS
<1>1. TypeOK
  <2>1. /\ machine \in Machines /\ sbEnabled \in BOOLEAN /\ osInd \in BOOLEAN
        /\ mode \in {"plain", "audit", "deployed"} /\ reboot_msg \in BOOLEAN
        /\ files \subseteq Keys /\ shown \subseteq Messages
        /\ pc \in AppPcs \cup FirmwarePcs
    BY DEF Init, FirmwarePcs
  <2>2. /\ pk \in Foreign \cup {Self, NoKey}
        /\ kek \subseteq Foreign \cup {Self} /\ db \subseteq Foreign \cup {Self}
    BY DEF Init
  <2>3. handles \in [Keys -> {"null", "open", "closed"}]
    BY DEF Init
  <2>4. faults \in 0..MaxFaults /\ crashes \in 0..MaxCrashes
    BY SelfBootAssumption DEF Init
  <2> QED  BY <2>1, <2>2, <2>3, <2>4 DEF TypeOK
<1>2. Store!OwnKeyHasChain
  BY SelfBootAssumption DEF Init, Store!OwnKeyHasChain
<1>3. /\ SetupHolds /\ EnrollOrder /\ EnrolledHolds
      /\ AdviceHolds /\ RejectedHolds /\ ModesHold
  BY DEF Init, SetupHolds, EnrollOrder, EnrolledHolds, AdviceHolds,
         RejectedHolds, ModesHold, SetupPcs, EnrollPcs, DeletePcs
<1> QED  BY <1>1, <1>2, <1>3 DEF IInv

-----------------------------------------------------------------------------
(* A failing call leaves the keys, the files and the firmware alone and    *)
(* leads to the wait for a key.                                            *)
LEMMA FailsEffect ==
  ASSUME TypeOK, Reports
  PROVE  /\ UNCHANGED <<machine, pk, kek, db, sbEnabled, mode, osInd, files,
                        reboot_msg, crashes>>
         /\ pc' = "readKey"
         /\ shown' \subseteq Messages
         /\ "activate" \in shown' => "activate" \in shown
  BY SelfBootAssumption
     DEF Reports, error_print, reset_system, TypeOK, Messages,
         keyVars, fwVars

(* TypeOK is kept by every action. *)
LEMMA TypeStep ==
  ASSUME TypeOK, [Next]_vars
  PROVE  TypeOK'
<1> USE DEF TypeOK
<1>0. CASE /\ Reports /\ handles' \in [Keys -> {"null", "open", "closed"}]
           /\ faults' \in 0..MaxFaults
  <2>1. pc' \in AppPcs \cup FirmwarePcs
    BY <1>0, FailsEffect DEF AppPcs
  <2> QED  BY <1>0, <2>1, FailsEffect
<1>1. CASE Fails /\ handles' \in [Keys -> {"null", "open", "closed"}]
  BY <1>0, <1>1, SelfBootAssumption DEF Fails
<1>2. ASSUME NEW next \in AppPcs \cup FirmwarePcs, NEW printed \in SUBSET Messages,
             Proceed(next, printed)
      PROVE  TypeOK'
  BY <1>2 DEF Proceed, keyVars, fwVars, budget
<1>3. CASE Load
  BY <1>3 DEF Load, StartImage, programVars, AppPcs, FirmwarePcs
<1>4. CASE EnterSetup
  BY <1>4 DEF EnterSetup, keyVars, fwVars, programVars, budget, FirmwarePcs
<1>5. CASE PowerLoss
  BY <1>5, SelfBootAssumption
     DEF PowerLoss, keyVars, fwVars, programVars, FirmwarePcs
<1>6. CASE Owner
  <2>1. UNCHANGED <<machine, osInd, handles, reboot_msg, shown, faults, crashes>>
        /\ pc' \in {"screen", "load"}
    BY <1>6 DEF Owner, OwnerClearPK, OwnerClearKeys, OwnerRestoreFactoryKeys,
                OwnerCopyFiles, OwnerSwitchSecureBoot, OwnerSwitchMode, LeaveSetup,
                OwnerUnchanged, programVars, budget, fwVars
  <2>2. /\ pk' \in Foreign \cup {Self, NoKey}
        /\ kek' \subseteq Foreign \cup {Self} /\ db' \subseteq Foreign \cup {Self}
        /\ files' \subseteq Keys
    BY <1>6 DEF Owner, OwnerClearPK, OwnerClearKeys, OwnerRestoreFactoryKeys,
                OwnerCopyFiles, OwnerSwitchSecureBoot, OwnerSwitchMode, LeaveSetup,
                keyVars, Store!ClearPK, Store!ClearKeys, Store!RestoreFactoryKeys,
                Store!CopyFiles, Store!Keys, Keys
  <2>3. sbEnabled' \in BOOLEAN /\ mode' \in {"plain", "audit", "deployed"}
    BY <1>6 DEF Owner, OwnerClearPK, OwnerClearKeys, OwnerRestoreFactoryKeys,
                OwnerCopyFiles, OwnerSwitchSecureBoot, OwnerSwitchMode, LeaveSetup,
                fwVars
  <2> QED  BY <2>1, <2>2, <2>3 DEF FirmwarePcs
<1>7. CASE init
  BY <1>0, <1>1, <1>2, <1>7 DEF init, AppPcs
<1>8. CASE boot_exec
  BY <1>1, <1>2, <1>8 DEF boot_exec, AppPcs, FirmwarePcs, Messages
<1>9. CASE boot_self_signed_exists
  BY <1>1, <1>2, <1>9 DEF boot_self_signed_exists, AppPcs, Messages
<1>10. CASE boot_self_signed_mode
  BY <1>1, <1>2, <1>10 DEF boot_self_signed_mode, AppPcs, Messages
<1>11. CASE regist_uefi_keys_begin
  BY <1>1, <1>2, <1>11 DEF regist_uefi_keys_begin, AppPcs
<1>12. CASE uefi_keys_open
  BY <1>1, <1>12 DEF uefi_keys_open, keyVars, fwVars, budget, AppPcs, EnrollPcs
<1>13. CASE regist_uefi_keys_db
  BY <1>1, <1>13, SetSignaturesAdds
     DEF regist_uefi_keys_db, EnrollFails, EnrollUnchanged, programVars, budget,
         AppPcs, EnrollPcs
<1>14. CASE regist_uefi_keys_kek
  BY <1>1, <1>14, SetSignaturesAdds
     DEF regist_uefi_keys_kek, EnrollFails, EnrollUnchanged, programVars, budget,
         AppPcs, EnrollPcs
<1>15. CASE regist_uefi_keys_pk
  BY <1>1, <1>15
     DEF regist_uefi_keys_pk, EnrollFails, EnrollUnchanged, programVars, budget,
         AppPcs, DeletePcs
<1>16. ASSUME NEW k \in Keys, NEW next \in AppPcs, NEW printed \in SUBSET Messages,
              DeleteFile(k, next, printed)
       PROVE  TypeOK'
  BY <1>16, SelfBootAssumption DEF DeleteFile, keyVars, fwVars
<1>17. CASE regist_uefi_keys_delete
  BY <1>16, <1>17
     DEF regist_uefi_keys_delete, TransitionPc, Keys, AppPcs, DeletePcs, Messages
<1>18. ASSUME NEW enable \in BOOLEAN, transition_setup_screen(enable)
       PROVE  TypeOK'
  <2>1. CASE Proceed("setOsInd", IF enable THEN {"activate"} ELSE {"clear"})
    BY <1>2, <2>1 DEF AppPcs, Messages
  <2>2. CASE /\ reset_system({"manualClear"})
             /\ UNCHANGED <<keyVars, fwVars, files, handles, reboot_msg, budget>>
    BY <2>2 DEF reset_system, keyVars, fwVars, budget, AppPcs, Messages
  <2> QED  BY <1>1, <1>18, <2>1, <2>2 DEF transition_setup_screen, is_boot_to_fw_ui
<1>19. CASE set_boot_to_fw_ui
  BY <1>1, <1>19 DEF set_boot_to_fw_ui, reset_system, keyVars, budget,
                     AppPcs, Messages
<1>20. CASE ResetSystem
  BY <1>20 DEF ResetSystem, read_key, keyVars, fwVars, programVars, budget, FirmwarePcs
<1>21. CASE boot_common_key
  BY <1>21 DEF boot_common_key, read_key, keyVars, fwVars, programVars, budget, AppPcs
<1>22. CASE exit_boot_services
  BY <1>1, <1>2, <1>22 DEF exit_boot_services, AppPcs
<1>23. CASE tp_reset_cold
  BY <1>2, <1>23 DEF tp_reset_cold, FirmwarePcs
<1>24. CASE UNCHANGED vars
  BY <1>24 DEF vars
<1> QED
  BY <1>3, <1>4, <1>5, <1>6, <1>7, <1>8, <1>9, <1>10, <1>11, <1>12, <1>13, <1>14,
     <1>15, <1>17, <1>18, <1>19, <1>20, <1>21, <1>22, <1>23, <1>24
     DEF Next, Application

-----------------------------------------------------------------------------
(* The rest of the invariant.  A step that neither enrols nor belongs to   *)
(* the owner leaves the keys and the mode alone; what is left to check is  *)
(* the place it leads to.                                                  *)
Rest == /\ Store!OwnKeyHasChain
        /\ SetupHolds /\ EnrollOrder /\ EnrolledHolds
        /\ AdviceHolds /\ RejectedHolds /\ ModesHold

KeysAndModeUnchanged == UNCHANGED <<machine, pk, kek, db, mode>>

(* A step that touches neither keys nor files keeps the rest of the        *)
(* invariant when it enters no call that presupposes something.            *)
LEMMA QuietStep ==
  ASSUME IInv, KeysAndModeUnchanged,
         pc' \notin SetupPcs \cup DeletePcs \cup {"transitionEnable", "rejected"},
         pc' \in AppPcs /\ "activate" \in shown'
           => pc \in AppPcs /\ ("activate" \in shown \/ pc = "transitionEnable")
  PROVE  Rest'
  BY DEF IInv, Rest, KeysAndModeUnchanged, Store!OwnKeyHasChain, Store!Chain,
         SetupHolds, EnrollOrder, EnrolledHolds, AdviceHolds, RejectedHolds,
         ModesHold, SetupPcs, EnrollPcs

(* A failing call is such a step.                                          *)
LEMMA FailsRest ==
  ASSUME IInv, Reports, pc \in AppPcs
  PROVE  Rest'
  BY FailsEffect, QuietStep
     DEF IInv, KeysAndModeUnchanged, SetupPcs, EnrollPcs, DeletePcs

(* Every action keeps the rest of the invariant.                           *)
LEMMA RestStep ==
  ASSUME IInv, [Next]_vars
  PROVE  Rest'
<1> USE DEF KeysAndModeUnchanged
<1>1. ASSUME NEW next, NEW printed, Proceed(next, printed), pc \in AppPcs,
             next \notin SetupPcs \cup DeletePcs \cup {"transitionEnable", "rejected"},
             "activate" \notin printed \/ pc = "transitionEnable"
      PROVE  Rest'
  BY <1>1, QuietStep DEF Proceed, keyVars, fwVars
<1>2. CASE Load
  <2>1. CASE pc' = "rejected"
    BY <1>2, <2>1
       DEF Load, StartImage, Verified, Enforcing, IInv, Rest, Store!OwnKeyHasChain,
           Store!Chain, SetupHolds, EnrollOrder, EnrolledHolds, AdviceHolds,
           RejectedHolds, ModesHold, SetupPcs, EnrollPcs, DeletePcs, AppPcs
  <2>2. CASE pc' # "rejected"
    <3>1. pc' \notin SetupPcs \cup DeletePcs \cup {"transitionEnable", "rejected"}
      BY <1>2, <2>2 DEF Load, StartImage, SetupPcs, EnrollPcs, DeletePcs
    <3>2. ~(pc' \in AppPcs /\ "activate" \in shown')
      BY <1>2, <2>2 DEF Load, StartImage, AppPcs, EnrollPcs, DeletePcs
    <3> QED  BY <1>2, <3>1, <3>2, QuietStep DEF Load
  <2> QED  BY <2>1, <2>2
<1>3. CASE EnterSetup
  BY <1>3, QuietStep DEF EnterSetup, keyVars, fwVars, SetupPcs, EnrollPcs,
                         DeletePcs, AppPcs
<1>4. CASE PowerLoss
  BY <1>4, QuietStep DEF PowerLoss, keyVars, fwVars, SetupPcs, EnrollPcs,
                         DeletePcs, AppPcs
<1>5. CASE Owner
  <2>1. pc' \in {"screen", "load"} /\ machine' = machine
    BY <1>5 DEF Owner, OwnerClearPK, OwnerClearKeys, OwnerRestoreFactoryKeys,
                OwnerCopyFiles, OwnerSwitchSecureBoot, OwnerSwitchMode, LeaveSetup,
                OwnerUnchanged, fwVars
  <2>2. Store!OwnKeyHasChain'
    BY <1>5, SelfBootAssumption
       DEF IInv, Owner, OwnerClearPK, OwnerClearKeys, OwnerRestoreFactoryKeys,
           OwnerCopyFiles, OwnerSwitchSecureBoot, OwnerSwitchMode, LeaveSetup,
           keyVars, Store!ClearPK, Store!ClearKeys, Store!RestoreFactoryKeys,
           Store!CopyFiles, Store!OwnKeyHasChain, Store!Chain
  <2>3. ModesHold'
    BY <1>5, <2>1
       DEF IInv, Owner, OwnerClearPK, OwnerClearKeys, OwnerRestoreFactoryKeys,
           OwnerCopyFiles, OwnerSwitchSecureBoot, OwnerSwitchMode, LeaveSetup,
           fwVars, ModesHold
  <2> QED
    BY <2>1, <2>2, <2>3
       DEF Rest, SetupHolds, EnrollOrder, EnrolledHolds, AdviceHolds, RejectedHolds,
           SetupPcs, EnrollPcs, DeletePcs, AppPcs
<1>6. CASE init \/ boot_exec \/ boot_self_signed_exists \/ ResetSystem
             \/ boot_common_key \/ exit_boot_services \/ tp_reset_cold
  <2>1. pc \in AppPcs
    BY <1>6 DEF Fails, init, boot_exec, boot_self_signed_exists, ResetSystem, read_key,
                boot_common_key, exit_boot_services, tp_reset_cold, AppPcs
  <2>2. CASE ResetSystem \/ boot_common_key
    <3>1. /\ KeysAndModeUnchanged /\ UNCHANGED shown
          /\ pc' \in {"readKey", "load", "commonKey", "exit"}
      BY <2>2 DEF ResetSystem, boot_common_key, read_key, keyVars, fwVars, programVars
    <3> QED  BY <2>1, <3>1, QuietStep DEF SetupPcs, EnrollPcs, DeletePcs
  <2>3. CASE Reports
    BY <2>1, <2>3, FailsRest
  <2> QED
    BY <1>1, <1>6, <2>1, <2>2, <2>3
       DEF Fails, init, boot_exec, boot_self_signed_exists,
           exit_boot_services, tp_reset_cold, SetupPcs, EnrollPcs, DeletePcs
<1>7. CASE boot_self_signed_mode
  <2>1. pc \in AppPcs
    BY <1>7 DEF Fails, boot_self_signed_mode, AppPcs
  <2>2. CASE ModeOf(FirmwareStore) = "setup" /\ Proceed("begin", {})
    <3>1. pk = NoKey /\ mode = "plain"
      BY <2>2, SetupModeMeansNoKey DEF IInv
    <3> QED
      BY <2>1, <2>2, <3>1
         DEF Proceed, keyVars, fwVars, IInv, Rest, Store!OwnKeyHasChain, Store!Chain,
             SetupHolds, EnrollOrder, EnrolledHolds, AdviceHolds, RejectedHolds,
             ModesHold, DeletePcs
  <2>3. CASE Reports
    BY <2>1, <2>3, FailsRest
  <2> QED
    BY <1>1, <1>7, <2>1, <2>2, <2>3
       DEF Fails, boot_self_signed_mode, SetupPcs, EnrollPcs, DeletePcs
<1>8. CASE regist_uefi_keys_begin \/ uefi_keys_open
  <2>1. pc \in AppPcs /\ pc \in SetupPcs
    BY <1>8 DEF Fails, regist_uefi_keys_begin, uefi_keys_open, AppPcs, SetupPcs
  <2>2. CASE Reports
    BY <2>1, <2>2, FailsRest
  <2>3. CASE ~Reports
    <3>1. UNCHANGED <<machine, pk, kek, db, mode, shown>>
          /\ pc' \in {"open", "enrollDB"}
      BY <1>8, <2>3 DEF Fails, regist_uefi_keys_begin, uefi_keys_open, Proceed,
                        keyVars, fwVars
    <3> QED
      BY <2>1, <3>1
         DEF IInv, Rest, Store!OwnKeyHasChain, Store!Chain, SetupHolds, EnrollOrder,
             EnrolledHolds, AdviceHolds, RejectedHolds, ModesHold, DeletePcs
  <2> QED  BY <2>2, <2>3
<1>9. CASE regist_uefi_keys_db \/ regist_uefi_keys_kek \/ regist_uefi_keys_pk
  <2>1. pc \in AppPcs /\ pc \in SetupPcs
    BY <1>9 DEF regist_uefi_keys_db, regist_uefi_keys_kek, regist_uefi_keys_pk,
                AppPcs, SetupPcs, EnrollPcs
  <2>2. CASE Reports
    BY <2>1, <2>2, FailsRest
  <2>3. CASE ~Reports
    BY <1>9, <2>1, <2>3, SetSignaturesAdds, SelfBootAssumption
       DEF Fails, regist_uefi_keys_db, regist_uefi_keys_kek, regist_uefi_keys_pk,
           EnrollFails, EnrollUnchanged, programVars,
           IInv, Rest, Store!OwnKeyHasChain, Store!Chain, SetupHolds, EnrollOrder,
           EnrolledHolds, AdviceHolds, RejectedHolds, ModesHold,
           SetupPcs, EnrollPcs, DeletePcs
  <2> QED  BY <2>2, <2>3
<1>10. CASE regist_uefi_keys_delete
  BY <1>10
     DEF regist_uefi_keys_delete, DeleteFile, TransitionPc, keyVars, fwVars,
         IInv, Rest, Store!OwnKeyHasChain, Store!Chain, SetupHolds, EnrollOrder,
         EnrolledHolds, AdviceHolds, RejectedHolds, ModesHold,
         SetupPcs, EnrollPcs, DeletePcs
<1>11. ASSUME NEW enable \in BOOLEAN, transition_setup_screen(enable)
       PROVE  Rest'
  <2>1. pc \in AppPcs /\ (enable => pc = "transitionEnable")
    BY <1>11 DEF Fails, transition_setup_screen, is_boot_to_fw_ui, TransitionPc, AppPcs
  <2>2. CASE Proceed("setOsInd", IF enable THEN {"activate"} ELSE {"clear"})
    BY <1>1, <2>1, <2>2 DEF SetupPcs, EnrollPcs, DeletePcs
  <2>3. CASE /\ reset_system({"manualClear"})
             /\ UNCHANGED <<keyVars, fwVars, files, handles, reboot_msg, budget>>
    BY <2>1, <2>3, QuietStep
       DEF reset_system, keyVars, fwVars, SetupPcs, EnrollPcs, DeletePcs
  <2>4. CASE Reports
    BY <2>1, <2>4, FailsRest
  <2> QED  BY <1>11, <2>2, <2>3, <2>4 DEF Fails, transition_setup_screen, is_boot_to_fw_ui
<1>12. CASE set_boot_to_fw_ui
  <2>1. pc \in AppPcs
    BY <1>12 DEF Fails, set_boot_to_fw_ui, AppPcs
  <2>2. CASE Reports
    BY <2>1, <2>2, FailsRest
  <2>3. CASE ~Reports
    BY <1>12, <2>1, <2>3, QuietStep
       DEF Fails, set_boot_to_fw_ui, reset_system, keyVars, SetupPcs, EnrollPcs, DeletePcs
  <2> QED  BY <2>2, <2>3
<1>13. CASE UNCHANGED vars
  BY <1>13
     DEF vars, IInv, Rest, Store!OwnKeyHasChain, Store!Chain, SetupHolds,
         EnrollOrder, EnrolledHolds, AdviceHolds, RejectedHolds, ModesHold
<1> QED
  BY <1>2, <1>3, <1>4, <1>5, <1>6, <1>7, <1>8, <1>9, <1>10, <1>11, <1>12, <1>13
     DEF Next, Application

(* Every step keeps the invariant.                                         *)
LEMMA StepIInv == IInv /\ [Next]_vars => IInv'
  BY TypeStep, RestStep DEF IInv, Rest

(* The invariant holds for all machines, owners, failures and crashes.     *)
THEOREM Invariance == Spec => []IInv
  BY InitIInv, StepIInv, PTL DEF Spec

-----------------------------------------------------------------------------
(* The safety properties. *)

(* Every variable keeps its type for every machine and budget.             *)
THEOREM TypeCorrect == Spec => []TypeOK
<1>1. IInv => TypeOK
  BY DEF IInv
<1> QED  BY <1>1, Invariance, PTL

(* The advice to switch secure boot on is given only with the whole chain  *)
(* of the application's own keys in the firmware.                          *)
THEOREM ActivateIsSafeHolds == Spec => []ActivateIsSafe
<1>1. IInv => ActivateIsSafe
  BY DEF IInv, AdviceHolds, Store!OwnKeyHasChain, ActivateIsSafe
<1> QED  BY <1>1, Invariance, PTL

(* With the application's own platform key the firmware never refuses it.  *)
THEOREM OwnKeyNeverRejectsHolds == Spec => []OwnKeyNeverRejects
<1>1. IInv => OwnKeyNeverRejects
  BY DEF IInv, RejectedHolds, Store!OwnKeyHasChain, Store!Chain, OwnKeyNeverRejects
<1> QED  BY <1>1, Invariance, PTL

(* What each kind of step does to the keys and the files. *)
LEMMA KeySteps ==
  ASSUME [Next]_vars
  PROVE  \/ UNCHANGED <<pk, kek, db, files>>
         \/ pc = "screen" /\ Owner
         \/ /\ pc = "enrollDB" /\ db' = db \cup {Self}
            /\ UNCHANGED <<pk, kek, files>>
         \/ /\ pc = "enrollKEK" /\ kek' = kek \cup {Self}
            /\ UNCHANGED <<pk, db, files>>
         \/ /\ pc = "enrollPK" /\ pk' = Self
            /\ UNCHANGED <<kek, db, files>>
         \/ /\ pc \in DeletePcs /\ \E k \in Keys : files' = files \ {k}
            /\ UNCHANGED <<pk, kek, db>>
<1> USE DEF keyVars, fwVars
<1>1. CASE Load \/ EnterSetup \/ PowerLoss \/ UNCHANGED vars
  BY <1>1 DEF Load, EnterSetup, PowerLoss, vars
<1>2. CASE Owner
  BY <1>2 DEF Owner, OwnerClearPK, OwnerClearKeys, OwnerRestoreFactoryKeys,
              OwnerCopyFiles, OwnerSwitchSecureBoot, OwnerSwitchMode, LeaveSetup
<1>3. CASE Reports
  BY <1>3 DEF Reports
<1>4. CASE init \/ boot_exec \/ boot_self_signed_exists \/ boot_self_signed_mode
             \/ regist_uefi_keys_begin \/ uefi_keys_open
  BY <1>3, <1>4 DEF Fails, init, boot_exec, boot_self_signed_exists,
                    boot_self_signed_mode, regist_uefi_keys_begin,
                    uefi_keys_open, Proceed
<1>5. CASE regist_uefi_keys_db \/ regist_uefi_keys_kek \/ regist_uefi_keys_pk
  BY <1>3, <1>5, SetSignaturesAdds
     DEF Fails, regist_uefi_keys_db, regist_uefi_keys_kek, regist_uefi_keys_pk,
         EnrollFails, EnrollUnchanged
<1>6. CASE regist_uefi_keys_delete
  BY <1>6 DEF regist_uefi_keys_delete, DeleteFile, DeletePcs, Keys
<1>7. CASE \/ \E enable \in BOOLEAN : transition_setup_screen(enable)
           \/ set_boot_to_fw_ui
  BY <1>3, <1>7 DEF Fails, transition_setup_screen, is_boot_to_fw_ui, set_boot_to_fw_ui, Proceed
<1>8. CASE \/ ResetSystem \/ boot_common_key \/ exit_boot_services
           \/ tp_reset_cold
  BY <1>3, <1>8 DEF Fails, ResetSystem, read_key, boot_common_key, exit_boot_services,
                    tp_reset_cold, Proceed
<1> QED
  BY <1>1, <1>2, <1>4, <1>5, <1>6, <1>7, <1>8 DEF Next, Application

(* The keys are written only while the platform is in plain setup mode.    *)
THEOREM EnrollOnlyInSetupModeHolds == Spec => EnrollOnlyInSetupMode
<1>1. IInv /\ [Next]_vars =>
        [(<<pk, kek, db>>' # <<pk, kek, db>> /\ pc # "screen")
           => (pk = NoKey /\ mode = "plain" /\ ~Enforcing)]_vars
  BY KeySteps
     DEF IInv, SetupHolds, SetupPcs, EnrollPcs, Enforcing
<1> QED  BY <1>1, Invariance, PTL DEF Spec, EnrollOnlyInSetupMode

(* Enrolment never drops a certificate from KEK or db.                     *)
THEOREM ForeignCertsKeptHolds == Spec => ForeignCertsKept
<1>1. [Next]_vars =>
        [pc # "screen" => (kek \subseteq kek' /\ db \subseteq db')]_vars
  BY KeySteps
<1> QED  BY <1>1, PTL DEF Spec, ForeignCertsKept

(* SelfBoot implements KeyStore: each step is one of KeyStore's or leaves  *)
(* the keys and the files alone.                                           *)
THEOREM ImplementsKeyStore == Spec => KeyStorePromise
<1>1. Init => Store!StoreInit
  BY DEF Init, Store!StoreInit, Keys, Store!Keys
<1>2. IInv /\ [Next]_vars => [Store!StoreNext]_(Store!storeVars)
  <2> SUFFICES ASSUME IInv, [Next]_vars
               PROVE  Store!StoreNext \/ UNCHANGED Store!storeVars
    OBVIOUS
  <2> USE DEF Store!storeVars, Store!StoreNext
  <2>1. CASE UNCHANGED <<pk, kek, db, files>>
    BY <2>1
  <2>2. CASE Owner
    BY <2>2 DEF Owner, OwnerClearPK, OwnerClearKeys, OwnerRestoreFactoryKeys,
                OwnerCopyFiles, OwnerSwitchSecureBoot, OwnerSwitchMode, LeaveSetup,
                keyVars
  <2>3. CASE pc = "enrollDB" /\ db' = db \cup {Self} /\ UNCHANGED <<pk, kek, files>>
    BY <2>3 DEF IInv, SetupHolds, SetupPcs, EnrollPcs, Store!AddDB
  <2>4. CASE pc = "enrollKEK" /\ kek' = kek \cup {Self} /\ UNCHANGED <<pk, db, files>>
    BY <2>4 DEF IInv, SetupHolds, EnrollOrder, SetupPcs, EnrollPcs, Store!AddKEK
  <2>5. CASE pc = "enrollPK" /\ pk' = Self /\ UNCHANGED <<kek, db, files>>
    BY <2>5 DEF IInv, SetupHolds, EnrollOrder, SetupPcs, EnrollPcs,
                Store!SetPK, Store!Chain
  <2>6. CASE pc \in DeletePcs /\ (\E k \in Keys : files' = files \ {k})
             /\ UNCHANGED <<pk, kek, db>>
    BY <2>6 DEF IInv, EnrolledHolds, Store!OwnKeyHasChain, Store!Consume,
                Keys, Store!Keys
  <2> QED  BY <2>1, <2>2, <2>3, <2>4, <2>5, <2>6, KeySteps
<1> QED  BY <1>1, <1>2, Invariance, PTL DEF Spec, KeyStorePromise, Store!StoreSpec

-----------------------------------------------------------------------------
(* A run of the program: its file handles and what it prints.              *)

(* Before a wait for a key, the announcement of a reboot is still on; only *)
(* set_boot_to_fw_ui turns it off, with the setup screen announced.        *)
MessageHolds ==
  /\ pc \in AppPcs \ {"readKey"} => reboot_msg
  /\ pc = "setOsInd" => shown \cap {"activate", "clear"} # {}

RunInv == HandlesOpenWhenUsed /\ NoSilentWait /\ MessageHolds

(* A failing call announces the reboot.                                    *)
LEMMA FailsMessage ==
  ASSUME RunInv, Reports, pc \in AppPcs \ {"readKey"}
  PROVE  RunInv'
<1>1. pc' = "readKey" /\ reboot_msg' = TRUE /\ "reboot" \in shown'
  BY DEF RunInv, MessageHolds, Reports, error_print, reset_system
<1> QED
  BY <1>1 DEF RunInv, HandlesOpenWhenUsed, NoSilentWait, MessageHolds, EnrollPcs

(* A call that only goes on to the next one, outside the enrolment.        *)
LEMMA ProceedMessage ==
  ASSUME RunInv, NEW next, NEW printed, Proceed(next, printed),
         pc \in AppPcs \ {"readKey"},
         next \notin EnrollPcs \cup DeletePcs \cup {"readKey"},
         next = "setOsInd" => printed \cap {"activate", "clear"} # {}
  PROVE  RunInv'
  BY DEF RunInv, HandlesOpenWhenUsed, NoSilentWait, MessageHolds, Proceed,
         EnrollPcs, DeletePcs

(* The enrolment and the deletions find the handles open.                  *)
LEMMA EnrollMessage ==
  ASSUME TypeOK, RunInv,
         \/ uefi_keys_open \/ regist_uefi_keys_db \/ regist_uefi_keys_kek
         \/ regist_uefi_keys_pk \/ regist_uefi_keys_delete
  PROVE  RunInv'
<1>1. CASE Reports
  BY <1>1, FailsMessage DEF Fails, uefi_keys_open, regist_uefi_keys_db,
     regist_uefi_keys_kek, regist_uefi_keys_pk, regist_uefi_keys_delete,
     DeleteFile, AppPcs, EnrollPcs, DeletePcs
<1>2. CASE uefi_keys_open /\ ~Reports
  <2>1. /\ pc = "open" /\ pc' = "enrollDB" /\ UNCHANGED <<reboot_msg, shown>>
        /\ \A k \in Keys : handles'[k] = "open"
    BY <1>2 DEF Fails, uefi_keys_open
  <2> QED
    BY <2>1 DEF RunInv, HandlesOpenWhenUsed, NoSilentWait, MessageHolds, AppPcs
<1>3. CASE /\ regist_uefi_keys_db \/ regist_uefi_keys_kek \/ regist_uefi_keys_pk
           /\ ~Reports
  <2>1. /\ pc \in EnrollPcs /\ pc' \in {"enrollKEK", "enrollPK", "deleteDB"}
        /\ UNCHANGED <<handles, reboot_msg, shown>>
    BY <1>3 DEF Fails, regist_uefi_keys_db, regist_uefi_keys_kek, regist_uefi_keys_pk,
                EnrollFails, EnrollUnchanged, programVars, EnrollPcs
  <2> QED
    BY <2>1 DEF RunInv, HandlesOpenWhenUsed, NoSilentWait, MessageHolds,
                AppPcs, EnrollPcs
<1>4. CASE regist_uefi_keys_delete
  <2>1. ASSUME NEW k \in Keys, NEW next, NEW printed, DeleteFile(k, next, printed)
        PROVE  /\ pc' = next /\ UNCHANGED reboot_msg
               /\ \A j \in Keys \ {k} : handles'[j] = handles[j]
    BY <2>1 DEF DeleteFile, TypeOK
  <2>2. CASE pc = "deleteDB" /\ DeleteFile("DB", "deletePK", {})
    <3>1. /\ pc' = "deletePK" /\ reboot_msg' = reboot_msg
          /\ handles'["PK"] = handles["PK"] /\ handles'["KEK"] = handles["KEK"]
      BY <2>1, <2>2 DEF Keys
    <3> QED
      BY <2>2, <3>1 DEF RunInv, HandlesOpenWhenUsed, NoSilentWait,
                        MessageHolds, AppPcs, EnrollPcs, DeletePcs, Keys
  <2>3. CASE pc = "deletePK" /\ DeleteFile("PK", "deleteKEK", {})
    <3>1. /\ pc' = "deleteKEK" /\ reboot_msg' = reboot_msg
          /\ handles'["KEK"] = handles["KEK"]
      BY <2>1, <2>3 DEF Keys
    <3> QED
      BY <2>3, <3>1 DEF RunInv, HandlesOpenWhenUsed, NoSilentWait,
                        MessageHolds, AppPcs, EnrollPcs, DeletePcs
  <2>4. CASE pc = "deleteKEK" /\ DeleteFile("KEK", TransitionPc(TRUE), {"success"})
    <3>1. pc' = "transitionEnable" /\ reboot_msg' = reboot_msg
      BY <2>1, <2>4 DEF Keys, TransitionPc
    <3> QED
      BY <2>4, <3>1 DEF RunInv, HandlesOpenWhenUsed, NoSilentWait,
                        MessageHolds, AppPcs, EnrollPcs, DeletePcs
  <2> QED  BY <1>4, <2>2, <2>3, <2>4 DEF regist_uefi_keys_delete
<1> QED  BY <1>1, <1>2, <1>3, <1>4

(* Every step keeps the handles and the messages as they must be.          *)
LEMMA RunStep == TypeOK /\ RunInv /\ [Next]_vars => RunInv'
<1> SUFFICES ASSUME TypeOK, RunInv, [Next]_vars PROVE RunInv'
  OBVIOUS
<1>1. CASE Reports /\ pc \in AppPcs \ {"readKey"}
  BY <1>1, FailsMessage
<1>2. CASE /\ ~Reports
           /\ init \/ boot_exec \/ boot_self_signed_exists
                \/ boot_self_signed_mode \/ regist_uefi_keys_begin
                \/ exit_boot_services \/ tp_reset_cold
  <2>1. /\ pc \in AppPcs \ {"readKey"}
        /\ \E next \in AppPcs \cup FirmwarePcs, printed \in SUBSET Messages :
             /\ Proceed(next, printed)
             /\ next \notin EnrollPcs \cup DeletePcs \cup {"readKey", "setOsInd"}
    BY <1>2 DEF Fails, init, boot_exec, boot_self_signed_exists, boot_self_signed_mode,
       regist_uefi_keys_begin, exit_boot_services, tp_reset_cold,
       AppPcs, FirmwarePcs, EnrollPcs, DeletePcs, Messages
  <2> QED  BY <2>1, ProceedMessage
<1>3. CASE \/ uefi_keys_open \/ regist_uefi_keys_db \/ regist_uefi_keys_kek
           \/ regist_uefi_keys_pk \/ regist_uefi_keys_delete
  BY <1>3, EnrollMessage
<1>4. CASE ~Reports /\ \E enable \in BOOLEAN : transition_setup_screen(enable)
  <2> PICK enable \in BOOLEAN : ~Reports /\ transition_setup_screen(enable)
    BY <1>4
  <2>1. pc \in AppPcs \ {"readKey"}
    BY DEF Fails, transition_setup_screen, is_boot_to_fw_ui, TransitionPc, AppPcs
  <2>2. CASE Proceed("setOsInd", IF enable THEN {"activate"} ELSE {"clear"})
    BY <2>1, <2>2, ProceedMessage DEF EnrollPcs, DeletePcs
  <2>3. CASE UNCHANGED <<handles, reboot_msg>> /\ reset_system({"manualClear"})
    <3>1. pc' = "readKey" /\ "reboot" \in shown'
      BY <2>1, <2>3 DEF reset_system, RunInv, MessageHolds
    <3> QED
      BY <3>1 DEF RunInv, HandlesOpenWhenUsed, NoSilentWait, MessageHolds, EnrollPcs
  <2> QED  BY <2>2, <2>3 DEF Fails, transition_setup_screen, is_boot_to_fw_ui
<1>5. CASE ~Reports /\ set_boot_to_fw_ui
  <2>1. pc = "setOsInd" /\ pc' = "readKey" /\ osInd' /\ shown \subseteq shown'
    BY <1>5 DEF Fails, set_boot_to_fw_ui, reset_system
  <2> QED
    BY <2>1 DEF RunInv, HandlesOpenWhenUsed, NoSilentWait, MessageHolds, EnrollPcs
<1>6. CASE Load \/ EnterSetup \/ PowerLoss \/ Owner
  <2>1. pc' \in FirmwarePcs \/ (pc' = "init" /\ reboot_msg')
    BY <1>6 DEF Load, StartImage, EnterSetup, PowerLoss, Owner,
       OwnerClearPK, OwnerClearKeys, OwnerRestoreFactoryKeys, OwnerCopyFiles,
       OwnerSwitchSecureBoot, OwnerSwitchMode, LeaveSetup, OwnerUnchanged,
       FirmwarePcs
  <2> QED
    BY <2>1 DEF RunInv, HandlesOpenWhenUsed, NoSilentWait, MessageHolds,
       FirmwarePcs, AppPcs, EnrollPcs, DeletePcs
<1>11. CASE ResetSystem \/ boot_common_key
  <2>1. \/ pc' = "load" \/ (pc = "commonKey" /\ pc' \in {"commonKey", "exit"})
        \/ pc = "readKey" /\ pc' = "readKey"
    BY <1>11 DEF ResetSystem, boot_common_key, read_key
  <2>2. UNCHANGED <<handles, reboot_msg, shown, osInd>>
    BY <1>11 DEF ResetSystem, boot_common_key, read_key, programVars, fwVars
  <2> QED
    BY <2>1, <2>2 DEF RunInv, HandlesOpenWhenUsed, NoSilentWait, MessageHolds,
       AppPcs, EnrollPcs, DeletePcs
<1>7. CASE UNCHANGED vars
  BY <1>7 DEF vars, RunInv, HandlesOpenWhenUsed, NoSilentWait, MessageHolds
<1>8. Reports => pc' = "readKey"
  BY DEF Reports, error_print, reset_system
<1>9. Application /\ Reports => pc \in AppPcs
  BY DEF Fails, Application, init, boot_exec, boot_self_signed_exists,
     boot_self_signed_mode, regist_uefi_keys_begin, uefi_keys_open,
     regist_uefi_keys_db, regist_uefi_keys_kek, regist_uefi_keys_pk,
     regist_uefi_keys_delete, transition_setup_screen, is_boot_to_fw_ui, TransitionPc,
     set_boot_to_fw_ui, ResetSystem, read_key, boot_common_key, exit_boot_services,
     tp_reset_cold, AppPcs, EnrollPcs, DeletePcs
<1>10. Application /\ pc = "readKey" => ResetSystem
  BY DEF Fails, Application, init, boot_exec, boot_self_signed_exists,
     boot_self_signed_mode, regist_uefi_keys_begin, uefi_keys_open,
     regist_uefi_keys_db, regist_uefi_keys_kek, regist_uefi_keys_pk,
     regist_uefi_keys_delete, transition_setup_screen, is_boot_to_fw_ui, TransitionPc,
     set_boot_to_fw_ui, boot_common_key, read_key, exit_boot_services, tp_reset_cold
<1> QED
  BY <1>1, <1>2, <1>3, <1>4, <1>5, <1>6, <1>7, <1>9, <1>10, <1>11 DEF Next, Application

(* The run's invariant from the first boot on.                             *)
LEMMA RunInvariance == Spec => []RunInv
<1>1. Init => RunInv
  BY DEF Init, RunInv, HandlesOpenWhenUsed, NoSilentWait, MessageHolds, AppPcs,
     EnrollPcs, DeletePcs
<1> QED  BY <1>1, RunStep, TypeCorrect, PTL DEF Spec

(* regist_uefi_keys never uses a handle that is not open.                  *)
THEOREM HandlesOpenWhenUsedHolds == Spec => []HandlesOpenWhenUsed
<1>1. RunInv => HandlesOpenWhenUsed
  BY DEF RunInv
<1> QED  BY <1>1, RunInvariance, PTL

(* Every wait for a key has been announced.                                *)
THEOREM NoSilentWaitHolds == Spec => []NoSilentWait
<1>1. RunInv => NoSilentWait
  BY DEF RunInv
<1> QED  BY <1>1, RunInvariance, PTL

-----------------------------------------------------------------------------
(* What follows from KeyStore's promise, whatever program keeps it.        *)

\* A step of the store keeps the chain.
LEMMA StoreStep ==
  ASSUME Store!OwnKeyHasChain, [Store!StoreNext]_(Store!storeVars)
  PROVE  Store!OwnKeyHasChain'
<1> USE SelfBootAssumption DEF Store!OwnKeyHasChain, Store!Chain
<1>1. CASE UNCHANGED Store!storeVars
  BY <1>1 DEF Store!storeVars
<1>2. CASE Store!AddDB \/ Store!AddKEK
  BY <1>2 DEF Store!AddDB, Store!AddKEK
<1>3. CASE Store!SetPK \/ \E k \in Store!Keys : Store!Consume(k)
  BY <1>3 DEF Store!SetPK, Store!Consume
<1>4. CASE Store!ClearPK \/ Store!ClearKeys
  BY <1>4 DEF Store!ClearPK, Store!ClearKeys
<1>5. CASE Store!RestoreFactoryKeys \/ Store!CopyFiles
  BY <1>5 DEF Store!RestoreFactoryKeys, Store!CopyFiles
<1> QED  BY <1>1, <1>2, <1>3, <1>4, <1>5 DEF Store!StoreNext

(* KeyStore's steps keep a chain below the owner's own platform key, so a  *)
(* program that implements KeyStore, as efi_main.c does, never leaves a    *)
(* machine that cannot verify it.                                          *)
THEOREM StoreKeepsChain == Store!StoreSpec => []Store!OwnKeyHasChain
<1>1. Store!StoreInit => Store!OwnKeyHasChain
  BY SelfBootAssumption DEF Store!StoreInit, Store!OwnKeyHasChain
<1> QED  BY <1>1, StoreStep, PTL DEF Store!StoreSpec

-----------------------------------------------------------------------------
(* The guided owner is an owner. *)

\* Each step of the guided owner is one of any owner.
LEMMA GuidedStep == [GuidedNext]_vars => [Next]_vars
  BY DEF GuidedNext, GuidedEnter, GuidedOwner, Next, Owner

(* The guided procedure of README.md is a restriction of SelfBoot, so that *)
(* what holds of every owner holds in it.                                  *)
THEOREM GuidedIsSelfBoot == GuidedSpec => Spec
  BY GuidedStep, PTL DEF GuidedSpec, Spec

-----------------------------------------------------------------------------
(* The guided procedure does not undo what it has reached. *)

(* The owner does not touch the mode; a request for the setup screen does  *)
(* not outlive the next start; and a program that goes on to boot with its *)
(* own keys in force has found a certificate file missing.                 *)
GuidedHolds ==
  /\ mode = "plain"
  /\ osInd => pc \in {"readKey", "load", "screen"}
  /\ pc \in {"exists", "mode", "begin", "open"} \cup EnrollPcs \/ pk = Self
       => machine.name = "BOOTX64.EFI"
  /\ pc \in {"commonKey", "exit", "reset_cold"} /\ Enforcing /\ pk = Self
       => files # Keys

Secured ==
  /\ Enforcing /\ pk = Self /\ Self \in db
  /\ ~osInd /\ files # Keys /\ machine.name = "BOOTX64.EFI"
  /\ pc \in {"load", "init", "boot_exec", "exists", "readKey", "commonKey", "exit",
             "reset_cold"}

(* With a platform key and no UEFI 2.5 mode, secure_boot_mode.c knows the  *)
(* mode.                                                                   *)
LEMMA KeyMeansUserMode ==
  ASSUME mode = "plain", machine.sb, pk # NoKey
  PROVE  ModeOf(FirmwareStore) # "unknown"
<1> DEFINE S == FirmwareStore
<1>1. get_PK(S) = 1
  BY DEF get_PK, FirmwareStore
<1>2. get_variable(S, "SetupMode") = 0
  <2>1. "SetupMode" \in DOMAIN S /\ S["SetupMode"] = Bit(pk = NoKey)
    BY DEF FirmwareStore
  <2> QED  BY <2>1 DEF get_variable, Bit
<1>3. get_variable(S, "AuditMode") = 0
  <2>1. "AuditMode" \in DOMAIN S => S["AuditMode"] = Bit(mode = "audit")
    BY DEF FirmwareStore
  <2> QED  BY <2>1 DEF get_variable, Bit
<1>4. get_variable(S, "DeployedMode") = 0
  <2>1. "DeployedMode" \in DOMAIN S => S["DeployedMode"] = Bit(mode = "deployed")
    BY DEF FirmwareStore
  <2> QED  BY <2>1 DEF get_variable, Bit
<1> HIDE DEF S
<1>5. ModeOf(S) = "user"
  BY <1>1, <1>2, <1>3, <1>4
  DEF ModeOf, is_setup_mode, is_audit_mode, is_deployed_mode, is_user_mode
<1> QED  BY <1>5 DEF S

(* A failing call keeps the mode, the keys and the request.                *)
LEMMA FailsGuided ==
  ASSUME GuidedHolds, Reports
  PROVE  GuidedHolds'
  BY DEF GuidedHolds, Reports, keyVars, fwVars, error_print, reset_system, EnrollPcs, Enforcing

(* The program keeps what the procedure relies on.                         *)
LEMMA ApplicationGuided ==
  ASSUME TypeOK, GuidedHolds, Application
  PROVE  GuidedHolds'
<1> USE DEF GuidedHolds, Enforcing, keyVars, fwVars, EnrollPcs
<1>1. CASE Reports
  BY <1>1, FailsGuided
<1>2. CASE ~Reports
  <2>1. CASE init \/ boot_exec \/ boot_self_signed_exists
    BY <1>2, <2>1 DEF Fails, init, boot_exec, boot_self_signed_exists, Proceed
  <2>2. CASE boot_self_signed_mode
    <3>1. CASE Proceed("commonKey", {"anyKey"}) /\ ModeOf(FirmwareStore) = "unknown"
      <4>1. ~(machine.sb /\ pk # NoKey)
        BY <3>1, KeyMeansUserMode
      <4>2. ~Enforcing'
        BY <3>1, <4>1 DEF Proceed
      <4>3. pc' = "commonKey" /\ UNCHANGED <<machine, mode, osInd, pk>> /\ pc = "mode"
        BY <2>2, <3>1 DEF Fails, Proceed, boot_self_signed_mode
      <4> HIDE DEF Enforcing
      <4> QED  BY <4>2, <4>3
    <3>2. CASE \E next \in {"begin", "transitionClear"} : pc = "mode" /\ Proceed(next, {})
      BY <3>2 DEF Proceed
    <3> QED  BY <1>2, <2>2, <3>1, <3>2 DEF Fails, boot_self_signed_mode
  <2>3. CASE regist_uefi_keys_begin \/ uefi_keys_open
    BY <1>2, <2>3 DEF Fails, regist_uefi_keys_begin, uefi_keys_open, Proceed
  <2>4. CASE regist_uefi_keys_db \/ regist_uefi_keys_kek \/ regist_uefi_keys_pk
    BY <1>2, <2>4 DEF Fails, regist_uefi_keys_db, regist_uefi_keys_kek, regist_uefi_keys_pk,
       EnrollFails, EnrollUnchanged
  <2>5. CASE regist_uefi_keys_delete
    BY <2>5 DEF regist_uefi_keys_delete, DeleteFile, TransitionPc
  <2>6. ASSUME NEW enable \in BOOLEAN, transition_setup_screen(enable)
        PROVE  GuidedHolds'
    BY <1>2, <2>6
    DEF Fails, transition_setup_screen, is_boot_to_fw_ui, TransitionPc, Proceed, reset_system
  <2>7. CASE set_boot_to_fw_ui
    BY <1>2, <2>7 DEF Fails, set_boot_to_fw_ui, reset_system
  <2>8. CASE ResetSystem
    BY <2>8 DEF ResetSystem, read_key
  <2>9. CASE boot_common_key \/ exit_boot_services \/ tp_reset_cold
    BY <1>2, <2>9 DEF Fails, boot_common_key, read_key, exit_boot_services, tp_reset_cold, Proceed
  <2> QED
    BY <2>1, <2>2, <2>3, <2>4, <2>5, <2>6, <2>7, <2>8, <2>9 DEF Application
<1> QED  BY <1>1, <1>2

(* So do the firmware, power losses and the owner.                         *)
LEMMA StepGuided ==
  ASSUME TypeOK, GuidedHolds, [GuidedNext]_vars
  PROVE  GuidedHolds'
<1> USE DEF GuidedHolds, Enforcing, keyVars, fwVars, EnrollPcs
<1>1. CASE UNCHANGED vars
  BY <1>1 DEF vars
<1>2. CASE Load
  BY <1>2 DEF Load, StartImage
<1>3. CASE GuidedEnter \/ PowerLoss
  BY <1>3 DEF GuidedEnter, EnterSetup, PowerLoss
<1>4. CASE GuidedOwner
  <2> USE SelfBootAssumption DEF OwnerUnchanged
  <2>1. CASE OwnerSwitchSecureBoot \/ LeaveSetup
    BY <2>1 DEF OwnerSwitchSecureBoot, LeaveSetup
  <2>2. CASE OwnerClearKeys
    BY <2>2 DEF OwnerClearKeys, Store!ClearKeys
  <2>3. CASE OwnerCopyFiles
    BY <2>3 DEF OwnerCopyFiles, Store!CopyFiles
  <2> QED  BY <1>4, <2>1, <2>2, <2>3 DEF GuidedOwner
<1> QED  BY <1>1, <1>2, <1>3, <1>4, ApplicationGuided DEF GuidedNext

(* No step of the procedure leads out of a boot with one's own keys.       *)
LEMMA StepSecured ==
  ASSUME TypeOK, Secured, [GuidedNext]_vars
  PROVE  Secured'
<1> USE DEF Secured, Enforcing, keyVars, fwVars
<1>1. CASE UNCHANGED vars
  BY <1>1 DEF vars
<1>2. CASE Load
  BY <1>2 DEF Load, StartImage, Verified
<1>3. CASE PowerLoss
  BY <1>3 DEF PowerLoss
<1>4. CASE Reports
  BY <1>4 DEF Reports, error_print, reset_system
<1>5. CASE Application /\ ~Reports
  <2> DEFINE Kept == UNCHANGED <<machine, pk, db, sbEnabled, osInd, files>>
  <2>1. CASE init \/ boot_exec \/ boot_self_signed_exists
    <3>1. Kept
      BY <1>5, <2>1 DEF Fails, init, boot_exec, boot_self_signed_exists, Proceed
    <3>2. pc' \in {"boot_exec", "exists", "commonKey"}
      BY <1>5, <2>1 DEF Fails, init, boot_exec, boot_self_signed_exists, Proceed
    <3> QED  BY <3>1, <3>2
  <2>2. CASE ResetSystem
    BY <2>2 DEF ResetSystem, read_key
  <2>3. CASE boot_common_key \/ exit_boot_services \/ tp_reset_cold
    <3>1. Kept
      BY <1>5, <2>3 DEF Fails, boot_common_key, read_key, exit_boot_services, tp_reset_cold, Proceed
    <3>2. pc' \in {"commonKey", "exit", "reset_cold", "load"}
      BY <1>5, <2>3 DEF Fails, boot_common_key, read_key, exit_boot_services, tp_reset_cold, Proceed
    <3> QED  BY <3>1, <3>2
  <2>4. ~( \/ boot_self_signed_mode \/ regist_uefi_keys_begin \/ uefi_keys_open
           \/ regist_uefi_keys_db \/ regist_uefi_keys_kek \/ regist_uefi_keys_pk
           \/ regist_uefi_keys_delete \/ set_boot_to_fw_ui
           \/ \E enable \in BOOLEAN : transition_setup_screen(enable) )
    BY DEF Fails, boot_self_signed_mode, regist_uefi_keys_begin, uefi_keys_open,
       regist_uefi_keys_db, regist_uefi_keys_kek, regist_uefi_keys_pk,
       regist_uefi_keys_delete, set_boot_to_fw_ui, transition_setup_screen,
       is_boot_to_fw_ui, TransitionPc
  <2> QED  BY <1>5, <2>1, <2>2, <2>3, <2>4 DEF Application
<1>6. ~GuidedEnter
  BY DEF GuidedEnter, EnterSetup, Verified
<1>7. ~GuidedOwner
  BY DEF GuidedOwner, OwnerSwitchSecureBoot, OwnerClearKeys, OwnerCopyFiles, LeaveSetup
<1> QED  BY <1>1, <1>2, <1>3, <1>4, <1>5, <1>6, <1>7 DEF GuidedNext

(* README.md's procedure keeps what it has reached, for any number of      *)
(* failures and power losses: ProcedureEnds is for good.                   *)
THEOREM StaysSecureHolds == GuidedSpec => StaysSecure
<1>1. Init => GuidedHolds
  BY SelfBootAssumption DEF Init, GuidedHolds, EnrollPcs
<1>2. TypeOK /\ GuidedHolds /\ [GuidedNext]_vars => GuidedHolds'
  BY StepGuided
<1>3. IInv /\ GuidedHolds /\ SecureBooted => Secured
  BY DEF IInv, GuidedHolds, SecureBooted, Secured, Store!OwnKeyHasChain, Store!Chain
<1>4. TypeOK /\ Secured /\ [GuidedNext]_vars => Secured'
  BY StepSecured
<1>5. Secured => Enforcing /\ pk = Self /\ pc \in AppPcs \cup {"load"}
  BY DEF Secured, AppPcs
<1>6. GuidedSpec => []IInv
  BY GuidedIsSelfBoot, Invariance, PTL
<1>7. IInv => TypeOK
  BY DEF IInv
<1> QED
  BY <1>1, <1>2, <1>3, <1>4, <1>5, <1>6, <1>7, PTL DEF GuidedSpec, StaysSecure

-----------------------------------------------------------------------------
(* The end of a run. *)

(* How many calls a run of the program can still make, at the most.        *)
CallsLeft ==
  CASE pc = "init"             -> 16
    [] pc = "boot_exec"        -> 15
    [] pc = "exists"           -> 14
    [] pc = "mode"             -> 13
    [] pc = "begin"            -> 12
    [] pc = "open"             -> 11
    [] pc = "enrollDB"         -> 10
    [] pc = "enrollKEK"        -> 9
    [] pc = "enrollPK"         -> 8
    [] pc = "deleteDB"         -> 7
    [] pc = "deletePK"         -> 6
    [] pc \in {"deleteKEK", "commonKey"}                -> 5
    [] pc \in {"transitionEnable", "transitionClear"}   -> 4
    [] pc = "exit"             -> 3
    [] pc \in {"setOsInd", "reset_cold"}                -> 2
    [] pc = "readKey"          -> 1
    [] OTHER                   -> 0

\* Each step of a run leaves less of it, or is a wait for a key.
LEMMA StepShortens ==
  ASSUME pc \in AppPcs, Next
  PROVE  CallsLeft' < CallsLeft \/ UNCHANGED vars
<1> USE DEF CallsLeft, Proceed
<1>1. Application \/ PowerLoss
  BY DEF Next, Load, EnterSetup, Owner, OwnerClearPK, OwnerClearKeys,
     OwnerRestoreFactoryKeys, OwnerCopyFiles, OwnerSwitchSecureBoot,
     OwnerSwitchMode, LeaveSetup, AppPcs, EnrollPcs, DeletePcs
<1>2. pc \in AppPcs => CallsLeft >= 1
  BY DEF AppPcs, EnrollPcs, DeletePcs
<1>3. CASE PowerLoss
  <2>1. pc' = "load"
    BY <1>3 DEF PowerLoss
  <2> QED  BY <1>2, <2>1
<1>4. Reports => pc' = "readKey"
  BY DEF Reports, error_print, reset_system
<1>5. CASE init \/ boot_exec \/ boot_self_signed_exists \/ boot_self_signed_mode
             \/ regist_uefi_keys_begin \/ uefi_keys_open
  BY <1>4, <1>5 DEF Fails, init, boot_exec, boot_self_signed_exists, boot_self_signed_mode,
     regist_uefi_keys_begin, uefi_keys_open
<1>6. CASE regist_uefi_keys_db \/ regist_uefi_keys_kek \/ regist_uefi_keys_pk
  BY <1>4, <1>6 DEF Fails, regist_uefi_keys_db, regist_uefi_keys_kek, regist_uefi_keys_pk,
     EnrollFails
<1>7. CASE regist_uefi_keys_delete
  BY <1>7 DEF regist_uefi_keys_delete, DeleteFile, TransitionPc
<1>8. ASSUME NEW enable \in BOOLEAN, transition_setup_screen(enable)
      PROVE  CallsLeft' < CallsLeft
  BY <1>4, <1>8 DEF Fails, transition_setup_screen, is_boot_to_fw_ui, TransitionPc, reset_system
<1>9. CASE set_boot_to_fw_ui
  BY <1>4, <1>9 DEF Fails, set_boot_to_fw_ui, reset_system
<1>10. CASE exit_boot_services \/ tp_reset_cold
  BY <1>4, <1>10 DEF Fails, exit_boot_services, tp_reset_cold
<1>11. CASE ResetSystem \/ boot_common_key
  <2>1. CASE pc' = pc
    BY <1>11, <2>1 DEF ResetSystem, boot_common_key, read_key, vars, keyVars, fwVars,
       programVars, budget
  <2>2. CASE pc' # pc
    BY <1>11, <2>2 DEF ResetSystem, boot_common_key, read_key
  <2> QED  BY <2>1, <2>2
<1> QED
  BY <1>1, <1>3, <1>5, <1>6, <1>7, <1>8, <1>9, <1>10, <1>11 DEF Application

(* Every step of a run brings its end nearer, apart from the rounds that   *)
(* wait for a key and change nothing: a run makes at most sixteen calls,   *)
(* with any failures, and then the machine is the firmware's again.        *)
THEOREM RunShortens ==
  Spec => /\ [](CallsLeft \in 0..16 /\ (CallsLeft = 0 <=> pc \in FirmwarePcs))
          /\ [][(pc \in AppPcs) => CallsLeft' < CallsLeft]_vars
<1>1. TypeOK => CallsLeft \in 0..16 /\ (CallsLeft = 0 <=> pc \in FirmwarePcs)
  BY DEF TypeOK, CallsLeft, AppPcs, FirmwarePcs, EnrollPcs, DeletePcs
<1>2. [Next]_vars => [(pc \in AppPcs) => CallsLeft' < CallsLeft]_vars
  BY StepShortens
<1> QED  BY <1>1, <1>2, TypeCorrect, PTL DEF Spec
=============================================================================
