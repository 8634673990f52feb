---------------------------- MODULE MCGuidedBoot ----------------------------
(* GuidedBoot on machines with the name and the firmware the procedure is  *)
(* written for, whose setup screen OsIndications can open, with each kind  *)
(* of keyboard.                                                            *)
EXTENDS GuidedBoot

MCForeign == {"vendor"}

MCMachines == { m \in Machine : /\ m.name = "BOOTX64.EFI" /\ m.sb /\ m.fwUi
                                /\ m.auditSetup = 0 }
=============================================================================
