----------------------------- MODULE MCSelfBoot -----------------------------
(* A small instance of SelfBoot: one foreign owner, each kind of firmware  *)
(* and each file name.                                                     *)
EXTENDS SelfBoot

MCForeign == {"vendor"}

\* The firmware variants with their own behaviour under the name BOOTX64.EFI,
\* one machine for each other file name, and one for each other keyboard.
MCMachines ==
  { m \in Machine : /\ m.auditSetup = 1 => m.uefi25
                    /\ m.uefi25 => m.sb
                    /\ m.name # "BOOTX64.EFI" => m.fwUi /\ m.sb /\ ~m.uefi25
                    /\ m.conIn # "works" =>
                         m.name # "other" /\ m.fwUi /\ m.sb /\ ~m.uefi25 }
=============================================================================
