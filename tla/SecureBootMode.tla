--------------------------- MODULE SecureBootMode ---------------------------
(***************************************************************************)
(* secure_boot_mode.c: the UEFI secure boot mode, read off five variables  *)
(* of the firmware.  A variable store is a function whose domain is the    *)
(* set of the variables that exist.                                        *)
(***************************************************************************)
EXTENDS Naturals

\* The PK is read into one byte: a key that exists answers
\* EFI_BUFFER_TOO_SMALL, which counts as present.
get_PK(store) == IF "PK" \in DOMAIN store THEN 1 ELSE 0

\* EFI_NOT_FOUND leaves the caller's zero in place.
get_variable(store, name) == IF name \in DOMAIN store THEN store[name] ELSE 0

is_setup_mode(pk, audit, deployed, setup, secure) ==
  /\ pk = 0 /\ audit = 0 /\ deployed = 0 /\ setup = 1 /\ secure = 0

is_user_mode(pk, audit, deployed, setup) ==
  /\ pk # 0 /\ audit = 0 /\ deployed = 0 /\ setup = 0

is_audit_mode(pk, audit, deployed, setup, secure) ==
  /\ pk = 0 /\ audit = 1 /\ deployed = 0 /\ setup = 0 /\ secure = 0

is_deployed_mode(pk, audit, deployed, setup) ==
  /\ pk # 0 /\ audit = 0 /\ deployed = 1 /\ setup = 0

\* get_pk_and_mode_variables: the mode the application believes in.  Its
\* result TRUE is "setup"; "unknown" is *is_unknown_mode.
ModeOf(store) ==
  LET pk       == get_PK(store)
      audit    == get_variable(store, "AuditMode")
      deployed == get_variable(store, "DeployedMode")
      setup    == get_variable(store, "SetupMode")
      secure   == get_variable(store, "SecureBoot")
  IN CASE is_audit_mode(pk, audit, deployed, setup, secure) -> "audit"
       [] is_deployed_mode(pk, audit, deployed, setup)      -> "deployed"
       [] is_setup_mode(pk, audit, deployed, setup, secure) -> "setup"
       [] is_user_mode(pk, audit, deployed, setup)          -> "user"
       [] OTHER                                             -> "unknown"
=============================================================================
