----------------------------- MODULE GuidedBoot -----------------------------
(***************************************************************************)
(* SelfBoot with an owner who follows README.md's procedure for the        *)
(* self-only route: switch secure boot off and start; clear the keys when  *)
(* the program asks for it; switch secure boot on when it asks for that;   *)
(* and start over, with the files copied again, when the program runs      *)
(* without secure boot.  The owner cannot see the firmware's variables,    *)
(* only the setup screen and the last messages of the program.             *)
(***************************************************************************)
EXTENDS SelfBoot

AskedToActivate == "activate" \in shown
AskedToClear    == shown \cap {"clear", "manualClear"} # {}

\* What the setup screen is to show before the owner leaves it.
Done ==
  \/ AskedToActivate /\ sbEnabled
  \/ AskedToClear /\ ~sbEnabled /\ pk = NoKey /\ kek = {} /\ db = {}
  \/ ~AskedToActivate /\ ~AskedToClear /\ ~sbEnabled /\ files = Keys

\* The owner opens the setup screen when it takes something to do there:
\* not while the machine boots with secure boot on and starts the program.
GuidedEnter == EnterSetup /\ ~Done /\ (pc = "load" => ~(Enforcing /\ Verified))

GuidedOwner ==
  /\ mode = "plain"
  /\ \/ OwnerSwitchSecureBoot /\ (sbEnabled # AskedToActivate)
     \/ OwnerClearKeys /\ ~sbEnabled /\ AskedToClear /\ ~AskedToActivate
          /\ ~Done
     \/ OwnerCopyFiles /\ files # Keys /\ ~AskedToActivate /\ ~AskedToClear
     \/ LeaveSetup /\ Done

GuidedNext == Application \/ Load \/ GuidedEnter \/ PowerLoss \/ GuidedOwner

\* The program and the firmware keep running and, where the keyboard can read
\* them, keys are pressed; the owner eventually opens the setup screen of a
\* machine that keeps needing it.
Fairness ==
  /\ WF_vars(Application)
  /\ WF_vars(Load)
  /\ WF_vars(GuidedOwner)
  /\ SF_vars(GuidedEnter)

GuidedSpec == Init /\ [][GuidedNext]_vars /\ Fairness

\* The program has left the boot services on a machine that enforces secure
\* boot with the owner's own keys.
SecureBooted == pc = "reset_cold" /\ Enforcing /\ pk = Self

(* README.md's procedure ends in a secure boot with the machine's own      *)
(* keys, however the bounded failures, undeleted files and power losses    *)
(* fall, on a machine whose keyboard works.                                *)
ProcedureEnds == machine.conIn = "works" => <>SecureBooted

(* ... and stays there: once the machine has booted like that, neither a   *)
(* failure nor a file left behind nor a request to the firmware from an    *)
(* earlier run leads back to the setup screen, and nothing is refused.     *)
StaysSecure ==
  [](SecureBooted => [](Enforcing /\ pk = Self /\ pc \in AppPcs \cup {"load"}))

(* Every run of the program ends in a reset or back in the firmware, with  *)
(* a keyboard that works as well as with none; no failure, power loss or   *)
(* message leaves it stuck between two calls.  Only in read_key's loop on  *)
(* a device that never has a key does a run stay.                          *)
RunEnds ==
  pc = "init" ~>
    \/ pc \in FirmwarePcs
    \/ pc \in {"readKey", "commonKey"} /\ machine.conIn = "broken"
=============================================================================
