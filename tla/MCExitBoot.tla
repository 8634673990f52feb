----------------------------- MODULE MCExitBoot -----------------------------
(* ExitBoot with room for the map to outgrow its buffer several times and  *)
(* for callbacks to lose the race before each of the two calls.            *)
EXTENDS ExitBoot
=============================================================================
