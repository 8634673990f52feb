------------------------------ MODULE GuidedMok ------------------------------
(***************************************************************************)
(* Shim with two kinds of owner: any owner at all, or a guided one, who    *)
(* follows README.md's procedure for Microsoft's keys: start the machine,  *)
(* enrol MOKself.cer from the disk when MokManager's menu appears, and     *)
(* continue the boot.  The second stage of the guided owner is this        *)
(* repository's program, which ends in a reset, and nothing is requested   *)
(* with mokutil; a bounded number of calls fails, and of power losses      *)
(* happens, on the way.                                                    *)
(***************************************************************************)
EXTENDS Shim

CONSTANT MaxFaults   \* failing calls and power losses of a guided owner

ASSUME MaxFaultsAssumption == MaxFaults \in Nat

VARIABLES guided,   \* the kind of owner
          faults

guidedVars == <<guided, faults, vars>>

\* MOKself.cer, which has signed the second stage.
Key == platform.key["grubx64"]

\* The first appearance of the menu may pass before the owner presses a key.
GuidedOwner ==
  /\ guided /\ pc = "menu"
  /\ \/ /\ Key # None /\ Key \notin MokList
        /\ Mok!file_callback /\ MokList' = MokList \cup {Key}
     \/ /\ Key = None \/ Key \in MokList
        /\ Mok!run_menu_key("delete_MokNew")
  /\ UNCHANGED <<shimVars, guided, faults>>

Program == efi_main \/ ShimStep \/ grubx64
             \/ MokManagerStep(Mok!run_menu_timeout) \/ MokManagerStep(Mok!Cleaning)

\* A step in which a call fails, or a list is taken for someone else's.
Fails ==
  \/ shim = "start_image" /\ shim' = "failed"
  \/ /\ shim = "handle_image" /\ shim' = "not_loaded"
     /\ secure_mode => ~Blacklisted /\ Whitelisted(MokList)
  \/ shim = "verified" /\ shim' = "not_loaded"
  \/ pc = "off" /\ pc' = "delete_MokNew"
  \/ shim = "running" /\ image = "grubx64" /\ shim' # "OS"
  \/ Key \in MokList /\ MokList' = {}
  \/ ~(lapses' \subseteq lapses)

Works == guided /\ Program /\ ~Fails /\ UNCHANGED <<guided, faults>>

\* The program's reset at the end of a boot.
Reset == guided /\ shim = "OS" /\ PowerOff /\ UNCHANGED <<guided, faults>>

Fault ==
  /\ guided /\ faults > 0 /\ faults' = faults - 1
  /\ PowerOff \/ (Program /\ Fails)
  /\ UNCHANGED guided

GuidedInit == Init /\ guided \in BOOLEAN /\ faults = MaxFaults

GuidedNext ==
  \/ Works \/ GuidedOwner \/ Reset \/ Fault
  \/ ~guided /\ Next /\ UNCHANGED <<guided, faults>>

\* shim goes on and the firmware starts it again; the guided owner, who may
\* miss the ten seconds of one menu, does not miss those of all.
GuidedFairness ==
  WF_guidedVars(Works) /\ WF_guidedVars(Reset) /\ SF_guidedVars(GuidedOwner)

GuidedSpec == GuidedInit /\ [][GuidedNext]_guidedVars /\ Fairness /\ GuidedFairness

-----------------------------------------------------------------------------
\* The second stage is not revoked, and trusted or to be trusted by a key
\* that a trusted MokManager can enrol.
Procedure ==
  platform.SecureBoot =>
    \/ Policy!Trusted("grubx64", {})
    \/ Policy!Trusted("grubx64", Keys) /\ Policy!Trusted("MokManager", {})

(* README.md's procedure ends in the program: whichever calls fail, and    *)
(* whenever the power goes, the machine comes to the second stage and out  *)
(* of the boot services, and does so again after each reset.               *)
BootsEveryTime == guided /\ Procedure => []<>(shim = "OS")

(* README.md has these steps as needed "at the first execution only"       *)
(* (README.md:31): once a boot has gone by in which nothing that could not *)
(* be read was taken for granted, MokManager's menu does not appear in     *)
(* another one without a fault.                                            *)
AskedAtFirstOnly ==
  guided => [](faults = 0 /\ shim = "OS" /\ lapses = {} => [](pc # "menu"))
=============================================================================
