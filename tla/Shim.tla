-------------------------------- MODULE Shim --------------------------------
(***************************************************************************)
(* shim.c from efi_main on, with MokManager as the program it starts first *)
(* when a request is waiting, and once more when the second stage fails.   *)
(* The machine may lose power at any step, and the boot manager may start  *)
(* shim again without a reset in between; there is no network boot.        *)
(* Verification stands for its verdict: who vouches for an image is part   *)
(* of platform.  What shim takes for granted when a call fails, and would  *)
(* not if it had worked, is recorded in lapses.                            *)
(***************************************************************************)
EXTENDS Integers, FiniteSets

CONSTANTS Keys, Passwords, None, Timeout,
          Platforms   \* the machines: databases and signatures, as in TrustPolicy

Images == {"MokManager", "grubx64"}

ASSUME ShimAssumption ==
  /\ None \notin Keys \cup Passwords \cup Images
  /\ None \notin (Keys \cup {None}) \X Passwords
  /\ Timeout \in Nat \ {0}

ASSUME PlatformsAssumption ==
  Platforms \subseteq [SecureBoot : BOOLEAN, db : SUBSET Images, dbx : SUBSET Images,
                       vendor : SUBSET Images, vendor_dbx : SUBSET Images,
                       key : [Images -> Keys \cup {None}]]

VARIABLES
  MokNew, MokAuth, MokSB, MokPW, MokList, MokSBState, MokPWStore,
  pc, held, fail_count, timeout, freed,   \* MokManager's
  platform,        \* which of them it is
  MokListRT,       \* lost at a reset, not at a return to the boot manager
  shim,            \* where shim is
  caller,          \* which call of start_image it is in
  image,           \* the image being started or running
  li,              \* whose values the loaded image protocol holds
  insecure_mode,
  mirrored,        \* the last call of mirror_mok_list has copied the list
  lapses           \* what could not be read for this verdict, and a reset that
                   \* did not come in this boot

Mok == INSTANCE MokManager

shimVars == <<platform, MokListRT, shim, caller, image, li, insecure_mode, mirrored,
              lapses>>
requests == <<MokNew, MokAuth, MokSB, MokPW>>
state    == <<MokList, MokSBState, MokPWStore>>
locals   == <<pc, held, fail_count, timeout, freed>>
vars == <<requests, state, locals, shimVars>>

Lapses == {"SecureBoot", "dbx", "reset"}

Calls == {"check_mok_request", "init_grub", "init_grub_again"}

\* The labels within start_image, in their order.
StartImage == {"start_image", "handle_image", "verified", "not_loaded", "entry_point",
               "running", "succeeded", "failed"}

TypeOK ==
  /\ Mok!TypeOK
  /\ platform \in Platforms
  /\ MokListRT \subseteq Keys
  /\ shim \in {"off", "check_mok_sb", "check_mok_request", "mirror_mok_list", "OS"}
              \cup StartImage
  /\ caller \in Calls /\ image \in Images \cup {None}
  /\ li \in {"shim", "image"} /\ insecure_mode \in BOOLEAN /\ mirrored \in BOOLEAN
  /\ lapses \subseteq Lapses

Init ==
  /\ Mok!Init
  /\ platform \in Platforms
  /\ MokListRT = {} /\ shim = "off" /\ caller = "check_mok_request" /\ image = None
  /\ li = "shim" /\ insecure_mode = FALSE /\ mirrored = FALSE /\ lapses = {}

-----------------------------------------------------------------------------
Goto(label) == shim' = label

\* The variables most steps of shim leave alone.
Same == UNCHANGED <<requests, state, locals, platform>>

\* The boot manager loads shim; its global variables are new.
efi_main ==
  /\ shim = "off"
  /\ Goto("check_mok_sb")
  /\ insecure_mode' = FALSE /\ mirrored' = FALSE /\ li' = "shim" /\ lapses' = {}
  /\ UNCHANGED <<MokListRT, caller, image>> /\ Same

\* A MokSBState that cannot be read is no MokSBState.
check_mok_sb ==
  /\ shim = "check_mok_sb"
  /\ insecure_mode' \in {FALSE, MokSBState = 1}
  /\ Goto("check_mok_request")
  /\ UNCHANGED <<MokListRT, caller, image, li, mirrored, lapses>> /\ Same

\* Mutant: the list of keys is taken for the request.
Requested_MokList == MokList # {} \/ MokSB # None \/ MokPW # None \/ MokAuth # None

Requested == MokNew # None \/ MokSB # None \/ MokPW # None \/ MokAuth # None

Call(c, i) == shim' = "start_image" /\ caller' = c /\ image' = i

\* A request that cannot be read is none.
check_mok_request ==
  /\ shim = "check_mok_request"
  /\ \/ Requested /\ Call("check_mok_request", "MokManager")
     \/ Goto("mirror_mok_list") /\ UNCHANGED <<caller, image>>
  /\ UNCHANGED <<MokListRT, li, insecure_mode, mirrored, lapses>> /\ Same

\* Mutant: a list that cannot be read is copied as an empty one.
mirror_mok_list_Unchecked ==
  /\ shim = "mirror_mok_list"
  /\ \/ MokListRT' \in {MokList, {}} /\ mirrored' = TRUE
     \/ UNCHANGED <<MokListRT, mirrored>>
  /\ Call("init_grub", "grubx64")
  /\ UNCHANGED <<li, insecure_mode, lapses>> /\ Same

\* A list that is not there, or cannot be read, leaves MokListRT as it is.
mirror_mok_list ==
  /\ shim = "mirror_mok_list"
  /\ \/ MokList # {} /\ MokListRT' = MokList /\ mirrored' = TRUE
     \/ UNCHANGED <<MokListRT, mirrored>>
  /\ Call("init_grub", "grubx64")
  /\ UNCHANGED <<li, insecure_mode, lapses>> /\ Same

\* start_image up to load_image: the path, the file, the memory for it.
start_image ==
  /\ shim = "start_image"
  /\ shim' \in {"handle_image", "failed"}
  /\ UNCHANGED <<MokListRT, caller, image, li, insecure_mode, mirrored, lapses>> /\ Same

\* What makes a difference to the verdict when it cannot be read.
Misses ==
  {variable \in {"SecureBoot", "dbx"} :
     /\ ~insecure_mode /\ platform.SecureBoot
     /\ variable = "dbx" => image \in platform.dbx}

\* A SecureBoot that cannot be read is off; platform.SecureBoot stands for one
\* that is 1, outside setup mode.
secure_mode == ~insecure_mode /\ platform.SecureBoot /\ "SecureBoot" \notin lapses'

\* A dbx that cannot be read, or for which there is no memory, lists nothing;
\* vendor_dbx is part of shim.
Blacklisted ==
  image \in platform.vendor_dbx \/ (image \in platform.dbx /\ "dbx" \notin lapses')

\* Mutant: the owner's list vouches for nothing.
Whitelisted_NoList(list) == image \in platform.db \cup platform.vendor

Whitelisted(list) ==
  image \in platform.db \cup platform.vendor \/ platform.key[image] \in list

\* verify_mok's attributes are those of no variable when the list cannot be
\* read, so that any list may be erased; verify_buffer goes on in any case. A
\* voucher that cannot be read vouches for nothing.
verify_buffer ==
  /\ MokList' \in {MokList, {}}
  /\ \/ ~Blacklisted /\ Whitelisted(MokList') /\ Goto("verified")
     \/ Goto("not_loaded")

\* handle_image up to the verdict; read_header may fail before it.
handle_image_verify ==
  /\ shim = "handle_image"
  /\ \E missed \in {{}} \cup {{variable} : variable \in Misses} :
       lapses' = (lapses \cap {"reset"}) \cup missed
  /\ \/ Goto("not_loaded") /\ UNCHANGED MokList
     \/ secure_mode /\ verify_buffer
     \/ ~secure_mode /\ Goto("verified") /\ UNCHANGED MokList
  /\ UNCHANGED <<requests, MokSBState, MokPWStore, locals, platform>>
  /\ UNCHANGED <<MokListRT, caller, image, li, insecure_mode, mirrored>>

\* The rest of it: whatever fails before the loaded image protocol is changed,
\* and an entry point outside the image, which is noticed only after that.
handle_image_load ==
  /\ shim = "verified"
  /\ \/ Goto("not_loaded") /\ li' \in {li, "image"}
     \/ Goto("entry_point") /\ li' = "image"
  /\ UNCHANGED <<MokListRT, caller, image, insecure_mode, mirrored, lapses>> /\ Same

\* Mutant: the loaded image protocol is not restored on this path.
start_image_failed_NoCopy ==
  /\ shim = "not_loaded"
  /\ Goto("failed")
  /\ UNCHANGED <<MokListRT, caller, image, li, insecure_mode, mirrored, lapses>> /\ Same

start_image_failed ==
  /\ shim = "not_loaded"
  /\ li' = "shim"
  /\ Goto("failed")
  /\ UNCHANGED <<MokListRT, caller, image, insecure_mode, mirrored, lapses>> /\ Same

\* The call of the entry point.
entry_point ==
  /\ shim = "entry_point"
  /\ Goto("running")
  /\ IF image = "MokManager" THEN Mok!Starts ELSE UNCHANGED <<requests, state, locals>>
  /\ UNCHANGED <<platform, MokListRT, caller, image, li, insecure_mode, mirrored, lapses>>

\* The image comes back and the loaded image protocol is restored.
Returned(status) ==
  /\ li' = "shim"
  /\ Goto(status)
  /\ UNCHANGED <<platform, MokListRT, caller, image, insecure_mode, mirrored, lapses>>

\* The second stage comes back, or leaves the boot services for good.
grubx64 ==
  /\ shim = "running" /\ image = "grubx64"
  /\ \/ \E status \in {"succeeded", "failed"} : Returned(status)
     \/ Goto("OS")
        /\ UNCHANGED <<platform, MokListRT, caller, image, li, insecure_mode, mirrored, lapses>>
  /\ UNCHANGED <<requests, state, locals>>

\* Whatever MokManager was called for, it reports success.
MokManagerReturns ==
  /\ shim = "running" /\ image = "MokManager"
  /\ Mok!Return
  /\ Returned("succeeded")

\* The callers: only init_grub looks at the status.
start_image_return ==
  /\ shim \in {"succeeded", "failed"}
  /\ \/ caller = "check_mok_request" /\ Goto("mirror_mok_list") /\ UNCHANGED <<caller, image>>
     \/ caller = "init_grub" /\ shim = "failed" /\ Call("init_grub_again", "MokManager")
     \/ /\ shim = "succeeded" \/ caller = "init_grub_again"
        /\ caller # "check_mok_request"
        /\ Goto("off") /\ image' = None /\ UNCHANGED caller
  /\ UNCHANGED <<MokListRT, li, insecure_mode, mirrored, lapses>> /\ Same

ShimStep ==
  check_mok_sb \/ check_mok_request \/ mirror_mok_list \/ start_image
    \/ handle_image_verify \/ handle_image_load \/ start_image_failed \/ entry_point
    \/ MokManagerReturns \/ start_image_return

\* While MokManager runs.
MokManagerStep(A) == shim = "running" /\ image = "MokManager" /\ A /\ UNCHANGED shimVars

\* Everything that is not in a non-volatile variable is lost.
PowerOff ==
  /\ shim' = "off" /\ caller' = "check_mok_request" /\ image' = None /\ MokListRT' = {}
  /\ li' = "shim" /\ insecure_mode' = FALSE /\ mirrored' = FALSE /\ lapses' = {}
  /\ Mok!Leave
  /\ UNCHANGED <<requests, state, platform>>

\* Mutant: MokManager goes on after a change of the state of Secure Boot.
Restart_Missing ==
  /\ pc = "reset" /\ pc' = "menu"
  /\ UNCHANGED <<requests, state, held, fail_count, timeout, freed, shimVars>>

\* MokManager resets the machine, and not only itself.
Restart == pc = "reset" /\ PowerOff

\* Or it does not, and shim goes on under an insecure_mode of before the change.
ResetReturns ==
  /\ shim = "running" /\ image = "MokManager"
  /\ Mok!reset_returns
  /\ lapses' = IF insecure_mode /\ MokSBState = 0 THEN lapses \cup {"reset"} ELSE lapses
  /\ UNCHANGED <<platform, MokListRT, shim, caller, image, li, insecure_mode, mirrored>>

Next ==
  \/ efi_main \/ ShimStep \/ grubx64 \/ Restart \/ ResetReturns \/ PowerOff
  \/ MokManagerStep(Mok!run_menu_timeout) \/ MokManagerStep(Mok!Cleaning)
  \/ MokManagerStep(Mok!Owner)
  \/ shim = "OS" /\ Mok!mokutil /\ UNCHANGED shimVars

\* The programs go on and the firmware's clock runs; no one need press a key.
Fairness ==
  /\ WF_vars(ShimStep)
  /\ WF_vars(MokManagerStep(Mok!run_menu_timeout)) /\ WF_vars(MokManagerStep(Mok!Cleaning))

Spec == Init /\ [][Next]_vars /\ Fairness

-----------------------------------------------------------------------------
(* The images start and the variables change as TrustPolicy allows: the    *)
(* verdict still stands when the image is entered, and insecure_mode,      *)
(* read once, still is what the owner has chosen.  Only the three lapses   *)
(* TrustPolicy names excuse more; no other failure, race or return does.   *)
Policy == INSTANCE TrustPolicy WITH running <- IF shim = "running" THEN image ELSE None
ImplementsPolicy == Policy!Spec

(* Whenever shim goes on by itself after an image was to be started, the   *)
(* loaded image protocol is its own again.                                 *)
LoadedImageRestored ==
  shim \in {"check_mok_request", "mirror_mok_list", "start_image", "handle_image",
            "succeeded", "failed", "off"} => li = "shim"

(* After a copy that worked, the kernel finds in MokListRT the list as it  *)
(* is, the keys of this very boot's MokManager included, unless the list   *)
(* was erased after the copy.                                              *)
KernelSeesList ==
  shim = "OS" /\ mirrored => MokListRT = MokList \/ MokList = {}

WithOwner == Mok!Prompts \cup {"menu", "MokSB_changed", "MokPWStore_changed", "reset"}

(* Always again the machine is at the second stage, behind it or back at   *)
(* the boot manager, unless MokManager waits for its password or is with   *)
(* an owner who has pressed a key.                                         *)
OnlyOwnerBlocks ==
  []<>
    (\/ shim \in {"off", "OS"} \/ (shim = "running" /\ image = "grubx64")
     \/ pc = "verify_pw" \/ (pc \in WithOwner /\ timeout = 0))
=============================================================================
