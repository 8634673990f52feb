----------------------------- MODULE Shim_proofs ------------------------------
(***************************************************************************)
(* Shim, with MokManager in it, for every machine, every set of keys and   *)
(* passwords: a verdict stands until the image it is about is entered, and *)
(* what shim remembers of the variables is renewed before it is used.      *)
(***************************************************************************)
EXTENDS GuidedMok, TLAPS

\* Where MokManager is tells whether it runs.
RunsHolds ==
  /\ pc = "off" \/ (shim = "running" /\ image = "MokManager")
  /\ shim \in StartImage
       => (image \in Images /\ (image = "grubx64" <=> caller = "init_grub"))
  /\ shim = "OS" => image = "grubx64" /\ caller = "init_grub"

\* The clean-up frees at most once for each request.
FreedHolds ==
  /\ pc \notin {"delete_MokSB", "delete_MokPW", "delete_MokAuth", "return"} => freed = 0
  /\ pc = "delete_MokSB" => freed <= 1
  /\ pc = "delete_MokPW" => freed <= 2

\* Checks switched off are switched off by the owner; when they are switched
\* on again, the machine restarts before shim goes on, or should have.
InsecureHolds ==
  insecure_mode = TRUE =>
    MokSBState = 1 \/ pc \in {"MokSB_changed", "reset"} \/ "reset" \in lapses

\* The verdict still stands where the image is entered.
VerdictHolds ==
  shim \in {"verified", "entry_point"} => (Policy!Checked => Policy!Trusted(image, MokList))

\* The loaded image protocol is changed late, and restored on the way back.
LiHolds == shim \notin {"not_loaded", "entry_point", "running", "OS"} => li = "shim"

\* Nothing counts as copied before the call of mirror_mok_list.
MirrorHolds ==
  /\ shim \in {"check_mok_sb", "check_mok_request", "mirror_mok_list"} => mirrored = FALSE
  /\ shim \in StartImage /\ caller = "check_mok_request" => mirrored = FALSE
  /\ mirrored = TRUE /\ caller = "init_grub" => MokListRT = MokList \/ MokList = {}

\* The first two concern MokManager, the others shim.
Rest == InsecureHolds /\ VerdictHolds /\ LiHolds /\ MirrorHolds

IInv == TypeOK /\ RunsHolds /\ FreedHolds /\ Rest

\* The first boot starts in the invariant.
LEMMA InitIInv == Init => IInv
  <1> SUFFICES ASSUME Init PROVE IInv
    OBVIOUS
  <1>1. Mok!TypeOK
    BY ShimAssumption DEF Init, Mok!Init, Mok!TypeOK, Mok!NothingHeld, ShimAssumption
  <1>2. TypeOK
    BY <1>1 DEF Init, TypeOK, Calls
  <1>3. RunsHolds /\ FreedHolds /\ Rest
    BY DEF Init, Mok!Init, Rest, RunsHolds, FreedHolds, InsecureHolds, VerdictHolds, LiHolds,
           MirrorHolds, StartImage
  <1> QED
    BY <1>2, <1>3 DEF IInv

-----------------------------------------------------------------------------
(* MokManager's steps. *)

\* What the owner does in MokManager keeps the types,
LEMMA OwnerTypes ==
  ASSUME Mok!TypeOK, Mok!Owner
  PROVE  Mok!TypeOK'
  <1> USE ShimAssumption DEF Mok!TypeOK, Mok!Goto, Mok!requests, Mok!state, Mok!Prompts,
        Mok!Cleanup, Mok!LibDeleteVariable, ShimAssumption
  <1>1. CASE Mok!verify_pw
    BY <1>1 DEF Mok!verify_pw
  <1>2. CASE Mok!run_menu
    BY <1>2 DEF Mok!run_menu, Mok!run_menu_key
  <1>3. CASE Mok!back_to_menu
    BY <1>3 DEF Mok!back_to_menu
  <1>4. CASE Mok!wrong_password
    BY <1>4 DEF Mok!wrong_password
  <1>5. CASE Mok!store_keys
    BY <1>5 DEF Mok!store_keys
  <1>6. CASE Mok!file_callback
    BY <1>6 DEF Mok!file_callback
  <1>7. CASE Mok!mok_sb_prompt
    BY <1>7 DEF Mok!mok_sb_prompt
  <1>8. CASE Mok!mok_pw_prompt
    BY <1>8 DEF Mok!mok_pw_prompt, Mok!PW
  <1> QED
    BY <1>1, <1>2, <1>3, <1>4, <1>5, <1>6, <1>7, <1>8 DEF Mok!Owner

\* What the owner does in MokManager: a change of the state of Secure Boot is
\* followed by nothing but the restart.
LEMMA OwnerSteps ==
  ASSUME Mok!TypeOK, Mok!Owner
  PROVE  /\ pc' \in {"verify_pw", "menu", "delete_MokNew", "MokSB_changed",
                     "MokPWStore_changed", "reset"} \cup Mok!Prompts
         /\ pc \notin Mok!Cleanup \cup {"off", "return", "reset"}
         /\ freed' = freed
         /\ pc = "MokSB_changed" => pc' = "reset"
         /\ MokSBState' = MokSBState \/ pc' = "MokSB_changed"
         /\ MokSBState' \in {0, 1}
         /\ \/ \E key \in Keys : MokList' = MokList \cup {key} /\ MokSBState' = MokSBState
            \/ MokList' = {} /\ MokSBState' = MokSBState
            \/ MokList' = MokList
  <1> USE DEF Mok!TypeOK, Mok!Goto, Mok!state, Mok!Prompts, Mok!Cleanup
  <1>1. CASE Mok!verify_pw
    BY <1>1 DEF Mok!verify_pw
  <1>2. CASE Mok!run_menu
    BY <1>2 DEF Mok!run_menu, Mok!run_menu_key
  <1>3. CASE Mok!back_to_menu
    BY <1>3 DEF Mok!back_to_menu
  <1>4. CASE Mok!wrong_password
    BY <1>4 DEF Mok!wrong_password
  <1>5. CASE Mok!store_keys
    BY <1>5 DEF Mok!store_keys
  <1>6. CASE Mok!file_callback
    BY <1>6 DEF Mok!file_callback
  <1>7. CASE Mok!mok_sb_prompt
    BY <1>7 DEF Mok!mok_sb_prompt
  <1>8. CASE Mok!mok_pw_prompt
    BY <1>8 DEF Mok!mok_pw_prompt
  <1> QED
    BY <1>1, <1>2, <1>3, <1>4, <1>5, <1>6, <1>7, <1>8 DEF Mok!Owner

\* A step of the owner's while MokManager runs.
LEMMA OwnerIInv ==
  ASSUME IInv, MokManagerStep(Mok!Owner)
  PROVE  IInv'
  <1>1. Mok!TypeOK /\ Mok!Owner /\ shim = "running" /\ image = "MokManager" /\ UNCHANGED shimVars
    BY DEF MokManagerStep, IInv, TypeOK
  <1>2. TypeOK'
    BY <1>1, OwnerTypes DEF IInv, TypeOK, shimVars
  <1>3. RunsHolds'
    BY <1>1 DEF RunsHolds, IInv, shimVars
  <1>4. FreedHolds'
    BY <1>1, OwnerSteps DEF FreedHolds, IInv, Mok!Cleanup, Mok!Prompts
  <1>5. Rest'
    <2>1. InsecureHolds'
      BY <1>1, OwnerSteps DEF Rest, InsecureHolds, IInv, shimVars
    <2>2. caller # "init_grub"
      BY <1>1 DEF IInv, RunsHolds, StartImage
    <2> QED
      BY <1>1, <2>1, <2>2 DEF Rest, VerdictHolds, LiHolds, MirrorHolds, IInv, shimVars
  <1> QED
    BY <1>2, <1>3, <1>4, <1>5 DEF IInv

\* The menu's clock and the clean-up change none of the state.
LEMMA CleaningIInv ==
  ASSUME IInv, MokManagerStep(Mok!run_menu_timeout) \/ MokManagerStep(Mok!Cleaning)
  PROVE  IInv'
  <1>1. /\ shim = "running" /\ image = "MokManager" /\ UNCHANGED shimVars
        /\ UNCHANGED <<MokList, MokSBState, MokPWStore>>
        /\ Mok!run_menu_timeout \/ Mok!Cleaning
    BY DEF MokManagerStep, Mok!run_menu_timeout, Mok!Cleaning, Mok!Cleans,
           Mok!LibDeleteVariable, Mok!delete_MokNew,
           Mok!delete_MokSB, Mok!delete_MokPW, Mok!delete_MokAuth, Mok!state
  <1>2. Mok!TypeOK' /\ FreedHolds'
    <2> USE ShimAssumption DEF IInv, TypeOK, Mok!TypeOK, FreedHolds, Mok!Free, Mok!state,
          Mok!requests, Mok!Cleanup, Mok!Prompts, Mok!LibDeleteVariable, ShimAssumption
    <2>1. CASE Mok!run_menu_timeout
      BY <2>1 DEF Mok!run_menu_timeout
    <2>2. ASSUME NEW works \in BOOLEAN, Mok!Cleans(works)
          PROVE  Mok!TypeOK' /\ FreedHolds'
      <3>1. CASE Mok!delete_MokNew(works)
        BY <3>1 DEF Mok!delete_MokNew
      <3>2. CASE Mok!delete_MokSB(works)
        BY <3>2 DEF Mok!delete_MokSB
      <3>3. CASE Mok!delete_MokPW(works)
        BY <3>3 DEF Mok!delete_MokPW
      <3>4. CASE Mok!delete_MokAuth(works)
        BY <3>4 DEF Mok!delete_MokAuth
      <3> QED
        BY <2>2, <3>1, <3>2, <3>3, <3>4 DEF Mok!Cleans
    <2> QED
      BY <1>1, <2>1, <2>2 DEF Mok!Cleaning
  <1>3. TypeOK' /\ RunsHolds'
    BY <1>1, <1>2 DEF IInv, TypeOK, RunsHolds, shimVars
  <1>4. pc \notin {"MokSB_changed", "reset"}
    BY <1>1 DEF Mok!run_menu_timeout, Mok!Cleaning, Mok!Cleans, Mok!LibDeleteVariable,
                Mok!delete_MokNew, Mok!delete_MokSB,
                Mok!delete_MokPW, Mok!delete_MokAuth
  <1>5. Rest'
    BY <1>1, <1>4 DEF IInv, Rest, InsecureHolds, VerdictHolds, LiHolds, MirrorHolds, shimVars
  <1> QED
    BY <1>2, <1>3, <1>5 DEF IInv

\* A reset that does not come is recorded if it matters.
LEMMA ResetReturnsIInv ==
  ASSUME IInv, ResetReturns
  PROVE  IInv'
  <1>1. /\ shim = "running" /\ image = "MokManager" /\ pc = "reset" /\ pc' = "menu"
        /\ UNCHANGED <<requests, state, held, fail_count, timeout, freed>>
        /\ UNCHANGED <<platform, MokListRT, shim, caller, image, li, insecure_mode, mirrored>>
        /\ lapses' = IF insecure_mode /\ MokSBState = 0 THEN lapses \cup {"reset"} ELSE lapses
    BY DEF ResetReturns, Mok!reset_returns, Mok!Goto, Mok!requests, Mok!state, requests, state
  <1>2. Mok!TypeOK' /\ FreedHolds'
    BY <1>1 DEF IInv, TypeOK, Mok!TypeOK, FreedHolds, requests, state
  <1>3. TypeOK' /\ RunsHolds'
    BY <1>1, <1>2 DEF IInv, TypeOK, RunsHolds, Lapses
  <1>4. Rest'
    BY <1>1 DEF IInv, TypeOK, Mok!TypeOK, Rest, InsecureHolds, VerdictHolds, LiHolds,
                MirrorHolds, StartImage, state
  <1> QED
    BY <1>2, <1>3, <1>4 DEF IInv

-----------------------------------------------------------------------------
(* The other programs and the power. *)

\* and so does MokManager's end.
LEMMA LeaveTypes ==
  ASSUME Mok!TypeOK, Mok!Leave, UNCHANGED <<requests, state>>
  PROVE  Mok!TypeOK' /\ FreedHolds' /\ pc' = "off"
  BY ShimAssumption DEF Mok!TypeOK, Mok!Leave, Mok!NothingHeld, requests, state, FreedHolds,
     ShimAssumption

\* A power loss keeps the invariant,
LEMMA PowerOffIInv ==
  ASSUME IInv, PowerOff
  PROVE  IInv'
  <1>1. Mok!TypeOK' /\ FreedHolds' /\ pc' = "off"
    BY LeaveTypes DEF IInv, TypeOK, PowerOff
  <1>2. TypeOK'
    BY <1>1 DEF IInv, TypeOK, PowerOff, Calls
  <1>3. RunsHolds' /\ Rest'
    BY <1>1 DEF PowerOff, RunsHolds, Rest, InsecureHolds, VerdictHolds, LiHolds, MirrorHolds,
                StartImage
  <1> QED
    BY <1>1, <1>2, <1>3 DEF IInv

\* and mokutil,
LEMMA MokutilIInv ==
  ASSUME IInv, shim = "OS", Mok!mokutil, UNCHANGED shimVars
  PROVE  IInv'
  <1>1. UNCHANGED <<MokList, MokSBState, MokPWStore, pc, held, fail_count, timeout, freed>>
    BY DEF Mok!mokutil, Mok!state, Mok!locals
  <1>2. Mok!TypeOK'
    BY <1>1 DEF IInv, TypeOK, Mok!TypeOK, Mok!mokutil
  <1>3. TypeOK' /\ RunsHolds' /\ FreedHolds'
    BY <1>1, <1>2 DEF IInv, TypeOK, RunsHolds, FreedHolds, shimVars
  <1>4. Rest'
    BY <1>1 DEF IInv, Rest, InsecureHolds, VerdictHolds, LiHolds, MirrorHolds, shimVars
  <1> QED
    BY <1>3, <1>4 DEF IInv

\* The second stage changes none of MokManager's variables.
LEMMA GrubIInv ==
  ASSUME IInv, grubx64
  PROVE  IInv'
  <1>1. /\ shim = "running" /\ image = "grubx64" /\ caller = "init_grub" /\ pc = "off"
        /\ UNCHANGED <<requests, state, locals>>
    BY DEF grubx64, IInv, RunsHolds, StartImage
  <1>2. /\ UNCHANGED <<platform, MokListRT, caller, image, insecure_mode, mirrored, lapses>>
        /\ \/ shim' \in {"succeeded", "failed"} /\ li' = "shim"
           \/ shim' = "OS" /\ li' = li
    BY DEF grubx64, Returned, Goto
  <1>3. Mok!TypeOK' /\ FreedHolds'
    BY <1>1 DEF IInv, TypeOK, Mok!TypeOK, FreedHolds, requests, state, locals
  <1>4. TypeOK' /\ RunsHolds'
    BY <1>1, <1>2, <1>3 DEF IInv, TypeOK, RunsHolds, StartImage, locals, Images
  <1>5. Rest'
    BY <1>1, <1>2 DEF IInv, Rest, InsecureHolds, VerdictHolds, LiHolds, MirrorHolds,
                      StartImage, state, locals
  <1> QED
    BY <1>3, <1>4, <1>5 DEF IInv

-----------------------------------------------------------------------------
(* shim's own steps. *)

\* Steps of shim that change no variable of the firmware: what is to show.
LEMMA SameTypes ==
  ASSUME IInv, Same, pc = "off"
  PROVE  /\ Mok!TypeOK' /\ FreedHolds' /\ pc' = "off" /\ platform' = platform
         /\ MokList' = MokList /\ MokSBState' = MokSBState
  BY DEF IInv, TypeOK, Mok!TypeOK, FreedHolds, Same, requests, state, locals

\* the steps up to the verdict,
LEMMA StartIInv ==
  ASSUME IInv, efi_main \/ check_mok_sb \/ check_mok_request
  PROVE  IInv'
  <1>1. Same /\ shim \in {"off", "check_mok_sb", "check_mok_request"}
    BY DEF efi_main, check_mok_sb, check_mok_request
  <1>2. pc = "off"
    BY <1>1 DEF IInv, RunsHolds
  <1> USE <1>1, <1>2, SameTypes
  <1>3. TypeOK' /\ RunsHolds'
    BY DEF IInv, TypeOK, RunsHolds, Calls, StartImage, Images, efi_main, check_mok_sb,
           check_mok_request, Goto, Call
  <1>4. InsecureHolds'
    BY DEF IInv, Rest, InsecureHolds, efi_main, check_mok_sb, check_mok_request, Goto, Call
  <1>5. VerdictHolds' /\ LiHolds'
    BY DEF IInv, Rest, VerdictHolds, LiHolds, efi_main, check_mok_sb, check_mok_request,
           Goto, Call
  <1>6. MirrorHolds'
    BY DEF IInv, Rest, MirrorHolds, StartImage, efi_main, check_mok_sb, check_mok_request,
           Goto, Call
  <1> QED
    BY <1>3, <1>4, <1>5, <1>6 DEF IInv, Rest

\* the copy of the list,
LEMMA MirrorIInv ==
  ASSUME IInv, mirror_mok_list
  PROVE  IInv'
  <1>1. /\ Same /\ shim = "mirror_mok_list" /\ shim' = "start_image"
        /\ caller' = "init_grub" /\ image' = "grubx64"
        /\ li' = li /\ insecure_mode' = insecure_mode /\ lapses' = lapses
        /\ \/ MokListRT' = MokList /\ mirrored' = TRUE
           \/ MokListRT' = MokListRT /\ mirrored' = mirrored
    BY DEF mirror_mok_list, Call
  <1>2. pc = "off" /\ mirrored = FALSE /\ li = "shim"
    BY <1>1 DEF IInv, RunsHolds, Rest, MirrorHolds, LiHolds
  <1> USE <1>1, <1>2, SameTypes
  <1>3. TypeOK' /\ RunsHolds'
    BY DEF IInv, TypeOK, RunsHolds, Calls, StartImage, Images, Mok!TypeOK
  <1>4. InsecureHolds' /\ VerdictHolds' /\ LiHolds' /\ MirrorHolds'
    BY DEF IInv, Rest, InsecureHolds, VerdictHolds, LiHolds, MirrorHolds
  <1> QED
    BY <1>3, <1>4 DEF IInv, Rest

\* The verdict: what vouches for the image is there when it is given.
LEMMA VerifyIInv ==
  ASSUME IInv, handle_image_verify
  PROVE  IInv'
  <1>1. /\ shim = "handle_image"
        /\ UNCHANGED <<requests, MokSBState, MokPWStore, locals, platform>>
        /\ UNCHANGED <<MokListRT, caller, image, li, insecure_mode, mirrored>>
        /\ shim' \in {"not_loaded", "verified"}
        /\ MokList' \in {MokList, {}}
        /\ lapses' \subseteq Lapses /\ ("reset" \in lapses => "reset" \in lapses')
    BY DEF handle_image_verify, verify_buffer, Goto, Misses, Lapses, IInv, TypeOK
  <1>2. pc = "off"
    BY <1>1 DEF IInv, RunsHolds
  <1>3. Mok!TypeOK' /\ FreedHolds'
    BY <1>1 DEF IInv, TypeOK, Mok!TypeOK, FreedHolds, requests, locals
  <1>4. TypeOK' /\ RunsHolds'
    BY <1>1, <1>2, <1>3 DEF IInv, TypeOK, RunsHolds, StartImage, locals
  <1>5. InsecureHolds' /\ LiHolds' /\ MirrorHolds'
    BY <1>1, <1>2 DEF IInv, Rest, InsecureHolds, LiHolds, MirrorHolds, StartImage, locals
  <1>6. VerdictHolds'
    <2>1. SUFFICES ASSUME shim' = "verified", platform.SecureBoot, MokSBState = 0,
                          lapses' \subseteq {"dbx"}
                   PROVE  ~Blacklisted /\ Whitelisted(MokList')
      BY <1>1 DEF VerdictHolds, Policy!Trusted, Policy!Revoked, Policy!Checked, Blacklisted,
                  Whitelisted
    <2>2. insecure_mode = FALSE
      BY <1>1, <1>2, <2>1 DEF IInv, TypeOK, Rest, InsecureHolds
    <2>3. secure_mode
      BY <2>1, <2>2 DEF secure_mode
    <2>4. verify_buffer
      BY <2>1, <2>3 DEF handle_image_verify, Goto
    <2> QED
      BY <2>1, <2>4 DEF verify_buffer, Goto
  <1> QED
    BY <1>3, <1>4, <1>5, <1>6 DEF IInv, Rest

\* The rest of start_image keeps verdict and variables.
LEMMA LoadIInv ==
  ASSUME IInv, start_image \/ handle_image_load \/ start_image_failed
  PROVE  IInv'
  <1>1. /\ Same /\ shim \in {"start_image", "verified", "not_loaded"}
        /\ UNCHANGED <<MokListRT, caller, image, insecure_mode, mirrored, lapses>>
        /\ \/ shim = "start_image" /\ shim' \in {"handle_image", "failed"} /\ li' = li
           \/ shim = "verified" /\ shim' = "not_loaded" /\ li' \in {li, "image"}
           \/ shim = "verified" /\ shim' = "entry_point" /\ li' = "image"
           \/ shim = "not_loaded" /\ shim' = "failed" /\ li' = "shim"
    BY DEF start_image, handle_image_load, start_image_failed, Goto
  <1>2. pc = "off"
    BY <1>1 DEF IInv, RunsHolds
  <1> USE <1>1, <1>2, SameTypes
  <1>3. TypeOK'
    BY DEF IInv, TypeOK, StartImage
  <1>4. RunsHolds'
    BY DEF IInv, RunsHolds, StartImage
  <1>5. InsecureHolds' /\ LiHolds' /\ MirrorHolds'
    BY DEF IInv, Rest, InsecureHolds, LiHolds, MirrorHolds, StartImage
  <1>6. VerdictHolds'
    BY DEF IInv, Rest, VerdictHolds, Policy!Trusted, Policy!Revoked, Policy!Checked
  <1> QED
    BY <1>3, <1>4, <1>5, <1>6 DEF IInv, Rest

\* the entry of an image,
LEMMA EntryIInv ==
  ASSUME IInv, entry_point
  PROVE  IInv'
  <1>1. /\ shim = "entry_point" /\ shim' = "running"
        /\ UNCHANGED <<platform, MokListRT, caller, image, li, insecure_mode, mirrored, lapses>>
        /\ UNCHANGED <<requests, state>>
        /\ \/ image = "MokManager" /\ Mok!Starts
           \/ image # "MokManager" /\ UNCHANGED locals
    BY DEF entry_point, Goto, Mok!Starts, Mok!check_mok_request, Mok!requests, Mok!state,
           requests, state
  <1>2. pc = "off"
    BY <1>1 DEF IInv, RunsHolds
  <1>3. Mok!TypeOK' /\ FreedHolds'
    <2>1. CASE UNCHANGED locals
      BY <1>1, <2>1 DEF IInv, TypeOK, Mok!TypeOK, FreedHolds, requests, state, locals
    <2>2. CASE Mok!Starts
      BY <1>1, <2>2, ShimAssumption
      DEF IInv, TypeOK, Mok!TypeOK, FreedHolds, Mok!Starts, Mok!check_mok_request, Mok!Read,
          requests, state,
          Mok!Cleanup, ShimAssumption
    <2> QED
      BY <1>1, <2>1, <2>2
  <1>4. TypeOK' /\ RunsHolds'
    BY <1>1, <1>2, <1>3 DEF IInv, TypeOK, RunsHolds, StartImage, locals
  <1>5. Rest'
    BY <1>1, <1>2 DEF IInv, Rest, InsecureHolds, VerdictHolds, LiHolds, MirrorHolds,
                      StartImage, state
  <1> QED
    BY <1>3, <1>4, <1>5 DEF IInv

\* the ways back from it,
LEMMA ReturnIInv ==
  ASSUME IInv, MokManagerReturns \/ start_image_return
  PROVE  IInv'
  <1>1. CASE MokManagerReturns
    <2>1. /\ shim = "running" /\ image = "MokManager" /\ pc = "return"
          /\ Mok!Leave /\ UNCHANGED <<requests, state>>
          /\ shim' = "succeeded" /\ li' = "shim"
          /\ UNCHANGED <<platform, MokListRT, caller, image, insecure_mode, mirrored, lapses>>
      BY <1>1 DEF MokManagerReturns, Mok!Return, Returned, Goto, Mok!requests, Mok!state,
                  requests, state
    <2>2. Mok!TypeOK' /\ FreedHolds' /\ pc' = "off"
      BY <2>1, LeaveTypes DEF IInv, TypeOK
    <2>3. TypeOK' /\ RunsHolds'
      BY <2>1, <2>2 DEF IInv, TypeOK, RunsHolds, StartImage
    <2>4. Rest'
      BY <2>1, <2>2 DEF IInv, Rest, InsecureHolds, VerdictHolds, LiHolds, MirrorHolds,
                        StartImage, state
    <2> QED
      BY <2>2, <2>3, <2>4 DEF IInv
  <1>2. CASE start_image_return
    <2>1. /\ Same /\ shim \in {"succeeded", "failed"}
          /\ UNCHANGED <<MokListRT, li, insecure_mode, mirrored, lapses>>
          /\ \/ /\ caller = "check_mok_request" /\ shim' = "mirror_mok_list"
                /\ UNCHANGED <<caller, image>>
             \/ shim' = "start_image" /\ caller' = "init_grub_again" /\ image' = "MokManager"
             \/ /\ caller # "check_mok_request" /\ shim' = "off" /\ image' = None
                /\ UNCHANGED caller
      BY <1>2 DEF start_image_return, Goto, Call
    <2>2. pc = "off" /\ li = "shim"
      BY <2>1 DEF IInv, RunsHolds, Rest, LiHolds
    <2>3. TypeOK'
      BY <2>1, <2>2, SameTypes DEF IInv, TypeOK, StartImage, Calls, Images
    <2>4. RunsHolds'
      BY <2>1, <2>2, SameTypes DEF IInv, RunsHolds, StartImage, Images
    <2>5. InsecureHolds' /\ VerdictHolds' /\ LiHolds' /\ MirrorHolds'
      BY <2>1, <2>2, SameTypes
      DEF IInv, Rest, InsecureHolds, VerdictHolds, LiHolds, MirrorHolds, StartImage
    <2> QED
      BY <2>1, <2>2, <2>3, <2>4, <2>5, SameTypes DEF IInv, Rest
  <1> QED
    BY <1>1, <1>2

\* and so every step.
LEMMA StepIInv == IInv /\ [Next]_vars => IInv'
  <1> SUFFICES ASSUME IInv, [Next]_vars PROVE IInv'
    OBVIOUS
  <1>1. CASE UNCHANGED vars
    BY <1>1
    DEF vars, shimVars, requests, state, locals, IInv, TypeOK, Mok!TypeOK, RunsHolds,
        FreedHolds,
        Rest, InsecureHolds, VerdictHolds, LiHolds, MirrorHolds, Policy!Trusted,
        Policy!Revoked, Policy!Checked
  <1>2. CASE Restart
    BY <1>2, PowerOffIInv DEF Restart
  <1>3. CASE ShimStep
    BY <1>3, StartIInv, MirrorIInv, VerifyIInv, LoadIInv, EntryIInv, ReturnIInv DEF ShimStep
  <1> QED
    BY <1>1, <1>2, <1>3, StartIInv, GrubIInv, PowerOffIInv, ResetReturnsIInv, OwnerIInv,
       CleaningIInv, MokutilIInv
    DEF Next

\* IInv is an invariant of the boot.
THEOREM Invariance == Spec => []IInv
  BY InitIInv, StepIInv, PTL DEF Spec

\* The variables of shim, of MokManager and of the firmware keep their types.
THEOREM TypeCorrect == Spec => []TypeOK
  <1>1. IInv => TypeOK
    BY DEF IInv
  <1> QED
    BY Invariance, <1>1, PTL

\* shim is its own loaded image again before it does anything else.
THEOREM Restored == Spec => []LoadedImageRestored
  <1>1. IInv => LoadedImageRestored
    BY DEF IInv, Rest, LiHolds, LoadedImageRestored
  <1> QED
    BY Invariance, <1>1, PTL

\* The kernel's copy of the list is the list.
THEOREM KernelSees == Spec => []KernelSeesList
  <1>1. IInv => KernelSeesList
    BY DEF IInv, TypeOK, RunsHolds, Rest, MirrorHolds, KernelSeesList
  <1> QED
    BY Invariance, <1>1, PTL

-----------------------------------------------------------------------------
(* The refinement. *)

Running == IF shim = "running" THEN image ELSE None

\* Steps of shim before and after an image runs: at most the list is erased.
LEMMA NotRunning ==
  ASSUME IInv, shim # "running", shim' # "running", platform' = platform,
         MokSBState' = MokSBState, MokList' \in {MokList, {}},
         lapses' \subseteq {"SecureBoot", "dbx"} \cup lapses,
         lapses' = {} \/ lapses \cap {"reset"} \subseteq lapses'
  PROVE  Policy!Next
  BY DEF Policy!Next, Policy!Examine

\* An image that leaves.
LEMMA Stopping ==
  ASSUME shim' # "running", platform' = platform, MokSBState' = MokSBState,
         MokList' = MokList, lapses' \in {lapses, {}}
  PROVE  Policy!Next
  BY DEF Policy!Next, Policy!Stop

\* A start is one the policy allows.
LEMMA Starting ==
  ASSUME IInv, entry_point
  PROVE  Policy!Next
  <1>1. /\ shim = "entry_point" /\ shim' = "running" /\ image' = image
        /\ UNCHANGED <<platform, MokList, MokSBState, lapses>>
    BY DEF entry_point, Goto, Mok!Starts, Mok!check_mok_request, Mok!state, state
  <1>2. image \in Policy!Images
    BY <1>1 DEF IInv, RunsHolds, StartImage, Images, Policy!Images
  <1>3. Policy!Checked => Policy!Trusted(image, MokList)
    BY <1>1 DEF IInv, Rest, VerdictHolds
  <1>4. Policy!Start(image)
    BY <1>1, <1>3 DEF Policy!Start
  <1> QED
    BY <1>2, <1>4 DEF Policy!Next

\* The owner's choices in MokManager are the policy's.
LEMMA Managing ==
  ASSUME IInv, MokManagerStep(Mok!Owner)
  PROVE  Policy!Next \/ UNCHANGED Policy!vars
  <1>1. /\ shim = "running" /\ image = "MokManager" /\ UNCHANGED shimVars
        /\ Mok!Owner /\ Mok!TypeOK
    BY DEF MokManagerStep, IInv, TypeOK
  <1>2. shim' = shim /\ image' = image /\ platform' = platform /\ lapses' = lapses
    BY <1>1 DEF shimVars
  <1>3. CASE MokList' = MokList
    BY <1>1, <1>2, <1>3, OwnerSteps DEF Policy!Next, Policy!Manage
  <1>4. CASE MokList' # MokList
    BY <1>1, <1>2, <1>4, OwnerSteps DEF Policy!Next, Policy!Manage
  <1> QED
    BY <1>3, <1>4

\* Every step is one of TrustPolicy, or none.
LEMMA StepSimulation ==
  ASSUME IInv, [Next]_vars
  PROVE  Policy!Next \/ UNCHANGED Policy!vars
  <1>1. CASE UNCHANGED vars
    BY <1>1 DEF vars, shimVars, state, Policy!vars
  <1>2. CASE efi_main \/ check_mok_sb \/ check_mok_request \/ mirror_mok_list
               \/ start_image \/ handle_image_load \/ start_image_failed \/ start_image_return
    BY <1>2, NotRunning
    DEF efi_main, check_mok_sb, check_mok_request, mirror_mok_list, start_image,
        handle_image_load, start_image_failed, start_image_return, Goto, Call, Same, state
  <1>3. CASE handle_image_verify
    BY <1>3, NotRunning DEF handle_image_verify, verify_buffer, Goto, Misses
  <1>4. CASE grubx64 \/ MokManagerReturns
    BY <1>4, Stopping
    DEF grubx64, MokManagerReturns, Returned, Mok!Return, Mok!state, state, Goto
  <1>5. CASE PowerOff \/ Restart
    BY <1>5, Stopping DEF PowerOff, Restart, state
  <1>6. CASE MokManagerStep(Mok!run_menu_timeout) \/ MokManagerStep(Mok!Cleaning)
    BY <1>6
    DEF MokManagerStep, shimVars, Mok!run_menu_timeout, Mok!Cleaning, Mok!Cleans,
        Mok!LibDeleteVariable, Mok!delete_MokNew,
        Mok!delete_MokSB, Mok!delete_MokPW, Mok!delete_MokAuth, Mok!state, Policy!vars
  <1>7. CASE shim = "OS" /\ Mok!mokutil /\ UNCHANGED shimVars
    BY <1>7 DEF shimVars, Mok!mokutil, Mok!state, Policy!vars
  <1>8. CASE ResetReturns
    BY <1>8 DEF ResetReturns, Mok!reset_returns, Mok!state, Policy!Next, Policy!ResetReturns,
                Policy!vars
  <1> QED
    BY <1>1, <1>2, <1>3, <1>4, <1>5, <1>6, <1>7, <1>8, Starting, Managing DEF Next, ShimStep

\* shim and MokManager together start only what the policy allows, the three
\* lapses it names included, and the list and the checks change only under
\* MokManager.
THEOREM ShimImplementsPolicy == Spec => ImplementsPolicy
  <1>1. Init => Policy!Init
    BY PlatformsAssumption
    DEF Init, Mok!Init, Policy!Init, Policy!Platform, Policy!Images, Images,
        PlatformsAssumption
  <1>2. IInv /\ [Next]_vars => [Policy!Next]_(Policy!vars)
    BY StepSimulation
  <1> QED
    BY Invariance, <1>1, <1>2, PTL DEF Spec, ImplementsPolicy, Policy!Spec

\* What the policy promises of the second stage.
LEMMA PolicyKeepsTrust == Policy!Spec => []Policy!SecondStageTrusted
  <1>1. Policy!Init => Policy!SecondStageTrusted
    <2>1. ASSUME Policy!Init PROVE Running # "grubx64"
      BY <2>1, ShimAssumption DEF Policy!Init, Running, Images, ShimAssumption
    <2> QED
      BY <2>1 DEF Policy!SecondStageTrusted, Running
  <1>2. Policy!SecondStageTrusted /\ [Policy!Next]_(Policy!vars) => Policy!SecondStageTrusted'
    <2> SUFFICES ASSUME Policy!SecondStageTrusted, [Policy!Next]_(Policy!vars)
                 PROVE  Policy!SecondStageTrusted'
      OBVIOUS
    <2> USE DEF Policy!SecondStageTrusted, Policy!Trusted, Policy!Revoked, Policy!Checked
    <2>1. CASE UNCHANGED Policy!vars
      BY <2>1 DEF Policy!vars
    <2>2. ASSUME NEW i \in Policy!Images, Policy!Start(i) PROVE Policy!SecondStageTrusted'
      BY <2>2 DEF Policy!Start
    <2>3. CASE Policy!Stop \/ Policy!Manage \/ Policy!ResetReturns \/ Policy!Examine
      BY <2>3, ShimAssumption
      DEF Policy!Stop, Policy!Manage, Policy!ResetReturns, Policy!Examine, Images,
          ShimAssumption
    <2> QED
      BY <2>1, <2>2, <2>3 DEF Policy!Next
  <1> QED
    BY <1>1, <1>2, PTL DEF Policy!Spec

\* Hence of shim's: while the checks are on, SecureBoot could be read and no
\* reset was missed, the second stage runs only on a trust that is still
\* there, revocations it could not read aside.
THEOREM SecondStageStaysTrusted == Spec => []Policy!SecondStageTrusted
  BY ShimImplementsPolicy, PolicyKeepsTrust, PTL DEF ImplementsPolicy

-----------------------------------------------------------------------------
(* MokManager alone, as the module of that name has it, is what shim runs. *)

\* Nothing of MokManager's is left when it does not run.
OffHolds ==
  pc = "off" => held = Mok!NothingHeld /\ fail_count = 0 /\ timeout = 0 /\ freed = 0

MokStep == OffHolds' /\ (Mok!Next \/ UNCHANGED Mok!mokVars)

\* Steps in which MokManager does not run and no variable of its changes.
LEMMA MokStutter ==
  ASSUME OffHolds, UNCHANGED <<requests, state, locals>>
  PROVE  MokStep
  BY DEF OffHolds, MokStep, Mok!mokVars, requests, state, locals

\* The end of MokManager, or of a boot without it.
LEMMA MokLeaves ==
  ASSUME OffHolds, Mok!Leave, UNCHANGED <<requests, state>>
  PROVE  MokStep
  <1>1. OffHolds'
    BY DEF OffHolds, Mok!Leave
  <1>2. CASE pc = "off"
    BY <1>1, <1>2 DEF MokStep, OffHolds, Mok!Leave, Mok!mokVars, requests, state
  <1>3. CASE pc # "off"
    BY <1>1, <1>3
    DEF MokStep, Mok!Next, Mok!PowerLoss, Mok!requests, Mok!state, requests, state
  <1> QED
    BY <1>2, <1>3

\* What MokManager does by itself or for the owner does not end it.
LEMMA MokGoesOn ==
  ASSUME IInv, Mok!run_menu_timeout \/ Mok!Cleaning \/ Mok!Owner
  PROVE  MokStep
  <1>1. CASE Mok!Owner
    <2>1. pc' # "off"
      BY <1>1, OwnerSteps DEF IInv, TypeOK, Mok!Prompts
    <2> QED
      BY <1>1, <2>1 DEF MokStep, OffHolds, Mok!Next
  <1>2. CASE Mok!run_menu_timeout \/ Mok!Cleaning
    <2>1. pc' # "off"
      BY <1>2 DEF Mok!run_menu_timeout, Mok!Cleaning, Mok!Cleans, Mok!LibDeleteVariable,
                Mok!delete_MokNew, Mok!delete_MokSB,
                  Mok!delete_MokPW, Mok!delete_MokAuth, Mok!Free
    <2> QED
      BY <1>2, <2>1 DEF MokStep, OffHolds, Mok!Next
  <1> QED
    BY <1>1, <1>2

\* shim's verdict may erase the list.
LEMMA MokVerified ==
  ASSUME IInv, OffHolds, handle_image_verify
  PROVE  MokStep
  <1>1. /\ shim = "handle_image" /\ MokList' \in {MokList, {}}
        /\ UNCHANGED <<requests, MokSBState, MokPWStore, locals>>
    BY DEF handle_image_verify, verify_buffer
  <1>2. pc = "off"
    BY <1>1 DEF IInv, RunsHolds
  <1>3. CASE MokList' = MokList
    BY <1>1, <1>3, MokStutter DEF state
  <1>4. CASE MokList' = {}
    <2>1. Mok!verify_mok
      BY <1>1, <1>4 DEF Mok!verify_mok, Mok!requests, Mok!locals, requests, locals
    <2>2. OffHolds'
      BY <1>1 DEF OffHolds, locals
    <2> QED
      BY <1>2, <2>1, <2>2 DEF MokStep, Mok!Next
  <1> QED
    BY <1>1, <1>3, <1>4

\* The entry point of MokManager, or of the second stage.
LEMMA MokStarts ==
  ASSUME IInv, OffHolds, entry_point
  PROVE  MokStep
  <1>1. pc = "off"
    BY DEF IInv, RunsHolds, entry_point
  <1>2. CASE UNCHANGED <<requests, state, locals>>
    BY <1>2, MokStutter
  <1>3. CASE Mok!Starts
    <2>1. pc' # "off"
      BY <1>3 DEF Mok!Starts, Mok!check_mok_request
    <2> QED
      BY <1>1, <1>3, <2>1 DEF MokStep, OffHolds, Mok!Next
  <1> QED
    BY <1>2, <1>3 DEF entry_point

\* A reset that does not come is one of MokManager's steps.
LEMMA MokStays ==
  ASSUME OffHolds, ResetReturns
  PROVE  MokStep
  BY DEF OffHolds, ResetReturns, Mok!reset_returns, Mok!Goto, MokStep, Mok!Next

\* Every step of shim is one of MokManager, or none.
LEMMA StepMok == IInv /\ OffHolds /\ [Next]_vars => MokStep
  <1> SUFFICES ASSUME IInv, OffHolds, [Next]_vars PROVE MokStep
    OBVIOUS
  <1>1. CASE UNCHANGED vars
    BY <1>1, MokStutter DEF vars
  <1>2. CASE efi_main \/ check_mok_sb \/ check_mok_request \/ mirror_mok_list
               \/ start_image \/ handle_image_load \/ start_image_failed
               \/ start_image_return \/ grubx64
    BY <1>2, MokStutter
    DEF efi_main, check_mok_sb, check_mok_request, mirror_mok_list, start_image,
        handle_image_load, start_image_failed, start_image_return, grubx64, Same
  <1>3. CASE PowerOff \/ Restart
    BY <1>3, MokLeaves DEF PowerOff, Restart
  <1>4. CASE MokManagerReturns
    BY <1>4, MokLeaves
    DEF MokManagerReturns, Mok!Return, Mok!requests, Mok!state, requests, state
  <1>5. CASE MokManagerStep(Mok!run_menu_timeout) \/ MokManagerStep(Mok!Cleaning)
               \/ MokManagerStep(Mok!Owner)
    BY <1>5, MokGoesOn DEF MokManagerStep
  <1>6. CASE shim = "OS" /\ Mok!mokutil
    <2>1. pc = "off"
      BY <1>6 DEF IInv, RunsHolds
    <2>2. OffHolds'
      BY <1>6 DEF OffHolds, Mok!mokutil, Mok!locals
    <2> QED
      BY <1>6, <2>1, <2>2 DEF MokStep, Mok!Next
  <1> QED
    BY <1>1, <1>2, <1>3, <1>4, <1>5, <1>6, MokVerified, MokStarts, MokStays DEF Next, ShimStep

\* Every boot of shim's is a run of MokManager's module: what is checked and
\* proved of MokManager by itself holds of it under shim.
THEOREM ShimRunsMokManager == Spec => Mok!Spec
  <1>1. Init => Mok!Init /\ OffHolds
    BY DEF Init, Mok!Init, OffHolds
  <1>2. IInv /\ OffHolds /\ [Next]_vars => OffHolds' /\ [Mok!Next]_(Mok!mokVars)
    BY StepMok DEF MokStep
  <1> QED
    BY Invariance, <1>1, <1>2, PTL DEF Spec, Mok!Spec

\* The theorems about MokManager, of its variables in shim; they know of no history here.
MokP == INSTANCE MokManager_proofs WITH requested <- {}, protected <- {}, failed <- {}

\* They are about the same module.
LEMMA SameModule ==
  (Mok!Init => MokP!Init) /\ ([Mok!Next]_(Mok!mokVars) => [MokP!Next]_(MokP!mokVars))
  BY DEF Mok!Init, MokP!Init, Mok!Next, MokP!Next, Mok!mokVars, MokP!mokVars,
     Mok!Starts, MokP!Starts, Mok!check_mok_request, MokP!check_mok_request, Mok!Read,
     MokP!Read, Mok!verify_pw, MokP!verify_pw, Mok!run_menu_timeout,
     MokP!run_menu_timeout, Mok!run_menu, MokP!run_menu, Mok!run_menu_key,
     MokP!run_menu_key, Mok!back_to_menu, MokP!back_to_menu, Mok!wrong_password,
     MokP!wrong_password, Mok!store_keys, MokP!store_keys, Mok!file_callback,
     MokP!file_callback, Mok!mok_sb_prompt, MokP!mok_sb_prompt, Mok!mok_pw_prompt,
     MokP!mok_pw_prompt, Mok!Owner, MokP!Owner, Mok!delete_MokNew, MokP!delete_MokNew,
     Mok!delete_MokSB, MokP!delete_MokSB, Mok!delete_MokPW, MokP!delete_MokPW,
     Mok!delete_MokAuth, MokP!delete_MokAuth, Mok!Cleaning, MokP!Cleaning, Mok!Cleans,
     MokP!Cleans, Mok!LibDeleteVariable, MokP!LibDeleteVariable, Mok!reset_returns,
     MokP!reset_returns, Mok!PowerLoss, MokP!PowerLoss, Mok!Restart, MokP!Restart,
     Mok!Return, MokP!Return, Mok!mokutil, MokP!mokutil, Mok!verify_mok,
     MokP!verify_mok, Mok!requests, MokP!requests, Mok!state, MokP!state, Mok!locals,
     MokP!locals, Mok!Goto, MokP!Goto, Mok!Free, MokP!Free, Mok!Leave, MokP!Leave,
     Mok!NothingHeld, MokP!NothingHeld, Mok!Prompts, MokP!Prompts, Mok!Cleanup,
     MokP!Cleanup, Mok!Auth, MokP!Auth, Mok!SB, MokP!SB, Mok!Clear, MokP!Clear, Mok!PW,
     MokP!PW, Mok!compute_pw_hash, MokP!compute_pw_hash

\* What MokManager assumes of its constants, shim does.
LEMMA MokAssumes == /\ None \notin Keys /\ None \notin Passwords
                    /\ None \notin (Keys \cup {None}) \X Passwords
                    /\ Timeout \in Nat \ {0}
  BY ShimAssumption DEF ShimAssumption

\* The inductive invariant of MokManager holds under shim.
LEMMA MokInvariance == Spec => []MokP!IInv
  <1>1. MokP!Init => MokP!IInv
    BY MokP!InitIInv, MokAssumes DEF MokP!InitIInv
  <1>2. MokP!IInv /\ [MokP!Next]_(MokP!mokVars) => MokP!IInv'
    BY MokP!StepIInv, MokAssumes DEF MokP!StepIInv
  <1> QED
    BY <1>1, <1>2, SameModule, ShimRunsMokManager, PTL DEF Mok!Spec

\* Whatever a boot has been through, MokManager frees a buffer once too often
\* only with a request beside the one for keys.
THEOREM MokManagerUnderShim == Spec => []Mok!OnlyKnownBadFrees
  <1>1. MokP!IInv => Mok!OnlyKnownBadFrees
    BY MokP!FreesKnown, MokAssumes
    DEF MokP!FreesKnown, MokP!OnlyKnownBadFrees, Mok!OnlyKnownBadFrees
  <1> QED
    BY <1>1, MokInvariance, PTL

-----------------------------------------------------------------------------
(* The end of a boot in which no key is pressed: each call of start_image  *)
(* takes a bounded number of steps, and there are three calls at the most. *)

\* MokManager's own steps from here on, if no one touches a key.
MenuSteps ==
  CASE pc = "menu"           -> timeout + 5
    [] pc = "delete_MokNew"  -> 5
    [] pc = "delete_MokSB"   -> 4
    [] pc = "delete_MokPW"   -> 3
    [] pc = "delete_MokAuth" -> 2
    [] pc = "return"         -> 1
    [] OTHER                 -> 0

CallSteps ==
  CASE shim = "start_image"              -> Timeout + 12
    [] shim = "handle_image"             -> Timeout + 11
    [] shim = "verified"                 -> Timeout + 10
    [] shim = "entry_point"              -> Timeout + 9
    [] shim = "running"                  -> MenuSteps + 3
    [] shim = "not_loaded"               -> 3
    [] shim \in {"succeeded", "failed"}  -> 2

\* More than any one call takes.
Call1 == Timeout + 13

After == IF caller = "check_mok_request" THEN 2 * Call1
         ELSE IF caller = "init_grub" THEN Call1 ELSE 0

StepsLeft ==
  IF shim \in StartImage THEN CallSteps + After
  ELSE IF shim = "check_mok_sb" THEN 3 * Call1 + 1
  ELSE IF shim = "check_mok_request" THEN 3 * Call1
  ELSE IF shim = "mirror_mok_list" THEN 2 * Call1 ELSE 0

\* The steps that need no one: neither the owner's nor the boot manager's.
Advances ==
  ShimStep \/ grubx64 \/ MokManagerStep(Mok!run_menu_timeout) \/ MokManagerStep(Mok!Cleaning)

\* The measure has a bound.
LEMMA StepsLeftType == IInv => StepsLeft \in 0..(3 * Timeout + 40)
  <1> SUFFICES ASSUME IInv PROVE StepsLeft \in 0..(3 * Timeout + 40)
    OBVIOUS
  <1>1. Timeout \in Nat /\ timeout \in 0..Timeout
    BY ShimAssumption DEF ShimAssumption, IInv, TypeOK, Mok!TypeOK
  <1>2. MenuSteps \in 0..(Timeout + 5)
    BY <1>1 DEF MenuSteps
  <1>3. shim \in StartImage => CallSteps \in 0..(Timeout + 12)
    BY <1>1, <1>2 DEF CallSteps, StartImage
  <1>4. After \in 0..(2 * Timeout + 26) /\ 3 * Call1 = 3 * Timeout + 39
        /\ 2 * Call1 = 2 * Timeout + 26
    BY <1>1 DEF After, Call1
  <1> QED
    BY <1>1, <1>3, <1>4 DEF StepsLeft

\* Steps within a call of start_image.
LEMMA CallShortens ==
  ASSUME IInv, shim \in StartImage, shim' \in StartImage, caller' = caller,
         NEW now \in Nat, NEW next \in Nat,
         CallSteps = now, CallSteps' = next, next < now
  PROVE  StepsLeft' < StepsLeft
  <1>1. PICK rest \in Nat : After = rest /\ After' = rest
    BY ShimAssumption DEF ShimAssumption, Call1, After
  <1>2. StepsLeft = now + rest
    BY <1>1 DEF StepsLeft
  <1>3. StepsLeft' = next + rest
    BY <1>1 DEF StepsLeft
  <1> QED
    BY <1>1, <1>2, <1>3

\* Each step that needs no one shortens the boot.
LEMMA AdvanceShortens == IInv /\ Advances => StepsLeft' < StepsLeft
  <1> SUFFICES ASSUME IInv, Advances PROVE StepsLeft' < StepsLeft
    OBVIOUS
  <1>1. Timeout \in Nat \ {0} /\ timeout \in 0..Timeout /\ Call1 \in Nat
        /\ Call1 = Timeout + 13
    BY ShimAssumption DEF ShimAssumption, IInv, TypeOK, Mok!TypeOK, Call1
  <1> USE <1>1
  <1>2. MenuSteps \in 0..(Timeout + 5)
    BY DEF MenuSteps
  <1>3. CASE check_mok_sb \/ check_mok_request \/ mirror_mok_list
    <2>1. CASE check_mok_sb
      BY <2>1 DEF check_mok_sb, Goto, StepsLeft, StartImage
    <2>2. CASE check_mok_request
      BY <2>2 DEF check_mok_request, Goto, Call, StepsLeft, StartImage, CallSteps, After
    <2>3. CASE mirror_mok_list
      BY <2>3 DEF mirror_mok_list, Call, StepsLeft, StartImage, CallSteps, After
    <2> QED
      BY <1>3, <2>1, <2>2, <2>3
  <1>4. CASE start_image \/ handle_image_verify \/ handle_image_load \/ start_image_failed
    <2>1. /\ caller' = caller
          /\ \/ shim = "start_image" /\ shim' \in {"handle_image", "failed"}
             \/ shim = "handle_image" /\ shim' \in {"verified", "not_loaded"}
             \/ shim = "verified" /\ shim' \in {"entry_point", "not_loaded"}
             \/ shim = "not_loaded" /\ shim' = "failed"
      BY <1>4 DEF start_image, handle_image_verify, verify_buffer, handle_image_load,
                  start_image_failed, Goto
    <2>2. PICK now \in Nat, next \in Nat : CallSteps = now /\ CallSteps' = next /\ next < now
      BY <2>1 DEF CallSteps
    <2> QED
      BY <2>1, <2>2, CallShortens DEF StartImage
  <1>5. CASE entry_point
    <2>1. shim = "entry_point" /\ shim' = "running" /\ caller' = caller
      BY <1>5 DEF entry_point, Goto
    <2>2. pc = "off"
      BY <2>1 DEF IInv, RunsHolds
    <2>3. PICK menu \in 0..(Timeout + 5) : MenuSteps' = menu
      BY <1>5, <2>2 DEF entry_point, Mok!Starts, Mok!check_mok_request, locals, MenuSteps
    <2>4. CallSteps = Timeout + 9
      BY <2>1 DEF CallSteps
    <2>5. CallSteps' = menu + 3
      BY <2>1, <2>3 DEF CallSteps
    <2> QED
      BY <2>1, <2>4, <2>5, CallShortens DEF StartImage
  <1>6. CASE MokManagerReturns \/ grubx64
    <2>1. /\ shim = "running" /\ caller' = caller
          /\ shim' \in {"succeeded", "failed", "OS"}
      BY <1>6 DEF MokManagerReturns, grubx64, Returned, Goto
    <2>2. shim' # "OS" => CallSteps' = 2
      BY <2>1 DEF CallSteps
    <2>3. PICK now \in Nat : CallSteps = now /\ now >= 3
      BY <1>2, <2>1 DEF CallSteps
    <2>4. CASE shim' = "OS"
      BY <2>1, <2>3, <2>4 DEF StepsLeft, StartImage, After
    <2>5. CASE shim' # "OS"
      BY <2>1, <2>2, <2>3, <2>5, CallShortens DEF StartImage
    <2> QED
      BY <2>4, <2>5
  <1>7. CASE start_image_return
    <2>1. /\ shim \in {"succeeded", "failed"}
          /\ \/ caller = "check_mok_request" /\ shim' = "mirror_mok_list"
             \/ caller = "init_grub" /\ shim' = "start_image" /\ caller' = "init_grub_again"
             \/ shim' = "off"
      BY <1>7 DEF start_image_return, Goto, Call
    <2>2. CallSteps = 2 /\ (shim' = "start_image" => CallSteps' = Timeout + 12)
      BY <2>1 DEF CallSteps
    <2> QED
      BY <2>1, <2>2 DEF StepsLeft, StartImage, After
  <1>8. CASE MokManagerStep(Mok!run_menu_timeout) \/ MokManagerStep(Mok!Cleaning)
    <2>1. shim = "running" /\ shim' = shim /\ caller' = caller
      BY <1>8 DEF MokManagerStep, shimVars
    <2>2. PICK menu \in Nat : MenuSteps' = menu /\ menu < MenuSteps
      <3>1. CASE Mok!run_menu_timeout
        BY <3>1 DEF Mok!run_menu_timeout, MenuSteps
      <3>2. CASE Mok!Cleaning
        BY <3>2 DEF Mok!Cleaning, Mok!Cleans, Mok!LibDeleteVariable, Mok!delete_MokNew,
                Mok!delete_MokSB, Mok!delete_MokPW,
                    Mok!delete_MokAuth, Mok!Free, MenuSteps
      <3> QED
        BY <1>8, <3>1, <3>2 DEF MokManagerStep
    <2>3. CallSteps = MenuSteps + 3
      BY <2>1 DEF CallSteps
    <2>4. CallSteps' = menu + 3
      BY <2>1, <2>2 DEF CallSteps
    <2> QED
      BY <1>2, <2>1, <2>2, <2>3, <2>4, CallShortens DEF StartImage
  <1> QED
    BY <1>3, <1>4, <1>5, <1>6, <1>7, <1>8 DEF Advances, ShimStep

\* A boot no one interferes with goes on to its end: shim and MokManager make
\* at most so many steps, whatever is requested and whatever fails.
THEOREM BootShortens ==
  Spec => /\ [](StepsLeft \in 0..(3 * Timeout + 40))
          /\ [][Advances => StepsLeft' < StepsLeft]_vars
  <1>1. IInv /\ [Next]_vars => [Advances => StepsLeft' < StepsLeft]_vars
    BY AdvanceShortens
  <1> QED
    BY <1>1, StepsLeftType, Invariance, PTL DEF Spec

-----------------------------------------------------------------------------
(* The guided owner is an owner: what holds for any owner at all holds in  *)
(* the procedure.                                                          *)

\* Each step of the guided owner is one of any owner.
LEMMA GuidedStep == IInv /\ [GuidedNext]_guidedVars => [Next]_vars
  <1> SUFFICES ASSUME IInv, [GuidedNext]_guidedVars PROVE [Next]_vars
    OBVIOUS
  <1>1. CASE UNCHANGED guidedVars
    BY <1>1 DEF guidedVars
  <1>2. CASE Program
    BY <1>2 DEF Program, Next
  <1>3. CASE GuidedOwner
    <2>1. Mok!Owner
      BY <1>3 DEF GuidedOwner, Mok!Owner, Mok!run_menu
    <2>2. shim = "running" /\ image = "MokManager" /\ UNCHANGED shimVars
      BY <1>3 DEF GuidedOwner, IInv, RunsHolds
    <2> QED
      BY <2>1, <2>2 DEF MokManagerStep, Next
  <1> QED
    BY <1>1, <1>2, <1>3 DEF GuidedNext, Works, Reset, Fault, Next

\* The invariant of any owner, in the procedure.
LEMMA GuidedInvariance == GuidedSpec => []IInv
  <1>1. GuidedInit => IInv
    BY InitIInv DEF GuidedInit
  <1>2. IInv /\ [GuidedNext]_guidedVars => IInv'
    BY GuidedStep, StepIInv
  <1> QED
    BY <1>1, <1>2, PTL DEF GuidedSpec

\* GuidedMok restricts Shim, and adds nothing to it.
THEOREM GuidedIsShim == GuidedSpec => Spec
  <1>1. GuidedInit => Init
    BY DEF GuidedInit
  <1> QED
    BY <1>1, GuidedInvariance, GuidedStep, PTL DEF GuidedSpec, Spec

-----------------------------------------------------------------------------
(* The procedure asks for the owner once. *)

\* The second stage is trusted, whatever is read.
Trust ==
  platform.SecureBoot =>
    /\ "grubx64" \notin platform.dbx \cup platform.vendor_dbx
    /\ "grubx64" \in platform.db \cup platform.vendor \/ Key \in MokList

\* Nothing is requested, the checks are on, and the second stage that runs is
\* trusted if nothing was taken for granted.
GuidedHolds ==
  guided =>
    /\ ~Requested /\ MokSBState = 0
    /\ (shim = "OS" \/ (shim = "running" /\ image = "grubx64")) /\ lapses = {} => Trust

\* What the program leaves alone, and when an image has been entered.
LEMMA ProgramKeeps ==
  ASSUME IInv, Program
  PROVE  /\ MokSBState' = MokSBState /\ platform' = platform
         /\ ~Requested => ~Requested'
         /\ shim' = "OS" => /\ shim = "running" /\ image = "grubx64"
                            /\ MokList' = MokList /\ lapses' = lapses
         /\ shim' = "running" => image' = image
         /\ shim' = "running" /\ shim # "running" => entry_point
         /\ shim' = "running" /\ shim = "running" => image = "MokManager"
  <1> USE DEF Requested
  <1>1. CASE efi_main \/ check_mok_sb \/ check_mok_request \/ mirror_mok_list
               \/ start_image \/ handle_image_load \/ start_image_failed
               \/ start_image_return
    BY <1>1
    DEF efi_main, check_mok_sb, check_mok_request, mirror_mok_list, start_image,
        handle_image_load, start_image_failed, start_image_return, Same, requests, state,
        Goto, Call
  <1>2. CASE handle_image_verify
    BY <1>2 DEF handle_image_verify, verify_buffer, Goto, requests
  <1>3. CASE entry_point
    BY <1>3 DEF entry_point, Goto, Mok!Starts, Mok!check_mok_request, Mok!requests, Mok!state,
                requests, state
  <1>4. CASE MokManagerReturns \/ grubx64
    BY <1>4 DEF MokManagerReturns, grubx64, Returned, Goto, Mok!Return, Mok!requests,
                Mok!state, requests, state
  <1>5. CASE MokManagerStep(Mok!run_menu_timeout) \/ MokManagerStep(Mok!Cleaning)
    BY <1>5
    DEF MokManagerStep, Mok!run_menu_timeout, Mok!Cleaning, Mok!Cleans,
        Mok!LibDeleteVariable, Mok!delete_MokNew,
        Mok!delete_MokSB, Mok!delete_MokPW, Mok!delete_MokAuth, Mok!requests, Mok!state,
        requests, state, shimVars
  <1> QED
    BY <1>1, <1>2, <1>3, <1>4, <1>5 DEF Program, ShimStep

\* The programs keep what the guided owner relies on,
LEMMA ProgramGuided ==
  ASSUME IInv, GuidedHolds, guided, Program, guided' = guided
  PROVE  GuidedHolds'
  <1>1. ~Requested' /\ MokSBState' = 0
    BY ProgramKeeps DEF GuidedHolds
  <1>2. CASE shim' = "OS"
    BY <1>1, <1>2, ProgramKeeps DEF GuidedHolds, Trust, Key
  <1>3. CASE shim' = "running" /\ image' = "grubx64"
    <2>1. entry_point /\ image = "grubx64"
      BY <1>3, ProgramKeeps
    <2>2. MokList' = MokList /\ platform' = platform /\ lapses' = lapses
      BY <2>1 DEF entry_point, Mok!Starts, Mok!check_mok_request, Mok!state, state
    <2>3. lapses = {} => Trust
      BY <2>1 DEF entry_point, IInv, Rest, VerdictHolds, GuidedHolds, Trust, Key,
                Policy!Trusted,
                  Policy!Revoked, Policy!Checked
    <2> QED
      BY <1>1, <1>3, <2>2, <2>3 DEF GuidedHolds, Trust, Key
  <1> QED
    BY <1>1, <1>2, <1>3 DEF GuidedHolds

\* and so does every step.
LEMMA StepGuided == IInv /\ GuidedHolds /\ [GuidedNext]_guidedVars => GuidedHolds'
  <1> SUFFICES ASSUME IInv, GuidedHolds, [GuidedNext]_guidedVars, guided PROVE GuidedHolds'
    BY DEF GuidedHolds, GuidedNext, guidedVars, Works, GuidedOwner, Reset, Fault
  <1>1. CASE UNCHANGED guidedVars
    BY <1>1 DEF guidedVars, vars, shimVars, requests, state, GuidedHolds, Requested, Trust, Key
  <1>2. CASE Works \/ (Fault /\ Program)
    BY <1>2, ProgramGuided DEF Works, Fault
  <1>3. CASE GuidedOwner
    <2>1. shim' = "running" /\ image' = "MokManager"
      BY <1>3 DEF GuidedOwner, IInv, RunsHolds, shimVars
    <2>2. ~Requested' /\ MokSBState' = 0
      BY <1>3 DEF GuidedOwner, Mok!file_callback, Mok!run_menu_key, Mok!requests, Mok!state,
                  GuidedHolds, Requested
    <2> QED
      BY <2>1, <2>2 DEF GuidedHolds
  <1>4. CASE PowerOff
    BY <1>4 DEF PowerOff, requests, state, GuidedHolds, Requested
  <1> QED
    BY <1>1, <1>2, <1>3, <1>4 DEF GuidedNext, Reset, Fault

\* A boot has gone by and no fault is left: from here to the next menu there is
\* no way.
Settled ==
  /\ guided /\ faults = 0 /\ lapses = {}
  /\ ~Requested /\ MokSBState = 0 /\ pc = "off" /\ Trust
  /\ shim \notin {"not_loaded", "failed", "succeeded"}
  /\ shim \in StartImage => image = "grubx64"

\* No step of the programs leads back to the menu,
LEMMA ProgramSettled ==
  ASSUME IInv, Settled, Program, ~Fails, UNCHANGED <<guided, faults>>
  PROVE  Settled'
  <1>1. insecure_mode = FALSE \/ shim \in {"off"}
    BY DEF Settled, IInv, TypeOK, Rest, InsecureHolds
  <1>2. MokSBState' = 0 /\ platform' = platform /\ ~Requested' /\ lapses' = {}
    BY ProgramKeeps DEF Settled, Fails
  <1>3. CASE efi_main \/ check_mok_sb \/ check_mok_request \/ mirror_mok_list
               \/ start_image \/ handle_image_load
    BY <1>2, <1>3
    DEF efi_main, check_mok_sb, check_mok_request, mirror_mok_list, start_image,
        handle_image_load, Same, state, locals, Goto, Call, Fails, Settled, StartImage,
        Trust, Key
  <1>4. CASE handle_image_verify
    <2>1. shim = "handle_image" /\ image = "grubx64" /\ image' = image /\ pc' = pc
          /\ MokList' \in {MokList, {}} /\ shim' \in {"not_loaded", "verified"}
      BY <1>4 DEF handle_image_verify, verify_buffer, Goto, Settled, StartImage, locals
    <2>2. secure_mode => ~Blacklisted /\ Whitelisted(MokList)
      BY <1>2, <2>1 DEF secure_mode, Blacklisted, Whitelisted, Settled, Trust, Key
    <2>3. shim' = "verified"
      BY <2>1, <2>2 DEF Fails
    <2>4. Trust'
      BY <1>2, <2>1 DEF Fails, Settled, Trust, Key
    <2> QED
      BY <1>2, <2>1, <2>3, <2>4 DEF Settled, StartImage
  <1>5. CASE entry_point
    BY <1>2, <1>5 DEF entry_point, Goto, Settled, StartImage, Trust, Key, state,
                      locals
  <1>6. CASE grubx64
    BY <1>2, <1>6 DEF grubx64, Goto, Fails, Settled, StartImage, Trust, Key, state,
                      locals
  <1>7. ~(start_image_failed \/ start_image_return \/ MokManagerReturns)
    BY DEF start_image_failed, start_image_return, MokManagerReturns, Settled, StartImage
  <1>8. ~(MokManagerStep(Mok!run_menu_timeout) \/ MokManagerStep(Mok!Cleaning))
    BY DEF MokManagerStep, Settled, StartImage
  <1> QED
    BY <1>3, <1>4, <1>5, <1>6, <1>7, <1>8 DEF Program, ShimStep

\* and no step of the procedure at all.
LEMMA StepSettled == IInv /\ Settled /\ [GuidedNext]_guidedVars => Settled'
  <1> SUFFICES ASSUME IInv, Settled, [GuidedNext]_guidedVars PROVE Settled'
    OBVIOUS
  <1>1. CASE UNCHANGED guidedVars
    BY <1>1 DEF guidedVars, vars, shimVars, requests, state, locals, Settled, Requested,
                Trust, Key
  <1>2. CASE Works
    BY <1>2, ProgramSettled DEF Works
  <1>3. CASE Reset
    BY <1>3 DEF Reset, PowerOff, Mok!Leave, requests, state, Settled, StartImage, Requested,
                Trust, Key
  <1>4. ~GuidedOwner /\ ~Fault
    BY DEF GuidedOwner, Fault, Settled
  <1> QED
    BY <1>1, <1>2, <1>3, <1>4 DEF GuidedNext, Settled

\* The owner is asked at the first execution only: once a boot has gone by
\* without a fault, the menu does not come back in another one without.
THEOREM AskedOnce == GuidedSpec => AskedAtFirstOnly
  <1>1. GuidedInit => GuidedHolds
    BY DEF GuidedInit, GuidedHolds, Init, Mok!Init, Requested
  <1>2. guided /\ [GuidedNext]_guidedVars => guided'
    BY DEF GuidedNext, guidedVars, Works, GuidedOwner, Reset, Fault
  <1>3. IInv /\ GuidedHolds /\ guided /\ faults = 0 /\ shim = "OS" /\ lapses = {} => Settled
    BY DEF IInv, RunsHolds, GuidedHolds, Settled, StartImage
  <1>4. Settled => pc # "menu"
    BY DEF Settled
  <1> QED
    BY <1>1, <1>2, <1>3, <1>4, GuidedInvariance, StepGuided, StepSettled, PTL
    DEF GuidedSpec, AskedAtFirstOnly
=============================================================================
