------------------------- MODULE MokManager_proofs --------------------------
(***************************************************************************)
(* MokManager for every set of keys and passwords, whatever reads and      *)
(* deletions fail.  The first part is about one run and what it frees; the *)
(* second takes in the history: a request that was not read is not there   *)
(* or could not be read, since nothing writes requests while MokManager    *)
(* runs, and the list moves only with what the owner asked for.            *)
(***************************************************************************)
EXTENDS MokHistory, TLAPS

Num(request) == IF request # None THEN 1 ELSE 0

\* Before the clean-up nothing has been freed; then once for each request.
Early == {"off", "verify_pw", "menu", "MokSB_changed", "MokPWStore_changed", "reset",
          "delete_MokNew"} \cup Prompts

FreedForEach ==
  /\ pc \in Early => freed = 0
  /\ pc = "delete_MokSB" => freed = Num(held.MokNew)
  /\ pc = "delete_MokPW" => freed = Num(held.MokNew) + Num(held.MokSB)
  /\ pc \in {"delete_MokAuth", "return"}
       => freed = Num(held.MokNew) + Num(held.MokSB) + Num(held.MokPW)

IInv ==
  /\ TypeOK
  /\ FreedForEach

\* Steps before the clean-up free nothing.
LEMMA EarlyStep ==
  ASSUME IInv, TypeOK', pc \in Early \ {"off"}, pc' \in Early \ {"off"}, freed' = freed
  PROVE  IInv'
  BY DEF IInv, FreedForEach, Early, Prompts

\* A fresh machine has no requests and nothing runs.
LEMMA InitIInv == Init => IInv
  BY MokAssumption
  DEF Init, IInv, TypeOK, FreedForEach, Early, NothingHeld, MokAssumption

\* The start of MokManager reads what there is.
LEMMA StartIInv ==
  ASSUME IInv, pc = "off", NEW unread, check_mok_request(unread)
  PROVE  IInv'
  <1>1. pc' \in {"menu", "verify_pw", "delete_MokNew"}
    BY DEF check_mok_request
  <1>2. TypeOK'
    BY <1>1, MokAssumption
    DEF IInv, TypeOK, check_mok_request, Read, requests, state, MokAssumption, Cleanup
  <1> QED
    BY <1>1, <1>2
    DEF IInv, check_mok_request, requests, state, FreedForEach, Early

\* The prompts and the menu leave the clean-up's part of IInv alone.
LEMMA OwnerIInv ==
  ASSUME IInv, Owner \/ run_menu_timeout \/ reset_returns
  PROVE  IInv'
  <1> USE MokAssumption
      DEF requests, state, Goto, Early, Prompts, Cleanup, MokAssumption, LibDeleteVariable
  <1>1. CASE verify_pw
    <2>1. TypeOK'
      BY <1>1 DEF IInv, TypeOK, verify_pw
    <2> QED
      BY <1>1, <2>1, EarlyStep DEF verify_pw
  <1>2. CASE run_menu
    <2>1. PICK label \in {"menu", "delete_MokNew", "store_keys", "mok_sb_prompt",
                          "mok_pw_prompt"} : run_menu_key(label)
      BY <1>2 DEF run_menu
    <2>2. TypeOK'
      BY <2>1 DEF IInv, TypeOK, run_menu_key, MokAssumption
    <2> QED
      BY <2>1, <2>2, EarlyStep DEF run_menu_key
  <1>3. CASE back_to_menu
    <2>1. TypeOK'
      BY <1>3 DEF IInv, TypeOK, back_to_menu
    <2> QED
      BY <1>3, <2>1, EarlyStep DEF back_to_menu
  <1>4. CASE wrong_password
    <2>1. TypeOK'
      BY <1>4 DEF IInv, TypeOK, wrong_password
    <2> QED
      BY <1>4, <2>1, EarlyStep DEF wrong_password
  <1>5. CASE store_keys
    <2>1. TypeOK'
      BY <1>5 DEF IInv, TypeOK, store_keys
    <2> QED
      BY <1>5, <2>1, EarlyStep DEF store_keys
  <1>6. CASE file_callback
    <2>1. TypeOK'
      BY <1>6 DEF IInv, TypeOK, file_callback
    <2> QED
      BY <1>6, <2>1, EarlyStep DEF file_callback
  <1>7. CASE mok_sb_prompt
    <2>1. TypeOK'
      BY <1>7 DEF IInv, TypeOK, mok_sb_prompt
    <2> QED
      BY <1>7, <2>1, EarlyStep DEF mok_sb_prompt
  <1>8. CASE mok_pw_prompt
    <2>1. TypeOK'
      BY <1>8 DEF IInv, TypeOK, mok_pw_prompt, PW
    <2> QED
      BY <1>8, <2>1, EarlyStep DEF mok_pw_prompt
  <1>9. CASE run_menu_timeout
    <2>1. TypeOK'
      BY <1>9, MokAssumption DEF IInv, TypeOK, run_menu_timeout, MokAssumption
    <2> QED
      BY <1>9, <2>1, EarlyStep DEF run_menu_timeout
  <1>10. CASE reset_returns
    <2>1. TypeOK'
      BY <1>10 DEF IInv, TypeOK, reset_returns
    <2> QED
      BY <1>10, <2>1, EarlyStep DEF reset_returns
  <1> QED
    BY <1>1, <1>2, <1>3, <1>4, <1>5, <1>6, <1>7, <1>8, <1>9, <1>10 DEF Owner

\* Each step of the clean-up frees once for its request.
LEMMA CleaningIInv ==
  ASSUME IInv, NEW works, Cleans(works)
  PROVE  IInv'
  <1> USE DEF IInv, TypeOK, FreedForEach, Early, Num, Free, state, Cleanup, Prompts,
              LibDeleteVariable
  <1>1. CASE delete_MokNew(works)
    BY <1>1 DEF delete_MokNew
  <1>2. CASE delete_MokSB(works)
    BY <1>2 DEF delete_MokSB
  <1>3. CASE delete_MokPW(works)
    BY <1>3 DEF delete_MokPW
  <1>4. CASE delete_MokAuth(works)
    BY <1>4 DEF delete_MokAuth
  <1> QED
    BY <1>1, <1>2, <1>3, <1>4 DEF Cleans

\* When MokManager is left, nothing of IInv is left but the types.
LEMMA LeaveIInv ==
  ASSUME IInv, Leave, UNCHANGED <<requests, state>>
  PROVE  IInv'
  BY MokAssumption
  DEF IInv, TypeOK, Leave, NothingHeld, requests, state,
      FreedForEach, Early, MokAssumption

\* mokutil only writes while MokManager does not run.
LEMMA MokutilIInv ==
  ASSUME IInv, pc = "off", mokutil
  PROVE  IInv'
  <1>1. UNCHANGED <<state, locals>>
    BY DEF mokutil
  <1>2. TypeOK'
    BY <1>1 DEF IInv, TypeOK, mokutil, state, locals
  <1> QED
    BY <1>1, <1>2 DEF IInv, locals, FreedForEach, Early

\* shim's check of the list concerns no request.
LEMMA VerifyMokIInv ==
  ASSUME IInv, pc = "off", verify_mok
  PROVE  IInv'
  <1>1. UNCHANGED <<requests, locals>>
    BY DEF verify_mok
  <1>2. TypeOK'
    BY <1>1 DEF IInv, TypeOK, verify_mok, requests, locals
  <1> QED
    BY <1>1, <1>2 DEF IInv, requests, locals, FreedForEach

\* Every action keeps IInv.
LEMMA StepIInv == IInv /\ [Next]_mokVars => IInv'
  <1>1. SUFFICES ASSUME IInv, [Next]_mokVars PROVE IInv'
    OBVIOUS
  <1>2. CASE UNCHANGED mokVars
    BY <1>1, <1>2 DEF mokVars, IInv, TypeOK, FreedForEach, Early
  <1>3. CASE Restart \/ Return \/ PowerLoss
    BY <1>1, <1>3, LeaveIInv DEF Restart, Return, PowerLoss
  <1> QED
    BY <1>1, <1>2, <1>3, StartIInv, MokutilIInv, VerifyMokIInv,
       OwnerIInv, CleaningIInv DEF Next, Starts, Cleaning

\* Hence IInv holds throughout.
THEOREM Invariance == Spec => []IInv
  <1>1. Init => IInv
    BY InitIInv
  <1>2. IInv /\ [Next]_mokVars => IInv'
    BY StepIInv
  <1> QED
    BY <1>1, <1>2, PTL DEF Spec

\* The variables and MokManager's own keep their types.
THEOREM TypeCorrect == Spec => []TypeOK
  <1>1. IInv => TypeOK
    BY DEF IInv
  <1> QED
    BY <1>1, Invariance, PTL

\* What the invariant says of FreePool.
LEMMA FreesKnown == IInv => OnlyKnownBadFrees
  <1>1. SUFFICES ASSUME IInv, held.MokSB = None, held.MokPW = None
                 PROVE  freed <= Num(held.MokNew)
    BY DEF OnlyKnownBadFrees, Num, IInv, TypeOK
  <1> QED
    BY <1>1 DEF IInv, TypeOK, FreedForEach, Early, Num, Prompts, Cleanup

\* The wrong FreePool needs a request beside the one for keys.
THEOREM BadFreesKnown == Spec => []OnlyKnownBadFrees
  BY FreesKnown, Invariance, PTL

-----------------------------------------------------------------------------
(* With the history. *)

HInv ==
  /\ HistoryTypeOK
  /\ ListFollowsOwner
  /\ protected # {} => MokAuth \notin Erase
  /\ \A key \in Keys, password \in Passwords : MokAuth = <<key, password>> => key \in requested

\* Only what was read can still be there, and not after its turn.
RequestsHeld ==
  pc # "off" =>
    /\ held.MokNew = None => MokNew = None \/ "MokNew" \in failed
    /\ held.MokSB = None  => MokSB = None \/ "MokSB" \in failed
    /\ held.MokPW = None  => MokPW = None \/ "MokPW" \in failed

RequestsGone ==
  /\ pc \in {"delete_MokSB", "delete_MokPW", "delete_MokAuth", "return"}
       => MokNew = None \/ "MokNew" \in failed
  /\ pc \in {"delete_MokPW", "delete_MokAuth", "return"} => MokSB = None \/ "MokSB" \in failed
  /\ pc \in {"delete_MokAuth", "return"} => MokPW = None \/ "MokPW" \in failed
  /\ pc = "return" => MokAuth = None \/ "MokAuth" \in failed

RInv == RequestsHeld /\ RequestsGone

\* The history only watches.
LEMMA HistoryStep == [HistoryNext]_<<mokVars, history>> => [Next]_mokVars
  BY DEF HistoryNext, Next, Adds, Requests, Distrusts, StartsRun, CleansUp, EndsRun, Others,
         Starts, Cleaning, Owner

(* MokManager with its history is MokManager, so that what holds of the    *)
(* one, with any of its calls failing, holds of the other.                 *)
THEOREM HistoryIsMokManager == HistorySpec => Spec
  BY HistoryStep, PTL DEF HistorySpec, HistoryInit, Spec

\* Steps that touch neither the list nor, but for deleting it, mokutil's hash.
LEMMA QuietHistory ==
  ASSUME HInv, UNCHANGED <<MokList, requested, protected>>, MokAuth' \in {MokAuth, None},
         HistoryTypeOK'
  PROVE  HInv'
  <1>1. None \notin Erase
    BY MokAssumption DEF MokAssumption, Erase
  <1>2. ASSUME NEW key \in Keys, NEW password \in Passwords, MokAuth' = <<key, password>>
        PROVE  MokAuth = <<key, password>>
    <2>1. <<key, password>> \in (Keys \cup {None}) \X Passwords
      OBVIOUS
    <2> QED
      BY <1>2, <2>1, MokAssumption DEF MokAssumption
  <1> QED
    BY <1>1, <1>2 DEF HInv, ListFollowsOwner

\* The list grows by a key that was asked for, and shrinks only if none is
\* protected.
LEMMA AddsHInv ==
  ASSUME IInv, HInv, Adds
  PROVE  HInv'
  <1>1. UNCHANGED <<MokAuth, failed>>
    BY DEF Adds, store_keys, file_callback, requests
  <1>2. CASE store_keys
    <2>1. PICK password \in Passwords : MokAuth = <<held.MokNew, password>>
      BY <1>2 DEF store_keys, compute_pw_hash
    <2>2. held.MokNew \in Keys \cup {None}
      BY DEF IInv, TypeOK
    <2>3. requested' = requested
      BY <1>2 DEF Adds, store_keys
    <2>4. CASE held.MokNew = None
      <3>1. MokAuth \in Erase /\ MokList' = {} /\ protected' = protected
        BY <1>2, <2>1, <2>4 DEF Erase, store_keys, Adds
      <3>2. protected = {}
        BY <3>1 DEF HInv
      <3> QED
        BY <1>1, <2>3, <3>1, <3>2 DEF HInv, HistoryTypeOK, ListFollowsOwner
    <2>5. CASE held.MokNew # None
      <3>1. held.MokNew \in Keys /\ held.MokNew \in requested
        BY <2>1, <2>2, <2>5 DEF HInv
      <3>2. MokList' = MokList \cup {held.MokNew}
        BY <1>2, <2>5 DEF store_keys
      <3>3. MokAuth \notin Erase
        BY <2>1, <2>5 DEF Erase
      <3>4. protected' = protected \cup (MokList' \ MokList)
        BY <3>3 DEF Adds
      <3> QED
        BY <1>1, <2>3, <3>1, <3>2, <3>3, <3>4 DEF HInv, HistoryTypeOK, ListFollowsOwner
    <2> QED
      BY <2>4, <2>5
  <1>3. CASE file_callback
    <2>1. PICK key \in Keys : MokList' = MokList \cup {key}
      BY <1>3 DEF file_callback
    <2>2. requested' = requested \cup (MokList' \ MokList)
      BY <1>3 DEF Adds, file_callback
    <2>3. protected' = IF MokAuth \in Erase THEN protected ELSE protected \cup (MokList' \ MokList)
      BY DEF Adds
    <2> QED
      BY <1>1, <2>1, <2>2, <2>3 DEF HInv, HistoryTypeOK, ListFollowsOwner
  <1> QED
    BY <1>2, <1>3 DEF Adds

\* Every step keeps what the history says of the list.
LEMMA StepHInv ==
  ASSUME IInv, HInv, [HistoryNext]_<<mokVars, history>>
  PROVE  HInv'
  <1>1. CASE UNCHANGED <<mokVars, history>>
    BY <1>1, QuietHistory DEF mokVars, history, HInv, HistoryTypeOK
  <1>2. CASE Requests
    <2>1. MokList' = MokList
      BY <1>2 DEF Requests, mokutil, state
    <2> QED
      BY <1>2, <2>1 DEF Requests, HInv, HistoryTypeOK, ListFollowsOwner
  <1>3. CASE Distrusts
    <2>1. MokList' = {} /\ MokAuth' = MokAuth
      BY <1>3 DEF Distrusts, verify_mok, requests
    <2> QED
      BY <1>3, <2>1 DEF Distrusts, HInv, HistoryTypeOK, ListFollowsOwner
  <1>4. CASE StartsRun
    <2>1. UNCHANGED <<MokList, MokAuth>>
      BY <1>4 DEF StartsRun, check_mok_request, requests, state
    <2> QED
      BY <1>4, <2>1, QuietHistory DEF StartsRun, HInv, HistoryTypeOK
  <1>5. CASE CleansUp
    <2>1. PICK works \in BOOLEAN :
            Cleans(works) /\ failed' = IF works THEN failed ELSE failed \cup {Request}
      BY <1>5 DEF CleansUp
    <2>2. MokList' = MokList /\ MokAuth' \in {MokAuth, None}
      BY <2>1 DEF Cleans, delete_MokNew, delete_MokSB, delete_MokPW, delete_MokAuth, state,
                  LibDeleteVariable
    <2>3. Request \in {"MokNew", "MokSB", "MokPW", "MokAuth"}
      BY DEF Request
    <2> QED
      BY <1>5, <2>1, <2>2, <2>3, QuietHistory DEF CleansUp, HInv, HistoryTypeOK
  <1>6. CASE EndsRun
    <2>1. UNCHANGED <<MokList, MokAuth>>
      BY <1>6 DEF EndsRun, Restart, Return, PowerLoss, requests, state
    <2> QED
      BY <1>6, <2>1, QuietHistory DEF EndsRun, HInv, HistoryTypeOK
  <1>7. CASE Others
    <2>1. UNCHANGED <<MokList, MokAuth>>
      BY <1>7 DEF Others, run_menu_timeout, verify_pw, run_menu, run_menu_key, back_to_menu,
                  wrong_password, mok_sb_prompt, mok_pw_prompt, reset_returns, requests, state
    <2> QED
      BY <1>7, <2>1, QuietHistory DEF Others, history, HInv, HistoryTypeOK
  <1> QED
    BY <1>1, <1>2, <1>3, <1>4, <1>5, <1>6, <1>7, AddsHInv DEF HistoryNext

\* Steps that read no request and end no run leave at most fewer requests.
LEMMA KeptRequests ==
  ASSUME RInv, pc' \in Early, pc # "off", held' = held, failed' = failed,
         MokNew' = MokNew, MokSB' \in {MokSB, None}, MokPW' \in {MokPW, None}
  PROVE  RInv'
  <1>1. RequestsHeld'
    BY DEF RInv, RequestsHeld
  <1>2. RequestsGone'
    BY DEF RequestsGone, Early, Prompts
  <1> QED
    BY <1>1, <1>2 DEF RInv

\* Each step of the clean-up removes its request or is seen to fail.
LEMMA CleansRInv ==
  ASSUME IInv, RInv, CleansUp
  PROVE  RInv'
  <1>1. PICK works \in BOOLEAN :
          Cleans(works) /\ failed' = IF works THEN failed ELSE failed \cup {Request}
    BY DEF CleansUp
  <1> USE DEF RInv, RequestsHeld, RequestsGone, LibDeleteVariable, Free, Request
  <1>2. CASE delete_MokNew(works)
    BY <1>1, <1>2 DEF delete_MokNew
  <1>3. CASE delete_MokSB(works)
    BY <1>1, <1>3 DEF delete_MokSB
  <1>4. CASE delete_MokPW(works)
    BY <1>1, <1>4 DEF delete_MokPW
  <1>5. CASE delete_MokAuth(works)
    BY <1>1, <1>5 DEF delete_MokAuth
  <1> QED
    BY <1>1, <1>2, <1>3, <1>4, <1>5 DEF Cleans

\* Every step keeps what the history says of the requests.
LEMMA StepRInv ==
  ASSUME IInv, RInv, [HistoryNext]_<<mokVars, history>>
  PROVE  RInv'
  <1>1. CASE UNCHANGED <<mokVars, history>>
    BY <1>1 DEF mokVars, history, RInv, RequestsHeld, RequestsGone
  <1>2. CASE Requests \/ Distrusts
    <2>1. pc = "off" /\ pc' = "off"
      BY <1>2 DEF Requests, Distrusts, mokutil, verify_mok, locals
    <2> QED
      BY <2>1 DEF RInv, RequestsHeld, RequestsGone
  <1>3. CASE StartsRun
    <2>1. PICK unread \in SUBSET {"MokNew", "MokSB", "MokPW"} :
            check_mok_request(unread) /\ failed' = unread
      BY <1>3 DEF StartsRun
    <2>2. pc' \in {"menu", "delete_MokNew", "verify_pw"} /\ UNCHANGED requests
      BY <2>1 DEF check_mok_request
    <2>3. RequestsHeld'
      BY <2>1, <2>2 DEF check_mok_request, Read, requests, RequestsHeld
    <2>4. RequestsGone'
      BY <2>2 DEF RequestsGone
    <2> QED
      BY <2>3, <2>4 DEF RInv
  <1>4. CASE EndsRun
    <2>1. pc' = "off"
      BY <1>4 DEF EndsRun, Restart, Return, PowerLoss, Leave
    <2> QED
      BY <2>1 DEF RInv, RequestsHeld, RequestsGone
  <1>5. CASE Adds \/ Others
    <2>1. /\ pc # "off" /\ held' = held /\ failed' = failed
          /\ MokNew' = MokNew /\ MokSB' \in {MokSB, None} /\ MokPW' \in {MokPW, None}
      BY <1>5 DEF Adds, Others, store_keys, file_callback, run_menu_timeout, verify_pw,
                run_menu,
                  run_menu_key, back_to_menu, wrong_password, mok_sb_prompt, mok_pw_prompt,
                  reset_returns, requests, state, Goto, history, Prompts, LibDeleteVariable
    <2>2. pc' \in Early
      BY <1>5 DEF Adds, Others, store_keys, file_callback, run_menu_timeout, verify_pw,
                run_menu,
                  run_menu_key, back_to_menu, wrong_password, mok_sb_prompt, mok_pw_prompt,
                  reset_returns, Goto, Prompts, Early
    <2> QED
      BY <2>1, <2>2, KeptRequests
  <1> QED
    BY <1>1, <1>2, <1>3, <1>4, <1>5, CleansRInv DEF HistoryNext

\* Both hold from the first boot on.
LEMMA HistoryInvariance == HistorySpec => [](IInv /\ HInv /\ RInv)
  <1>1. HistoryInit => IInv /\ HInv /\ RInv
    <2>1. SUFFICES ASSUME HistoryInit PROVE IInv /\ HInv /\ RInv
      OBVIOUS
    <2>2. IInv
      BY <2>1, InitIInv DEF HistoryInit
    <2>3. /\ MokAuth = None /\ pc = "off" /\ MokList = {}
          /\ requested = {} /\ protected = {} /\ failed = {}
      BY <2>1 DEF HistoryInit, Init
    <2>4. \A key \in Keys, password \in Passwords : None # <<key, password>>
      <3>1. ASSUME NEW key \in Keys, NEW password \in Passwords PROVE None # <<key, password>>
        <4>1. <<key, password>> \in (Keys \cup {None}) \X Passwords
          OBVIOUS
        <4> QED
          BY <4>1, MokAssumption DEF MokAssumption
      <3> QED
        BY <3>1
    <2>5. HInv
      BY <2>3, <2>4 DEF HInv, HistoryTypeOK, ListFollowsOwner
    <2> QED
      BY <2>2, <2>3, <2>5 DEF RInv, RequestsHeld, RequestsGone
  <1>2. IInv /\ HInv /\ RInv /\ [HistoryNext]_<<mokVars, history>> => IInv' /\ HInv' /\ RInv'
    BY HistoryStep, StepIInv, StepHInv, StepRInv
  <1> QED
    BY <1>1, <1>2, PTL DEF HistorySpec

(* Whatever was left behind and mixed, and whatever fails: the list holds  *)
(* nothing the owner has not asked for, and loses nothing on mokutil's     *)
(* word before an erasure was asked for.  The hash in MokAuth covers the   *)
(* keys, and every request ends up in it.                                  *)
THEOREM OwnerFollowed == HistorySpec => []ListFollowsOwner
  <1>1. HInv => ListFollowsOwner
    BY DEF HInv
  <1> QED
    BY <1>1, HistoryInvariance, PTL

(* MokManager hands back only requests whose reading or deletion failed in *)
(* this run, whatever was chosen in it.                                    *)
THEOREM RequestsConsumed == HistorySpec => []NoRequestLeft
  <1>1. RInv => NoRequestLeft
    BY DEF RInv, RequestsGone, NoRequestLeft
  <1> QED
    BY <1>1, HistoryInvariance, PTL
=============================================================================
