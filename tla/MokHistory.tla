----------------------------- MODULE MokHistory -----------------------------
(***************************************************************************)
(* MokManager with a memory for what its variables alone do not tell: what *)
(* the owner has asked for, on any boot before, and what failed in the run *)
(* at hand.  The history is written beside MokManager's steps and is read  *)
(* by none of them.                                                        *)
(***************************************************************************)
EXTENDS MokManager

VARIABLES
  requested,   \* the keys mokutil has made a MokAuth for or the disk has given
  protected,   \* those in the list that no one may erase on mokutil's word
  failed       \* the requests this run could not read or could not delete

history == <<requested, protected, failed>>

HistoryTypeOK ==
  /\ requested \subseteq Keys /\ protected \subseteq Keys
  /\ failed \subseteq {"MokNew", "MokSB", "MokPW", "MokAuth"}

HistoryInit == Init /\ requested = {} /\ protected = {} /\ failed = {}

Erase == {None} \X Passwords

\* The request a step of the clean-up is about.
Request ==
  CASE pc = "delete_MokNew" -> "MokNew" [] pc = "delete_MokSB" -> "MokSB"
    [] pc = "delete_MokPW"  -> "MokPW"  [] OTHER               -> "MokAuth"

-----------------------------------------------------------------------------
\* A key that is added is protected unless a request to erase is pending.
Adds ==
  /\ store_keys \/ file_callback
  /\ protected' = IF MokAuth \in Erase THEN protected ELSE protected \cup (MokList' \ MokList)
  /\ requested' = IF pc = "menu" THEN requested \cup (MokList' \ MokList) ELSE requested
  /\ UNCHANGED failed

Requests ==
  /\ pc = "off" /\ mokutil
  /\ requested' = requested
       \cup {key \in Keys : \E password \in Passwords : MokAuth' = <<key, password>>}
  /\ protected' = IF MokAuth' \in Erase THEN {} ELSE protected
  /\ UNCHANGED failed

Distrusts ==
  /\ pc = "off" /\ verify_mok
  /\ protected' = {}
  /\ UNCHANGED <<requested, failed>>

StartsRun ==
  /\ pc = "off"
  /\ \E unread \in SUBSET {"MokNew", "MokSB", "MokPW"} :
       check_mok_request(unread) /\ failed' = unread
  /\ UNCHANGED <<requested, protected>>

CleansUp ==
  /\ \E works \in BOOLEAN :
       Cleans(works) /\ failed' = IF works THEN failed ELSE failed \cup {Request}
  /\ UNCHANGED <<requested, protected>>

EndsRun ==
  /\ Restart \/ Return \/ PowerLoss
  /\ failed' = {}
  /\ UNCHANGED <<requested, protected>>

Others ==
  /\ \/ run_menu_timeout \/ verify_pw \/ run_menu \/ back_to_menu \/ wrong_password
     \/ mok_sb_prompt \/ mok_pw_prompt \/ reset_returns
  /\ UNCHANGED history

HistoryNext ==
  Adds \/ Requests \/ Distrusts \/ StartsRun \/ CleansUp \/ EndsRun \/ Others

HistorySpec == HistoryInit /\ [][HistoryNext]_<<mokVars, history>>

-----------------------------------------------------------------------------
(* Whatever mokutil, earlier runs, power losses, and failing reads and     *)
(* deletions have left behind and mixed: no key gets into the list that    *)
(* the owner has neither given a password for nor taken from the disk, and *)
(* none is erased on mokutil's word before an erasure was asked for.       *)
ListFollowsOwner == protected \subseteq MokList /\ MokList \subseteq requested

(* When MokManager returns to shim, the only requests left, which start it *)
(* again at the next boot, are those the firmware would not read or delete *)
(* in this very run: not one of a refused password, of an entry that was   *)
(* not chosen, of a reset that did not come, or a MokAuth alone.           *)
NoRequestLeft ==
  pc = "return" =>
    /\ MokNew = None  \/ "MokNew" \in failed
    /\ MokSB = None   \/ "MokSB" \in failed
    /\ MokPW = None   \/ "MokPW" \in failed
    /\ MokAuth = None \/ "MokAuth" \in failed
=============================================================================
