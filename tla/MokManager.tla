----------------------------- MODULE MokManager -----------------------------
(***************************************************************************)
(* MokManager.c: the program shim starts when mokutil has left a request   *)
(* in the firmware's variables.  One run of it reads the requests, asks    *)
(* for the password if one is set, shows the menu, and removes the         *)
(* requests.  The power may go at any step; mokutil, which is not in this  *)
(* repository, writes the request variables one at a time while the        *)
(* operating system runs, so that any two of them may stem from different  *)
(* requests.  A hash stands for what it was made of.  A variable that is   *)
(* read, set or deleted may defy it, and ResetSystem may return.           *)
(***************************************************************************)
EXTENDS Integers, FiniteSets

CONSTANTS Keys, Passwords, None,
          Timeout   \* the seconds of the countdown (10 in the code)

ASSUME MokAssumption ==
  /\ None \notin Keys /\ None \notin Passwords
  /\ None \notin (Keys \cup {None}) \X Passwords   \* it is no hash
  /\ Timeout \in Nat \ {0}

VARIABLES
  MokNew, MokAuth, MokSB, MokPW,      \* the request variables
  MokList, MokSBState, MokPWStore,    \* the state variables; an absent
                                      \* MokSBState is 0, an absent list empty
  pc,           \* where MokManager is, "off" when it does not run
  held,         \* the buffers check_mok_request has read
  fail_count,   \* of the prompt, 0 outside
  timeout,
  freed         \* how often the buffer of MokNew has been freed

requests == <<MokNew, MokAuth, MokSB, MokPW>>
state    == <<MokList, MokSBState, MokPWStore>>
locals   == <<pc, held, fail_count, timeout, freed>>
mokVars  == <<MokNew, MokAuth, MokSB, MokPW, MokList, MokSBState, MokPWStore,
              pc, held, fail_count, timeout, freed>>

\* Mutant: the hash covers the password alone.
compute_pw_hash_NoKeys(keys, password) == <<None, password>>

\* What MokAuth is the hash of; a request to erase the list has no keys.
compute_pw_hash(keys, password) == <<keys, password>>

Auth == (Keys \cup {None}) \X Passwords

\* MokSB asks to disable or to enable; a MokPW of zeros asks to clear.
SB == {"disable", "enable"}
Clear == "clear"
PW == Passwords \cup {Clear}

Prompts == {"store_keys", "mok_sb_prompt", "mok_pw_prompt"}
Cleanup == {"delete_MokNew", "delete_MokSB", "delete_MokPW", "delete_MokAuth"}

TypeOK ==
  /\ MokNew \in Keys \cup {None} /\ MokAuth \in Auth \cup {None}
  /\ MokSB \in SB \cup {None} /\ MokPW \in PW \cup {None}
  /\ MokList \subseteq Keys /\ MokSBState \in {0, 1}
  /\ MokPWStore \in Passwords \cup {None}
  /\ pc \in {"off", "return", "verify_pw", "menu"} \cup Prompts \cup Cleanup
             \cup {"MokSB_changed", "MokPWStore_changed", "reset"}
  /\ held \in [MokNew : Keys \cup {None}, MokSB : SB \cup {None},
               MokPW : PW \cup {None}]
  /\ fail_count \in 0..2 /\ timeout \in 0..Timeout /\ freed \in 0..3

NothingHeld == [MokNew |-> None, MokSB |-> None, MokPW |-> None]

Init ==
  /\ MokNew = None /\ MokAuth = None /\ MokSB = None /\ MokPW = None
  /\ MokList = {} /\ MokSBState = 0 /\ MokPWStore = None
  /\ pc = "off" /\ held = NothingHeld
  /\ fail_count = 0 /\ timeout = 0 /\ freed = 0

-----------------------------------------------------------------------------
Goto(label) == pc' = label /\ UNCHANGED <<held, timeout, freed>>

Read(name, value, unread) == IF name \in unread THEN None ELSE value

\* check_mok_request reads the requests and enter_mok_menu asks verify_pw; a
\* request that cannot be read, for want of memory say, is none, a password
\* likewise, and a menu for which there is no memory is left at once.
check_mok_request(unread) ==
  /\ held' = [MokNew |-> Read("MokNew", MokNew, unread),
              MokSB  |-> Read("MokSB", MokSB, unread),
              MokPW  |-> Read("MokPW", MokPW, unread)]
  /\ freed' = 0 /\ fail_count' = 0
  /\ timeout' = Timeout
  /\ \/ pc' \in {"menu", "delete_MokNew"}
     \/ MokPWStore # None /\ pc' = "verify_pw"
  /\ UNCHANGED <<requests, state>>

\* A password that is wrong or of a length not allowed counts the same; the
\* result of enter_mok_menu is not looked at.
verify_pw ==
  /\ pc = "verify_pw"
  /\ \/ \E label \in {"menu", "delete_MokNew"} : Goto(label) /\ fail_count' = 0
     \/ fail_count < 2 /\ fail_count' = fail_count + 1 /\ Goto(pc)
     \/ fail_count = 2 /\ fail_count' = 0 /\ Goto("delete_MokNew")
  /\ UNCHANGED <<requests, state>>

\* Mutant: the seconds are not counted.
run_menu_timeout_Stuck ==
  /\ pc = "menu" /\ timeout > 0
  /\ pc' = "menu" /\ timeout' = timeout
  /\ UNCHANGED <<requests, state, held, fail_count, freed>>

\* A second without a key.
run_menu_timeout ==
  /\ pc = "menu" /\ timeout > 0
  /\ timeout' = timeout - 1
  /\ pc' = IF timeout = 1 THEN "delete_MokNew" ELSE "menu"
  /\ UNCHANGED <<requests, state, held, fail_count, freed>>

\* The first key ends the countdown for good; it may choose an entry.
run_menu_key(label) ==
  /\ pc = "menu"
  /\ pc' = label
  /\ timeout' = 0 /\ fail_count' = 0
  /\ UNCHANGED <<requests, state, held, freed>>

\* The entries there are: the one for keys serves both kinds of request.
run_menu ==
  \/ run_menu_key("menu")
  \/ run_menu_key("delete_MokNew")
  \/ (held.MokNew # None \/ MokAuth # None) /\ run_menu_key("store_keys")
  \/ held.MokSB # None /\ run_menu_key("mok_sb_prompt")
  \/ held.MokPW # None /\ run_menu_key("mok_pw_prompt")

\* The owner says no, or the variable cannot be set.
back_to_menu ==
  /\ pc \in Prompts
  /\ Goto("menu") /\ fail_count' = 0
  /\ UNCHANGED <<requests, state>>

\* A wrong password at a prompt that asks for one; the third ends the prompt.
wrong_password ==
  /\ pc \in Prompts
  /\ pc = "store_keys" => MokAuth # None
  /\ pc = "mok_pw_prompt" => held.MokPW # Clear
  /\ \/ fail_count < 2 /\ fail_count' = fail_count + 1 /\ Goto(pc)
     \/ fail_count = 2 /\ fail_count' = 0 /\ Goto("menu")
  /\ UNCHANGED <<requests, state>>

\* mok_enrollment_prompt and mok_deletion_prompt, confirmed.
store_keys ==
  /\ pc = "store_keys"
  /\ \E password \in Passwords : MokAuth = compute_pw_hash(held.MokNew, password)
  /\ MokList' = IF held.MokNew = None THEN {} ELSE MokList \cup {held.MokNew}
  /\ Goto("menu") /\ fail_count' = 0
  /\ UNCHANGED <<requests, MokSBState, MokPWStore>>

\* Enroll key or hash from disk, which no password protects.
file_callback ==
  /\ pc = "menu"
  /\ \E key \in Keys : MokList' = MokList \cup {key}
  /\ pc' = "menu" /\ timeout' = 0 /\ fail_count' = 0
  /\ UNCHANGED <<requests, MokSBState, MokPWStore, held, freed>>

\* LibDeleteVariable, whose result nobody acts upon.
LibDeleteVariable(value, works) == IF works THEN None ELSE value

\* The state of Secure Boot changes, which by deletion it need not, and the
\* request goes, which it need not either; then the machine is reset.
mok_sb_prompt ==
  /\ \/ /\ pc = "mok_sb_prompt"
        /\ \/ held.MokSB = "disable" /\ MokSBState' = 1
           \/ held.MokSB # "disable" /\ MokSBState' \in {0, MokSBState}
        /\ Goto("MokSB_changed") /\ UNCHANGED MokSB
     \/ /\ pc = "MokSB_changed"
        /\ \E works \in BOOLEAN : MokSB' = LibDeleteVariable(MokSB, works)
        /\ Goto("reset") /\ UNCHANGED MokSBState
  /\ fail_count' = 0
  /\ UNCHANGED <<MokNew, MokAuth, MokPW, MokList, MokPWStore>>

\* Only a password that is set needs a restart; after clearing one, or trying
\* to, the prompt waits for the owner to say no.
mok_pw_prompt ==
  /\ \/ /\ pc = "mok_pw_prompt"
        /\ \/ held.MokPW # Clear /\ MokPWStore' = held.MokPW
           \/ held.MokPW = Clear /\ MokPWStore' \in {None, MokPWStore}
        /\ Goto("MokPWStore_changed") /\ UNCHANGED MokPW
     \/ /\ pc = "MokPWStore_changed"
        /\ \E works \in BOOLEAN : MokPW' = LibDeleteVariable(MokPW, works)
        /\ Goto(IF held.MokPW = Clear THEN "mok_pw_prompt" ELSE "reset")
        /\ UNCHANGED MokPWStore
  /\ fail_count' = 0
  /\ UNCHANGED <<MokNew, MokAuth, MokSB, MokList, MokSBState>>

\* The reset that follows a change does not happen: "Failed to reboot".
reset_returns ==
  /\ pc = "reset"
  /\ Goto("menu")
  /\ UNCHANGED <<requests, state, fail_count>>

\* After the menu: each request that was read goes, or stays with a message if
\* the firmware will not delete it, and FreePool is given the buffer of MokNew
\* each time.
Free(requested, label) ==
  /\ freed' = IF requested THEN freed + 1 ELSE freed
  /\ pc' = label
  /\ UNCHANGED <<held, timeout, fail_count>>

\* Mutant: the buffer of MokNew is freed although no MokNew was read.
delete_MokNew_Always(works) ==
  /\ pc = "delete_MokNew"
  /\ MokNew' = LibDeleteVariable(MokNew, held.MokNew # None /\ works)
  /\ Free(TRUE, "delete_MokSB")
  /\ UNCHANGED <<MokAuth, MokSB, MokPW, state>>

delete_MokNew(works) ==
  /\ pc = "delete_MokNew"
  /\ MokNew' = LibDeleteVariable(MokNew, held.MokNew # None /\ works)
  /\ Free(held.MokNew # None, "delete_MokSB")
  /\ UNCHANGED <<MokAuth, MokSB, MokPW, state>>

delete_MokSB(works) ==
  /\ pc = "delete_MokSB"
  /\ MokSB' = LibDeleteVariable(MokSB, held.MokSB # None /\ works)
  /\ Free(held.MokSB # None, "delete_MokPW")
  /\ UNCHANGED <<MokNew, MokAuth, MokPW, state>>

delete_MokPW(works) ==
  /\ pc = "delete_MokPW"
  /\ MokPW' = LibDeleteVariable(MokPW, held.MokPW # None /\ works)
  /\ Free(held.MokPW # None, "delete_MokAuth")
  /\ UNCHANGED <<MokNew, MokAuth, MokSB, state>>

\* Mutant: MokAuth goes only with a MokNew.
delete_MokAuth_WithMokNew(works) ==
  /\ pc = "delete_MokAuth"
  /\ MokAuth' = LibDeleteVariable(MokAuth, held.MokNew # None /\ works)
  /\ Free(FALSE, "return")
  /\ UNCHANGED <<MokNew, MokSB, MokPW, state>>

\* Whether there was a request for keys or not.
delete_MokAuth(works) ==
  /\ pc = "delete_MokAuth"
  /\ MokAuth' = LibDeleteVariable(MokAuth, works)
  /\ Free(FALSE, "return")
  /\ UNCHANGED <<MokNew, MokSB, MokPW, state>>

\* What MokManager does by itself, and what it needs the owner for.
Starts == \E unread \in SUBSET {"MokNew", "MokSB", "MokPW"} : check_mok_request(unread)

Cleans(works) == delete_MokNew(works) \/ delete_MokSB(works) \/ delete_MokPW(works)
                   \/ delete_MokAuth(works)

Cleaning == \E works \in BOOLEAN : Cleans(works)

Owner == verify_pw \/ run_menu \/ back_to_menu \/ wrong_password \/ store_keys
           \/ file_callback \/ mok_sb_prompt \/ mok_pw_prompt

\* The buffers and the place in the program are gone with the program.
Leave ==
  /\ pc' = "off" /\ held' = NothingHeld
  /\ fail_count' = 0 /\ timeout' = 0 /\ freed' = 0

PowerLoss == pc # "off" /\ Leave /\ UNCHANGED <<requests, state>>
Restart   == pc = "reset" /\ Leave /\ UNCHANGED <<requests, state>>
Return    == pc = "return" /\ Leave /\ UNCHANGED <<requests, state>>

\* One write of mokutil's; it writes no more than one variable at a time.
mokutil ==
  /\ \/ /\ \E key \in Keys \cup {None} : MokNew' = key
        /\ UNCHANGED <<MokAuth, MokSB, MokPW>>
     \/ /\ \E auth \in Auth : MokAuth' = auth
        /\ UNCHANGED <<MokNew, MokSB, MokPW>>
     \/ /\ \E sb \in SB : MokSB' = sb
        /\ UNCHANGED <<MokNew, MokAuth, MokPW>>
     \/ /\ \E pw \in PW : MokPW' = pw
        /\ UNCHANGED <<MokNew, MokAuth, MokSB>>
  /\ UNCHANGED <<state, locals>>

\* shim, before it starts an image: a list whose attributes are not those of
\* MokManager's is erased.
verify_mok ==
  /\ MokList' = {}
  /\ UNCHANGED <<requests, MokSBState, MokPWStore, locals>>

Next ==
  \/ pc = "off" /\ (Starts \/ mokutil \/ verify_mok)
  \/ run_menu_timeout \/ Owner \/ Cleaning \/ reset_returns
  \/ Restart \/ Return \/ PowerLoss

Spec == Init /\ [][Next]_mokVars

-----------------------------------------------------------------------------
(* The buffer of MokNew, or a null pointer, is freed once too often only   *)
(* if there was a request beside the one for keys.                         *)
OnlyKnownBadFrees ==
  freed > (IF held.MokNew # None THEN 1 ELSE 0)
    => held.MokSB # None \/ held.MokPW # None
=============================================================================
