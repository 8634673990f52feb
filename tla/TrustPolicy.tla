----------------------------- MODULE TrustPolicy ----------------------------
(***************************************************************************)
(* What shim and MokManager promise together: while Secure Boot is on, an  *)
(* image is started only if it is trusted at that moment, by the firmware, *)
(* by shim's own key or by the list the owner keeps, unless the owner has  *)
(* switched the checks off; and only under MokManager does anyone add to   *)
(* the list or switch the checks on or off.  Three things lapse with a     *)
(* call that fails, and nothing else: a SecureBoot that cannot be read is  *)
(* taken for one that is off, a dbx that cannot be read revokes nothing,   *)
(* and checks the owner has switched on again stay off for this boot if    *)
(* the reset does not come.  Shim implements this module.                  *)
(***************************************************************************)
CONSTANTS Keys, None

Images == {"MokManager", "grubx64"}

VARIABLES
  platform,   \* the firmware's databases and the signatures of the images
  MokList, MokSBState,
  running,    \* the image that runs, or None
  lapses      \* what has failed of "SecureBoot", "dbx" and "reset"

vars == <<platform, MokList, MokSBState, running, lapses>>

Platform ==
  [SecureBoot : BOOLEAN, db : SUBSET Images, dbx : SUBSET Images,
   vendor : SUBSET Images, vendor_dbx : SUBSET Images,
   key : [Images -> Keys \cup {None}]]

Lapses == {"SecureBoot", "dbx", "reset"}

Revoked(image) ==
  image \in platform.vendor_dbx \/ (image \in platform.dbx /\ "dbx" \notin lapses)

\* Revoked is never trusted; one voucher is enough otherwise.
Trusted(image, list) ==
  /\ ~Revoked(image)
  /\ \/ image \in platform.db \cup platform.vendor
     \/ platform.key[image] \in list

\* Nothing is started unchecked.
Checked == platform.SecureBoot /\ MokSBState = 0 /\ lapses \subseteq {"dbx"}

Init ==
  /\ platform \in Platform
  /\ MokList \subseteq Keys /\ MokSBState \in {0, 1}
  /\ running = None /\ lapses = {}

Start(image) ==
  /\ running = None
  /\ Checked => Trusted(image, MokList)
  /\ running' = image
  /\ UNCHANGED <<platform, MokList, MokSBState, lapses>>

\* The image returns or the power goes.
Stop ==
  /\ running' = None /\ lapses' \in {lapses, {}}
  /\ UNCHANGED <<platform, MokList, MokSBState>>

\* The owner's changes, one variable at a time.
Manage ==
  /\ running = "MokManager"
  /\ \/ \E key \in Keys : MokList' = MokList \cup {key} /\ UNCHANGED MokSBState
     \/ MokList' = {} /\ UNCHANGED MokSBState
     \/ MokSBState' \in {0, 1} /\ UNCHANGED MokList
  /\ UNCHANGED <<platform, running, lapses>>

\* The reset the owner's change calls for does not come.
ResetReturns ==
  /\ running = "MokManager"
  /\ lapses' = lapses \cup {"reset"}
  /\ UNCHANGED <<platform, MokList, MokSBState, running>>

\* Before a start: what can be read is looked at, a list that does not look
\* like MokManager's is thrown away, and no one but the boot manager, who
\* starts everything anew, makes up for a reset that did not come.
Examine ==
  /\ running = None
  /\ MokList' \in {MokList, {}}
  /\ lapses' \subseteq {"SecureBoot", "dbx"} \cup lapses
  /\ lapses' = {} \/ lapses \cap {"reset"} \subseteq lapses'
  /\ UNCHANGED <<platform, MokSBState, running>>

Next ==
  (\E image \in Images : Start(image)) \/ Stop \/ Manage \/ ResetReturns \/ Examine

Spec == Init /\ [][Next]_vars

-----------------------------------------------------------------------------
(* The second stage runs on trust that is still there: nothing it was      *)
(* started for is taken away under it.  MokManager has no such promise, it *)
(* may erase the very key that vouches for it.                             *)
SecondStageTrusted ==
  running = "grubx64" /\ Checked => Trusted("grubx64", MokList)
=============================================================================
