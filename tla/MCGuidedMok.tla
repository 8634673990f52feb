----------------------------- MODULE MCGuidedMok -----------------------------
(* GuidedMok with one key and one password, a countdown of one second, and  *)
(* machines on which the second stage is trusted in each possible way, and  *)
(* in none; MokManager carries the vendor's signature. The owner who may do *)
(* anything is looked at on one machine, on which the list vouches for the  *)
(* second stage and dbx revokes it.                                         *)
EXTENDS GuidedMok

CONSTANTS k1, p1

MCKeys == {k1}
MCPasswords == {p1}

Machine(on, db, dbx, vendor_dbx, key) ==
  [SecureBoot |-> on, db |-> db, dbx |-> dbx, vendor |-> {"MokManager"},
   vendor_dbx |-> vendor_dbx,
   key |-> [i \in {"MokManager", "grubx64"} |-> IF i = "grubx64" THEN key ELSE None]]

MCPlatforms ==
  {Machine(TRUE, {}, {}, {}, k1), Machine(TRUE, {}, {"grubx64"}, {}, k1),
   Machine(TRUE, {"grubx64"}, {}, {"MokManager"}, None), Machine(FALSE, {}, {}, {}, None)}

MCInit == GuidedInit /\ (guided \/ platform = Machine(TRUE, {}, {"grubx64"}, {}, k1))

MCSpec == MCInit /\ [][GuidedNext]_guidedVars /\ Fairness /\ GuidedFairness
=============================================================================
