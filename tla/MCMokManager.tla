---------------------------- MODULE MCMokManager ----------------------------
(* MokManager with two keys and two passwords, so that a request left over  *)
(* can differ from a later one in either, and a countdown of two seconds;   *)
(* the keys are interchangeable, and so are the passwords.                  *)
EXTENDS MokHistory, TLC

CONSTANTS k1, k2, p1, p2

MCKeys == {k1, k2}
MCPasswords == {p1, p2}

MCSymmetry == Permutations(MCKeys) \cup Permutations(MCPasswords)
=============================================================================
