------------------------------ MODULE MCEnroll ------------------------------
(* Enroll with every subset of two foreign certificates in KEK and in db.  *)
EXTENDS Enroll

MCForeign == {"vendor", "distributor"}
=============================================================================
