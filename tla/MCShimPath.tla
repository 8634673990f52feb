----------------------------- MODULE MCShimPath -----------------------------
(* ShimPath, and BootPath in it, on every path of up to seven characters;   *)
(* the two names differ in their first characters and agree in their last,  *)
(* and the second stage's own name is another one, as grubx64.efi differs   *)
(* from GRUBX64.EFI.                                                        *)
EXTENDS ShimPath

MCSeparator == "\\"
MCGrub  == <<"G", "X">>
MCBoot  == <<"B", "X">>
MCStage == <<MCSeparator, "X">>
MCChars == {MCSeparator, "G", "B", "X"}
=============================================================================
