----------------------------- MODULE MCGopMode ------------------------------
(* GopMode on every list of up to four modes, with a width below, at and   *)
(* two above the one the program looks for.                                *)
EXTENDS GopMode

MCWidths == {640, 1024, 1280, 1920}
=============================================================================
