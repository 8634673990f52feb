------------------------------- MODULE MCLogo -------------------------------
(* Logo with every remainder of the offset and of the row length modulo    *)
(* four, from the empty bitmap up to four rows.                            *)
EXTENDS Logo

MCOffsets == 54..57
MCWidths  == 0..5
MCHeights == 0..4
=============================================================================
