-------------------------------- MODULE Logo --------------------------------
(***************************************************************************)
(* tp_draw_logo.c: the search for the firmware's boot logo in the ACPI     *)
(* tables, and conv_bitmap, which turns the bitmap file upside down into a *)
(* buffer for Blt.  Bytes are known by their offset in the file: what is   *)
(* followed is the offset each row of the screen is taken from.  The file  *)
(* is the one the firmware has shown itself, so that its sizes are those   *)
(* of a screen and its rows are all there.                                 *)
(***************************************************************************)
EXTENDS Integers, Sequences

CONSTANTS Offsets,          \* where the pixels may start in the file
          Widths, Heights,  \* the sizes of a logo
          MaxTables         \* bound on the number of ACPI tables

ASSUME LogoAssumption ==
  /\ Offsets \subseteq Nat \ {0}
  /\ Widths \subseteq Nat /\ Heights \subseteq Nat
  /\ MaxTables \in Nat

VARIABLES xsdt,   \* the ACPI tables, in the order of the XSDT
          bmp,    \* the file the boot graphics table points to
          pc,
          j,      \* tp_get_bgrt's local
          i,      \* conv_bitmap's local: the row of the file
          image,  \* conv_bitmap's local, as an offset
          rows    \* where in the file each row of the buffer p comes from

vars == <<xsdt, bmp, pc, j, i, image, rows>>

\* A boot graphics table can be of a revision, version or type not known.
Tables == {"other", "bgrt", "unknownBgrt"}

\* The format pads each row to a multiple of four bytes.
Stride(w) == 4 * ((3 * w + 3) \div 4)

Bitmap ==
  {b \in [bmp24 : BOOLEAN, Size : Nat, ImageOffset : Offsets,
          PixelWidth : Widths, PixelHeight : Heights] :
     b.Size = b.ImageOffset + b.PixelHeight * Stride(b.PixelWidth)}

Unset == -1

TypeOK ==
  /\ xsdt \in Seq(Tables) /\ bmp \in Bitmap
  /\ pc \in {"tp_get_bgrt", "conv_bitmap", "row", "Blt", "return"}
  /\ j \in 0..Len(xsdt) /\ i \in 0..bmp.PixelHeight
  /\ image \in Nat
  /\ rows \in [0..(bmp.PixelHeight - 1) -> Nat \cup {Unset}]

Init ==
  /\ xsdt \in UNION {[1..n -> Tables] : n \in 0..MaxTables}
  /\ \E f \in BOOLEAN, o \in Offsets, w \in Widths, h \in Heights :
       bmp = [bmp24 |-> f, Size |-> o + h * Stride(w), ImageOffset |-> o,
              PixelWidth |-> w, PixelHeight |-> h]
  /\ pc = "tp_get_bgrt"
  /\ j = 0 /\ i = 0 /\ image = 0
  /\ rows = [y \in 0..(bmp.PixelHeight - 1) |-> Unset]

-----------------------------------------------------------------------------
Unchanged == UNCHANGED <<xsdt, bmp>>

\* The first boot graphics table decides, whether its kind is known or not.
tp_get_bgrt ==
  /\ pc = "tp_get_bgrt"
  /\ \/ /\ j < Len(xsdt)
        /\ \/ xsdt[j + 1] = "other" /\ j' = j + 1 /\ UNCHANGED pc
           \/ xsdt[j + 1] = "bgrt" /\ pc' = "conv_bitmap" /\ UNCHANGED j
           \/ xsdt[j + 1] = "unknownBgrt" /\ pc' = "return" /\ UNCHANGED j
     \/ j = Len(xsdt) /\ pc' = "return" /\ UNCHANGED j
  /\ UNCHANGED <<i, image, rows>> /\ Unchanged

\* The checks of the header, and the allocation of the buffer.
conv_bitmap ==
  /\ pc = "conv_bitmap"
  /\ \/ /\ bmp.bmp24
        /\ image' = bmp.ImageOffset
        /\ pc' = "row"
     \/ pc' = "return" /\ UNCHANGED image
  /\ UNCHANGED <<j, i, rows>> /\ Unchanged

\* Mutant: an offset that is a multiple of four is moved on as well.
Padded_Always(end) == end + (4 - (end % 4))

\* image_index is counted from image_header, the start of the file.
Padded(end) == IF (end % 4) = 0 THEN end ELSE end + (4 - (end % 4))

\* Mutant: the row of the buffer is one too high.
conv_bitmap_row_OffByOne ==
  /\ pc = "row" /\ i < bmp.PixelHeight
  /\ rows' = [rows EXCEPT ![bmp.PixelHeight - i] = image]
  /\ image' = Padded(image + 3 * bmp.PixelWidth)
  /\ i' = i + 1
  /\ UNCHANGED <<pc, j>> /\ Unchanged

\* A row of the file, the lowest of the screen first.
conv_bitmap_row ==
  /\ pc = "row" /\ i < bmp.PixelHeight
  /\ rows' = [rows EXCEPT ![bmp.PixelHeight - i - 1] = image]
  /\ image' = Padded(image + 3 * bmp.PixelWidth)
  /\ i' = i + 1
  /\ UNCHANGED <<pc, j>> /\ Unchanged

conv_bitmap_end ==
  /\ pc = "row" /\ i = bmp.PixelHeight
  /\ pc' = "Blt"
  /\ UNCHANGED <<j, i, image, rows>> /\ Unchanged

\* Blt may fail; the buffer is freed and nothing is reported.
tp_draw_logo2 ==
  /\ pc = "Blt"
  /\ pc' = "return"
  /\ UNCHANGED <<j, i, image, rows>> /\ Unchanged

Next == tp_get_bgrt \/ conv_bitmap \/ conv_bitmap_row \/ conv_bitmap_end
          \/ tp_draw_logo2

Spec == Init /\ [][Next]_vars

-----------------------------------------------------------------------------
(* What must hold, in terms of the file format. *)

\* Where the format keeps row y of the screen.
RowAt(y) == bmp.ImageOffset + (bmp.PixelHeight - 1 - y) * Stride(bmp.PixelWidth)

ScreenRows == 0..(bmp.PixelHeight - 1)

(* A logo whose pixels start at a multiple of four, or of a single row, is *)
(* shown with every row where it belongs.                                  *)
RowsInPlace ==
  (pc = "Blt" /\ ((bmp.ImageOffset % 4) = 0 \/ bmp.PixelHeight <= 1)) =>
    \A y \in ScreenRows : rows[y] = RowAt(y)

(* At any other start, the padding counted from the start of the file      *)
(* displaces all rows above the lowest by the same distance, less than     *)
(* four bytes: their colours may be wrong, but the picture is not torn.    *)
SameSkew ==
  pc = "Blt" =>
    \E skew \in -3..3 : \A y \in ScreenRows :
      rows[y] = RowAt(y) + (IF y = bmp.PixelHeight - 1 THEN 0 ELSE skew)

(* The same displacement lets the last row end at most three bytes past    *)
(* the end of the file: however many rows there are, it does not add up.   *)
ReadsNearFile ==
  (pc = "row" /\ i < bmp.PixelHeight) => image + 3 * bmp.PixelWidth <= bmp.Size + 3
=============================================================================
