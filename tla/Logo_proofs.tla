---------------------------- MODULE Logo_proofs -----------------------------
(***************************************************************************)
(* conv_bitmap on files of every size.  From the second row on, the loop   *)
(* stands at a multiple of four, where counting from the start of the file *)
(* adds the very padding of the format; so whatever the first row gained   *)
(* or lost is carried along unchanged.                                     *)
(***************************************************************************)
EXTENDS Logo, TLAPS

W == bmp.PixelWidth
H == bmp.PixelHeight

\* What the first padding adds to what the format asks for.
Skew == Padded(bmp.ImageOffset + 3 * W) - bmp.ImageOffset - Stride(W)

\* Where the loop finds row k of the file.
StartOf(k) == bmp.ImageOffset + k * Stride(W) + (IF k = 0 THEN 0 ELSE Skew)

RowsDone ==
  \A y \in ScreenRows : y >= H - i => rows[y] = StartOf(H - 1 - y)

IInv ==
  /\ TypeOK
  /\ pc \in {"tp_get_bgrt", "conv_bitmap"} => i = 0
  /\ pc = "row" => image = StartOf(i) /\ (i # 0 => image % 4 = 0)
  /\ pc \in {"row", "Blt"} => RowsDone
  /\ pc = "Blt" => i = H

-----------------------------------------------------------------------------
\* The padding reaches a multiple of four in at most three bytes.
LEMMA PaddedMultiple ==
  ASSUME NEW n \in Nat
  PROVE  Padded(n) \in n..(n + 3) /\ Padded(n) % 4 = 0
  <1>1. n % 4 \in 0..3
    OBVIOUS
  <1> QED
    BY <1>1 DEF Padded

\* The length of a row in the file.
LEMMA StrideMultiple ==
  ASSUME NEW w \in Nat
  PROVE  Stride(w) \in (3 * w)..(3 * w + 3) /\ Stride(w) % 4 = 0 /\ Stride(w) \in Nat
  BY DEF Stride

\* Among four numbers in a row only one is a multiple of four.
LEMMA OneMultiple ==
  ASSUME NEW n \in Nat, NEW p \in n..(n + 3), NEW q \in n..(n + 3),
         p % 4 = 0, q % 4 = 0
  PROVE  p = q
  <1>1. p \in Nat /\ q \in Nat
    OBVIOUS
  <1>2. p = 4 * (p \div 4) /\ p \div 4 \in Nat
    BY <1>1
  <1>3. q = 4 * (q \div 4) /\ q \div 4 \in Nat
    BY <1>1
  <1> QED
    BY <1>2, <1>3

\* From a multiple of four, a row and its padding are one stride.
LEMMA PaddedStride ==
  ASSUME NEW a \in Nat, NEW w \in Nat, a % 4 = 0
  PROVE  Padded(a + 3 * w) = a + Stride(w)
  <1>1. Padded(a + 3 * w) \in (a + 3 * w)..(a + 3 * w + 3) /\ Padded(a + 3 * w) % 4 = 0
    BY PaddedMultiple
  <1>2. Stride(w) \in (3 * w)..(3 * w + 3) /\ Stride(w) % 4 = 0
    BY StrideMultiple
  <1>3. (a + Stride(w)) % 4 = 0 /\ a + Stride(w) \in (a + 3 * w)..(a + 3 * w + 3)
    <2>1. \A s \in Nat : s % 4 = 0 => (a + s) % 4 = 0
      OBVIOUS
    <2> QED
      BY <1>2, <2>1
  <1>4. a + 3 * w \in Nat
    OBVIOUS
  <1> QED
    BY <1>1, <1>3, <1>4, OneMultiple

\* The skew of every bitmap is less than four bytes.
LEMMA SkewSmall ==
  ASSUME TypeOK
  PROVE  /\ Skew \in -3..3
         /\ bmp.ImageOffset % 4 = 0 => Skew = 0
         /\ W \in Nat /\ H \in Nat /\ bmp.ImageOffset \in Nat /\ Stride(W) \in Nat
         /\ bmp.Size = bmp.ImageOffset + H * Stride(W)
  <1>1. /\ W \in Nat /\ H \in Nat /\ bmp.ImageOffset \in Nat
        /\ bmp.Size = bmp.ImageOffset + H * Stride(W)
    BY LogoAssumption DEF TypeOK, Bitmap, LogoAssumption, W, H
  <1>2. Stride(W) \in (3 * W)..(3 * W + 3) /\ Stride(W) \in Nat
    BY <1>1, StrideMultiple
  <1>3. Padded(bmp.ImageOffset + 3 * W)
          \in (bmp.ImageOffset + 3 * W)..(bmp.ImageOffset + 3 * W + 3)
    BY <1>1, PaddedMultiple
  <1>4. bmp.ImageOffset % 4 = 0 => Skew = 0
    <2>1. SUFFICES ASSUME bmp.ImageOffset % 4 = 0 PROVE Skew = 0
      OBVIOUS
    <2>2. Padded(bmp.ImageOffset + 3 * W) = bmp.ImageOffset + Stride(W)
      BY <1>1, <2>1, PaddedStride
    <2>3. \A a, b \in Nat : (a + b) - a - b = 0
      OBVIOUS
    <2> QED
      BY <1>1, <1>2, <2>2, <2>3 DEF Skew
  <1>5. \A a, b, c, d \in Nat :
          b \in (3 * c)..(3 * c + 3) /\ d \in (a + 3 * c)..(a + 3 * c + 3)
            => d - a - b \in -3..3
    OBVIOUS
  <1>6. Skew \in -3..3
    <2>1. Padded(bmp.ImageOffset + 3 * W) \in Nat
      BY <1>1, <1>3
    <2> QED
      BY <1>1, <1>2, <1>3, <1>5, <2>1 DEF Skew
  <1> QED
    BY <1>1, <1>2, <1>4, <1>6

\* Multiplication by the next number, for a factor the provers keep opaque.
LEMMA NextMultiple ==
  ASSUME NEW k \in Nat, NEW s \in Nat
  PROVE  (k + 1) * s = k * s + s /\ k * s \in Nat
  OBVIOUS

\* A sum of three in two orders.
LEMMA Regroup ==
  ASSUME NEW o \in Nat, NEW p \in Nat, NEW k \in Int, NEW t \in Nat
  PROVE  (o + p + k) + t = o + (p + t) + k
  OBVIOUS

\* A number of rows takes no less room than fewer rows do.
LEMMA MoreRows ==
  ASSUME NEW k \in Nat, NEW n \in Nat, k <= n, NEW s \in Nat
  PROVE  k * s <= n * s
  <1>1. PICK d \in Nat : n = k + d
    <2>1. n - k \in Nat /\ n = k + (n - k)
      OBVIOUS
    <2> QED
      BY <2>1
  <1>2. n * s = k * s + d * s /\ d * s \in Nat /\ k * s \in Nat
    BY <1>1
  <1> QED
    BY <1>2
-----------------------------------------------------------------------------
\* The search starts with no row taken.
LEMMA InitIInv == Init => IInv
  <1>1. SUFFICES ASSUME Init PROVE IInv
    OBVIOUS
  <1>2. bmp \in Bitmap
    <2>1. PICK f \in BOOLEAN, o \in Offsets, w \in Widths, h \in Heights :
            bmp = [bmp24 |-> f, Size |-> o + h * Stride(w), ImageOffset |-> o,
                   PixelWidth |-> w, PixelHeight |-> h]
      BY <1>1 DEF Init
    <2>2. o \in Nat /\ w \in Nat /\ h \in Nat
      BY LogoAssumption DEF LogoAssumption
    <2>3. h * Stride(w) \in Nat
      <3>1. Stride(w) \in Nat
        BY <2>2, StrideMultiple
      <3> QED
        BY <2>2, <3>1, NextMultiple
    <2>4. o + h * Stride(w) \in Nat
      BY <2>2, <2>3
    <2> QED
      BY <2>1, <2>2, <2>4 DEF Bitmap
  <1>3. xsdt \in Seq(Tables)
    BY <1>1 DEF Init
  <1>4. bmp.PixelHeight \in Nat
    BY <1>2, LogoAssumption DEF Bitmap, LogoAssumption
  <1>5. Len(xsdt) \in Nat
    BY <1>3
  <1>6. TypeOK
    BY <1>1, <1>2, <1>3, <1>4, <1>5 DEF Init, TypeOK, Unset
  <1> QED
    BY <1>1, <1>6 DEF Init, IInv

\* Every action keeps IInv.
LEMMA StepIInv == IInv /\ [Next]_vars => IInv'
  <1>1. SUFFICES ASSUME IInv, [Next]_vars PROVE IInv'
    OBVIOUS
  <1> USE <1>1
  <1>2. /\ TypeOK /\ Len(xsdt) \in Nat /\ W \in Nat /\ H \in Nat /\ bmp.ImageOffset \in Nat
        /\ Stride(W) \in Nat /\ i \in 0..H /\ Skew \in -3..3 /\ j \in 0..Len(xsdt)
    BY SkewSmall DEF IInv, TypeOK, H
  <1>3. CASE tp_get_bgrt
    <2>1. /\ UNCHANGED <<xsdt, bmp, i, image, rows>> /\ j' \in 0..Len(xsdt)
          /\ pc = "tp_get_bgrt" /\ pc' \in {"tp_get_bgrt", "conv_bitmap", "return"}
      BY <1>2, <1>3 DEF tp_get_bgrt, Unchanged
    <2> QED
      BY <1>2, <2>1 DEF IInv, TypeOK
  <1>4. CASE conv_bitmap
    <2>1. UNCHANGED <<xsdt, bmp, j, i, rows>> /\ pc = "conv_bitmap"
          /\ \/ pc' = "return" /\ image' = image
             \/ pc' = "row" /\ image' = bmp.ImageOffset
      BY <1>4 DEF conv_bitmap, Unchanged
    <2>2. TypeOK' /\ i' = 0 /\ H' = H
      BY <1>2, <2>1 DEF IInv, TypeOK, H
    <2>3. RowsDone'
      BY <1>2, <2>2 DEF RowsDone, ScreenRows, H
    <2>4. StartOf(i)' = bmp.ImageOffset
      <3>1. StartOf(0) = bmp.ImageOffset
        <4>1. 0 * Stride(W) = 0
          BY <1>2
        <4> QED
          BY <1>2, <4>1 DEF StartOf
      <3>2. StartOf(i)' = StartOf(0)
        BY <2>1, <2>2 DEF StartOf, Skew, W
      <3> QED
        BY <3>1, <3>2
    <2> QED
      BY <2>1, <2>2, <2>3, <2>4 DEF IInv
  <1>5. CASE conv_bitmap_row
    <2>1. /\ pc = "row" /\ pc' = "row" /\ i < H /\ i' = i + 1
          /\ UNCHANGED <<xsdt, bmp, j>>
          /\ rows' = [rows EXCEPT ![H - i - 1] = image]
          /\ image' = Padded(image + 3 * W)
      BY <1>5 DEF conv_bitmap_row, Unchanged, W, H
    <2>2. /\ H' = H /\ W' = W /\ ScreenRows' = ScreenRows /\ Skew' = Skew
          /\ \A k \in 0..H : StartOf(k)' = StartOf(k)
      BY <2>1 DEF H, W, ScreenRows, Skew, StartOf
    <2>3. image = StartOf(i) /\ (i # 0 => image % 4 = 0) /\ image \in Nat
      BY <2>1 DEF IInv, TypeOK
    <2>4. image' \in Nat /\ image' % 4 = 0
      <3>1. image + 3 * W \in Nat
        BY <1>2, <2>3
      <3> QED
        BY <2>1, <3>1, PaddedMultiple
    <2>5. image' = StartOf(i + 1)
      <3>1. (i + 1) * Stride(W) = i * Stride(W) + Stride(W) /\ i * Stride(W) \in Nat
        BY <1>2, NextMultiple
      <3>2. CASE i = 0
        <4>1. image = bmp.ImageOffset
          BY <1>2, <2>3, <3>2 DEF StartOf
        <4>2. Padded(image + 3 * W) \in Nat
          BY <2>1, <2>4
        <4>3. 0 * Stride(W) = 0 /\ 1 * Stride(W) = Stride(W) /\ i + 1 = 1
          BY <1>2, <3>2
        <4>4. StartOf(1) = bmp.ImageOffset + Stride(W) + Skew
          BY <4>3 DEF StartOf
        <4> QED
          BY <1>2, <2>1, <4>1, <4>2, <4>3, <4>4 DEF Skew
      <3>3. CASE i # 0
        <4>1. image' = image + Stride(W)
          BY <1>2, <2>1, <2>3, <3>3, PaddedStride
        <4> QED
          <5>1. i + 1 # 0 /\ i \in Nat
            BY <1>2
          <5>2. StartOf(i) = bmp.ImageOffset + i * Stride(W) + Skew
            BY <3>3 DEF StartOf
          <5>3. StartOf(i + 1) = bmp.ImageOffset + (i * Stride(W) + Stride(W)) + Skew
            BY <3>1, <5>1 DEF StartOf
          <5>4. (bmp.ImageOffset + i * Stride(W) + Skew) + Stride(W)
                  = bmp.ImageOffset + (i * Stride(W) + Stride(W)) + Skew
            BY <1>2, <3>1, Regroup
          <5> QED
            BY <2>3, <4>1, <5>2, <5>3, <5>4
      <3> QED
        BY <3>2, <3>3
    <2>6. rows \in [ScreenRows -> Nat \cup {Unset}] /\ ScreenRows = 0..(H - 1)
      BY DEF IInv, TypeOK, ScreenRows, H
    <2>7. TypeOK'
      <3>1. rows' \in [ScreenRows -> Nat \cup {Unset}]
        BY <1>2, <2>1, <2>3, <2>6
      <3> QED
        BY <1>2, <2>1, <2>4, <2>6, <3>1 DEF TypeOK, H
    <2>8. RowsDone'
      <3>1. RowsDone
        BY <2>1 DEF IInv
      <3>2. SUFFICES ASSUME NEW y \in 0..(H - 1), y >= H - (i + 1)
                     PROVE  rows'[y] = StartOf(H - 1 - y)
        BY <1>2, <2>1, <2>2, <2>6 DEF RowsDone
      <3>3. CASE y = H - i - 1
        BY <1>2, <2>1, <2>3, <2>6, <3>3
      <3>4. CASE y # H - i - 1
        BY <1>2, <2>1, <2>6, <3>1, <3>2, <3>4 DEF RowsDone
      <3> QED
        BY <3>3, <3>4
    <2>9. StartOf(i)' = StartOf(i + 1)
      BY <2>1, <2>2 DEF StartOf, W, Skew
    <2> QED
      BY <2>1, <2>4, <2>5, <2>7, <2>8, <2>9 DEF IInv
  <1>6. CASE conv_bitmap_end
    <2>1. UNCHANGED <<xsdt, bmp, j, i, image, rows>> /\ pc = "row" /\ i = H /\ pc' = "Blt"
      BY <1>6 DEF conv_bitmap_end, Unchanged, H
    <2>2. RowsDone' = RowsDone /\ H' = H
      BY <2>1 DEF RowsDone, ScreenRows, StartOf, Skew, W, H
    <2> QED
      BY <1>2, <2>1, <2>2 DEF IInv, TypeOK
  <1>7. CASE tp_draw_logo2
    BY <1>2, <1>7 DEF tp_draw_logo2, Unchanged, IInv, TypeOK
  <1>8. CASE UNCHANGED vars
    BY <1>2, <1>8 DEF vars, IInv, TypeOK, RowsDone, ScreenRows, StartOf, Skew, W, H
  <1> QED
    BY <1>3, <1>4, <1>5, <1>6, <1>7, <1>8 DEF Next
-----------------------------------------------------------------------------
\* Hence IInv holds throughout.
THEOREM Invariance == Spec => []IInv
  <1>1. Init => IInv
    BY InitIInv
  <1>2. IInv /\ [Next]_vars => IInv'
    BY StepIInv
  <1> QED
    BY <1>1, <1>2, PTL DEF Spec

\* The variables of the logo's drawing keep their types.
THEOREM TypeCorrect == Spec => []TypeOK
  <1>1. IInv => TypeOK
    BY DEF IInv
  <1> QED
    BY <1>1, Invariance, PTL

\* At the drawing, every row is taken from the place StartOf gives.
LEMMA AllRows ==
  ASSUME IInv, pc = "Blt", NEW y \in ScreenRows
  PROVE  /\ rows[y] = RowAt(y) + (IF y = bmp.PixelHeight - 1 THEN 0 ELSE Skew)
         /\ W \in Nat /\ H \in Nat
  <1>1. /\ W \in Nat /\ H \in Nat /\ Stride(W) \in Nat /\ bmp.ImageOffset \in Nat
        /\ Skew \in -3..3
    BY SkewSmall DEF IInv
  <1>2. y \in 0..(H - 1) /\ i = H
    BY DEF IInv, ScreenRows, H
  <1>3. rows[y] = StartOf(H - 1 - y)
    BY <1>1, <1>2 DEF IInv, RowsDone
  <1>4. H - 1 - y \in Nat /\ (H - 1 - y) * Stride(W) \in Nat
    BY <1>1, <1>2, NextMultiple
  <1>5. RowAt(y) = bmp.ImageOffset + (H - 1 - y) * Stride(W)
    BY DEF RowAt, H, W
  <1>6. rows[y] = bmp.ImageOffset + (H - 1 - y) * Stride(W)
                    + (IF H - 1 - y = 0 THEN 0 ELSE Skew)
    BY <1>3 DEF StartOf
  <1>7. H - 1 - y = 0 <=> y = H - 1
    BY <1>1, <1>2
  <1>8. rows[y] = RowAt(y) + (IF y = H - 1 THEN 0 ELSE Skew)
    BY <1>5, <1>6, <1>7
  <1> QED
    BY <1>1, <1>8 DEF H

\* A file whose pixels start at a multiple of four is shown exactly.
THEOREM AlignedInPlace == Spec => []RowsInPlace
  <1>1. IInv => RowsInPlace
    <2>1. SUFFICES ASSUME IInv, pc = "Blt",
                          bmp.ImageOffset % 4 = 0 \/ bmp.PixelHeight <= 1,
                          NEW y \in ScreenRows
                   PROVE  rows[y] = RowAt(y)
      BY DEF RowsInPlace
    <2>2. bmp.ImageOffset % 4 = 0 => Skew = 0
      BY <2>1, SkewSmall DEF IInv
    <2>3. W \in Nat /\ H \in Nat /\ Stride(W) \in Nat /\ bmp.ImageOffset \in Nat
      BY <2>1, SkewSmall DEF IInv
    <2>4. y \in 0..(H - 1) /\ H = bmp.PixelHeight
      BY <2>1 DEF ScreenRows, H
    <2>5. H <= 1 => y = H - 1
      BY <2>3, <2>4
    <2>6. RowAt(y) \in Int
      <3>1. (H - 1 - y) \in Nat /\ (H - 1 - y) * Stride(W) \in Nat
        BY <2>3, <2>4, NextMultiple
      <3> QED
        BY <2>3, <2>4, <3>1 DEF RowAt, W, H
    <2> QED
      BY <2>1, <2>2, <2>4, <2>5, <2>6, AllRows
  <1> QED
    BY <1>1, Invariance, PTL

\* At any start the rows above the lowest are displaced together.
THEOREM SkewIsOne == Spec => []SameSkew
  <1>1. IInv => SameSkew
    <2>1. SUFFICES ASSUME IInv, pc = "Blt"
                   PROVE  \E skew \in -3..3 : \A y \in ScreenRows :
                            rows[y] = RowAt(y)
                              + (IF y = bmp.PixelHeight - 1 THEN 0 ELSE skew)
      BY DEF SameSkew
    <2>2. Skew \in -3..3
      BY <2>1, SkewSmall DEF IInv
    <2> QED
      BY <2>1, <2>2, AllRows
  <1> QED
    BY <1>1, Invariance, PTL

\* However many rows there are, the last ends near the end of the file.
THEOREM ReadsEndNearFile == Spec => []ReadsNearFile
  <1>1. IInv => ReadsNearFile
    <2>1. SUFFICES ASSUME IInv, pc = "row", i < bmp.PixelHeight
                   PROVE  image + 3 * bmp.PixelWidth <= bmp.Size + 3
      BY DEF ReadsNearFile
    <2>2. /\ W \in Nat /\ H \in Nat /\ Stride(W) \in Nat /\ bmp.ImageOffset \in Nat
          /\ Skew \in -3..3 /\ bmp.Size = bmp.ImageOffset + H * Stride(W)
      BY <2>1, SkewSmall DEF IInv
    <2>3. i \in Nat /\ i + 1 <= H /\ image = StartOf(i)
      BY <2>1, <2>2 DEF IInv, TypeOK, H
    <2>4. /\ (i + 1) * Stride(W) = i * Stride(W) + Stride(W) /\ i * Stride(W) \in Nat
          /\ (i + 1) * Stride(W) <= H * Stride(W) /\ H * Stride(W) \in Nat
      BY <2>2, <2>3, NextMultiple, MoreRows
    <2>5. 3 * W <= Stride(W)
      BY <2>2, StrideMultiple
    <2>6. image <= bmp.ImageOffset + i * Stride(W) + 3
      <3>1. image = bmp.ImageOffset + i * Stride(W) + (IF i = 0 THEN 0 ELSE Skew)
        BY <2>3 DEF StartOf
      <3> QED
        BY <2>2, <2>4, <3>1
    <2>7. image \in Nat
      BY <2>1 DEF IInv, TypeOK
    <2> QED
      BY <2>2, <2>4, <2>5, <2>6, <2>7 DEF W
  <1> QED
    BY <1>1, Invariance, PTL

-----------------------------------------------------------------------------
(* The end of both loops, over the tables and over the rows.               *)

StepsLeft ==
  CASE pc = "tp_get_bgrt" -> Len(xsdt) - j + H + 4
    [] pc = "conv_bitmap" -> H + 3
    [] pc = "row"         -> H - i + 2
    [] pc = "Blt"         -> 1
    [] pc = "return"      -> 0

\* Every step brings the return from tp_draw_logo nearer.
THEOREM DrawingEnds ==
  Spec => /\ [](StepsLeft \in 0..(Len(xsdt) + bmp.PixelHeight + 4))
          /\ [][StepsLeft' < StepsLeft]_vars
  <1>1. IInv => /\ Len(xsdt) \in Nat /\ j \in 0..Len(xsdt) /\ H \in Nat /\ i \in 0..H
                /\ pc \in {"tp_get_bgrt", "conv_bitmap", "row", "Blt", "return"}
                /\ H = bmp.PixelHeight
    BY SkewSmall DEF IInv, TypeOK, H
  <1>2. IInv => StepsLeft \in 0..(Len(xsdt) + bmp.PixelHeight + 4)
    BY <1>1 DEF StepsLeft
  <1>3. IInv /\ [Next]_vars => [StepsLeft' < StepsLeft]_vars
    <2> SUFFICES ASSUME IInv, Next PROVE StepsLeft' < StepsLeft
      OBVIOUS
    <2>1. xsdt' = xsdt /\ H' = H
      BY DEF Next, tp_get_bgrt, conv_bitmap, conv_bitmap_row, conv_bitmap_end, tp_draw_logo2,
             Unchanged, H
    <2>2. CASE tp_get_bgrt
      <3>1. /\ pc = "tp_get_bgrt"
            /\ \/ pc' = "tp_get_bgrt" /\ j < Len(xsdt) /\ j' = j + 1
               \/ pc' \in {"conv_bitmap", "return"}
        BY <2>2 DEF tp_get_bgrt
      <3> QED
        BY <1>1, <2>1, <3>1 DEF StepsLeft
    <2>3. CASE conv_bitmap
      <3>1. pc = "conv_bitmap" /\ pc' \in {"row", "return"} /\ i' = i
        BY <2>3 DEF conv_bitmap
      <3> QED
        BY <1>1, <2>1, <3>1 DEF StepsLeft
    <2>4. CASE conv_bitmap_row
      <3>1. pc = "row" /\ pc' = "row" /\ i < H /\ i' = i + 1
        BY <2>4 DEF conv_bitmap_row, H
      <3> QED
        BY <1>1, <2>1, <3>1 DEF StepsLeft
    <2>5. CASE conv_bitmap_end \/ tp_draw_logo2
      BY <1>1, <2>1, <2>5 DEF conv_bitmap_end, tp_draw_logo2, StepsLeft
    <2> QED
      BY <2>2, <2>3, <2>4, <2>5 DEF Next
  <1> QED
    BY <1>2, <1>3, Invariance, PTL DEF Spec
=============================================================================
