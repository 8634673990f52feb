---------------------------- MODULE GopMode_proofs ----------------------------
(***************************************************************************)
(* GopMode for every display: any number of modes, of any widths, and any  *)
(* width looked for.  The loop keeps the first of the widest modes it has  *)
(* seen; it stops early on the width looked for, and there only.           *)
(***************************************************************************)
EXTENDS GopMode, TLAPS

\* The mode kept is what HorizontalResolution says, and has been seen.
Kept ==
  /\ mode_num <= Len(modes)
  /\ valid_query_mode => /\ Bgr(set_mode_num)
                         /\ HorizontalResolution = ModeAt(set_mode_num).width
  /\ ~valid_query_mode => HorizontalResolution = 0

\* Mode n does not beat the mode kept.
Beaten(n) ==
  Bgr(n) => /\ ModeAt(n).width <= HorizontalResolution
            /\ n < set_mode_num => ModeAt(n).width < HorizontalResolution

\* A mode of the width looked for that was passed over had a wider one before.
Excused(n) ==
  (Bgr(n) /\ ModeAt(n).width = SCREEN_WIDTH) =>
    \E k \in 0..(n - 1) : Bgr(k) /\ ModeAt(k).width > SCREEN_WIDTH

Seen == \A n \in 0..(mode_num - 1) : Beaten(n)

Searching ==
  pc = "QueryMode" =>
    /\ valid_query_mode => set_mode_num < mode_num
    /\ HorizontalResolution # SCREEN_WIDTH
    /\ \A n \in 0..(mode_num - 1) : Excused(n)

Stopped ==
  pc # "QueryMode" =>
    \/ HorizontalResolution = SCREEN_WIDTH /\ set_mode_num = mode_num
    \/ /\ mode_num = Len(modes)
       /\ HorizontalResolution # SCREEN_WIDTH
       /\ valid_query_mode => set_mode_num < mode_num
       /\ \A n \in 0..(mode_num - 1) : Excused(n)

Checked ==
  /\ pc = "SetMode" => valid_query_mode
  /\ pc = "error" => ~valid_query_mode

IInv == TypeOK /\ Kept /\ Seen /\ Searching /\ Stopped /\ Checked

\* Every mode of the list has a format and a width.
LEMMA ModeType ==
  ASSUME TypeOK, NEW n \in Nat, n < Len(modes)
  PROVE  ModeAt(n) \in Mode
  <1>1. n + 1 \in 1..Len(modes)
    BY DEF TypeOK
  <1> QED
    BY <1>1 DEF TypeOK, ModeAt

\* The widths of the modes are numbers above zero.
LEMMA WidthType ==
  ASSUME TypeOK, NEW n \in Nat, n < Len(modes)
  PROVE  ModeAt(n).width \in Nat \ {0}
  BY ModeType, GopModeAssumption DEF Mode, GopModeAssumption

\* The loop starts in the invariant.
LEMMA InitIInv == Init => IInv
  <1> SUFFICES ASSUME Init PROVE IInv
    OBVIOUS
  <1>1. PICK n \in 0..MaxModes : modes \in [1..n -> Mode]
    BY DEF Init
  <1>2. n \in Nat
    BY GopModeAssumption DEF GopModeAssumption
  <1>3. modes \in Seq(Mode) /\ Len(modes) = n
    BY <1>1, <1>2
  <1>4. TypeOK
    BY <1>3 DEF Init, TypeOK
  <1>5. ~valid_query_mode
    BY DEF Init
  <1>6. Kept /\ Seen
    BY <1>2, <1>3, <1>5 DEF Init, Kept, Seen
  <1>7. Searching /\ Stopped /\ Checked
    BY <1>5, GopModeAssumption DEF Init, Searching, Stopped, Checked, GopModeAssumption
  <1> QED
    BY <1>4, <1>6, <1>7 DEF IInv

\* The mode after the ones seen becomes the mode kept.
LEMMA WiderIInv ==
  ASSUME IInv, init_QueryMode, Wider(ModeAt(mode_num))
  PROVE  IInv'
  <1> DEFINE w == ModeAt(mode_num).width
  <1>1. /\ mode_num \in Nat /\ mode_num < Len(modes) /\ Len(modes) \in Nat
        /\ HorizontalResolution \in Nat
        /\ w \in Nat \ {0}
        /\ SCREEN_WIDTH \in Nat \ {0}
    <2>1. TypeOK /\ mode_num < Len(modes)
      BY DEF IInv, init_QueryMode
    <2> QED
      BY <2>1, WidthType, GopModeAssumption DEF TypeOK, GopModeAssumption
  <1>2. /\ HorizontalResolution < w /\ ModeAt(mode_num).bgr
        /\ modes' = modes /\ HorizontalResolution' = w
        /\ set_mode_num' = mode_num /\ valid_query_mode' = TRUE
        /\ \/ w = SCREEN_WIDTH /\ pc' = "check" /\ mode_num' = mode_num
           \/ w # SCREEN_WIDTH /\ mode_num' = mode_num + 1 /\ pc' = pc
        /\ pc = "QueryMode"
    BY DEF init_QueryMode, Wider
  <1>3. TypeOK'
    <2>1. valid_query_mode' \in BOOLEAN
      BY <1>2
    <2>2. mode_num' \in Nat /\ set_mode_num' \in Nat /\ HorizontalResolution' \in Nat
      BY <1>1, <1>2
    <2>3. modes' \in Seq(Mode) /\ pc' \in {"QueryMode", "check", "SetMode", "error"}
      BY <1>2 DEF IInv, TypeOK
    <2> QED
      BY <2>1, <2>2, <2>3 DEF TypeOK
  <1>4. Bgr(mode_num)
    <2>1. mode_num \in 0..(Len(modes) - 1)
      BY <1>1
    <2> QED
      BY <1>2, <2>1 DEF Bgr
  <1>5. \A n : Bgr(n)' = Bgr(n) /\ ModeAt(n)' = ModeAt(n)
    BY <1>2 DEF Bgr, ModeAt
  <1>6. Kept'
    <2>1. Bgr(set_mode_num)'
      BY <1>2, <1>4 DEF Bgr, ModeAt
    <2>2. HorizontalResolution' = ModeAt(set_mode_num)'.width
      BY <1>2 DEF ModeAt
    <2>3. mode_num' <= Len(modes)'
      BY <1>1, <1>2
    <2>4. valid_query_mode'
      BY <1>2
    <2> QED
      BY <2>1, <2>2, <2>3, <2>4 DEF Kept, ModeAt
  <1>7. \A n \in 0..(mode_num - 1) : Bgr(n) => ModeAt(n).width < w
    <2> TAKE n \in 0..(mode_num - 1)
    <2> HAVE Bgr(n)
    <2>1. ModeAt(n).width <= HorizontalResolution
      BY DEF IInv, Seen, Beaten
    <2>2. ModeAt(n).width \in Nat
      BY <1>1, WidthType DEF IInv
    <2> QED
      BY <1>1, <1>2, <2>1, <2>2
  <1>8. Seen'
    <2> SUFFICES ASSUME NEW n \in 0..(mode_num' - 1), Bgr(n)
                 PROVE  /\ ModeAt(n).width <= w
                        /\ n < mode_num => ModeAt(n).width < w
      BY <1>2, <1>5 DEF Seen, Beaten
    <2>1. CASE n = mode_num
      BY <1>1, <2>1
    <2>2. CASE n # mode_num
      <3>1. n \in 0..(mode_num - 1)
        BY <1>1, <1>2, <2>2
      <3>2. ModeAt(n).width < w /\ ModeAt(n).width \in Nat
        BY <1>1, <1>7, <3>1, WidthType DEF IInv
      <3> QED
        BY <1>1, <3>2
    <2> QED
      BY <2>1, <2>2
  <1>9. \A n \in 0..(mode_num' - 1) : w # SCREEN_WIDTH => Excused(n)
    <2> TAKE n \in 0..(mode_num' - 1)
    <2> HAVE w # SCREEN_WIDTH
    <2>1. CASE n = mode_num
      BY <2>1 DEF Excused
    <2>2. CASE n # mode_num
      <3>1. n \in 0..(mode_num - 1)
        BY <1>1, <1>2, <2>2
      <3> QED
        BY <1>2, <3>1 DEF IInv, Searching
    <2> QED
      BY <2>1, <2>2
  <1>10. \A n : Excused(n)' = Excused(n)
    BY <1>5 DEF Excused
  <1>11. Searching'
    BY <1>1, <1>2, <1>9, <1>10 DEF Searching
  <1>12. Stopped'
    BY <1>2 DEF Stopped
  <1>13. Checked'
    BY <1>2 DEF Checked
  <1> QED
    BY <1>3, <1>6, <1>8, <1>11, <1>12, <1>13 DEF IInv

\* The mode after the ones seen is skipped.
LEMMA SkipIInv ==
  ASSUME IInv, init_QueryMode, ~Wider(ModeAt(mode_num))
  PROVE  IInv'
  <1>1. /\ mode_num \in Nat /\ mode_num < Len(modes) /\ Len(modes) \in Nat
        /\ HorizontalResolution \in Nat /\ set_mode_num \in Nat
        /\ ModeAt(mode_num).width \in Nat
        /\ SCREEN_WIDTH \in Nat \ {0}
    <2>1. TypeOK /\ mode_num < Len(modes)
      BY DEF IInv, init_QueryMode
    <2> QED
      BY <2>1, WidthType, GopModeAssumption DEF TypeOK, GopModeAssumption
  <1>2. /\ modes' = modes /\ HorizontalResolution' = HorizontalResolution
        /\ set_mode_num' = set_mode_num /\ valid_query_mode' = valid_query_mode
        /\ mode_num' = mode_num + 1 /\ pc' = pc /\ pc = "QueryMode"
    BY DEF init_QueryMode
  <1>3. Bgr(mode_num) => ModeAt(mode_num).width <= HorizontalResolution
    <2> HAVE Bgr(mode_num)
    <2>1. ~(HorizontalResolution < ModeAt(mode_num).width)
      BY DEF Wider, Bgr
    <2> QED
      BY <1>1, <2>1
  <1>4. TypeOK'
    <2>1. mode_num' \in Nat
      BY <1>1, <1>2
    <2> QED
      BY <1>2, <2>1 DEF IInv, TypeOK
  <1>5. \A n : Bgr(n)' = Bgr(n) /\ ModeAt(n)' = ModeAt(n)
    BY <1>2 DEF Bgr, ModeAt
  <1>6. valid_query_mode => set_mode_num < mode_num
    BY <1>2 DEF IInv, Searching
  <1>7. ~valid_query_mode => HorizontalResolution = 0
    BY DEF IInv, Kept
  <1>8. Kept'
    <2>1. mode_num' <= Len(modes)'
      BY <1>1, <1>2
    <2> QED
      BY <1>2, <2>1 DEF IInv, Kept, Bgr, ModeAt
  <1>9. Beaten(mode_num)
    <2> SUFFICES ASSUME Bgr(mode_num)
                 PROVE  /\ ModeAt(mode_num).width <= HorizontalResolution
                        /\ mode_num < set_mode_num
                             => ModeAt(mode_num).width < HorizontalResolution
      BY DEF Beaten
    <2>1. valid_query_mode
      <3>1. ModeAt(mode_num).width # 0
        BY <1>1, WidthType DEF IInv
      <3>2. HorizontalResolution # 0
        BY <1>1, <1>3, <3>1
      <3> QED
        BY <1>7, <3>2
    <2>2. set_mode_num < mode_num
      BY <1>6, <2>1
    <2> QED
      BY <1>1, <1>3, <2>2
  <1>10. Seen'
    <2> SUFFICES ASSUME NEW n \in 0..mode_num PROVE Beaten(n)'
      BY <1>1, <1>2 DEF Seen
    <2>1. Beaten(n)' = Beaten(n)
      BY <1>2, <1>5 DEF Beaten
    <2>2. n = mode_num \/ n \in 0..(mode_num - 1)
      BY <1>1
    <2> QED
      BY <1>9, <2>1, <2>2 DEF IInv, Seen
  <1>11. Excused(mode_num)
    <2> SUFFICES ASSUME Bgr(mode_num), ModeAt(mode_num).width = SCREEN_WIDTH
                 PROVE  \E k \in 0..(mode_num - 1) : Bgr(k) /\ ModeAt(k).width > SCREEN_WIDTH
      BY DEF Excused
    <2>1. HorizontalResolution # SCREEN_WIDTH
      BY <1>2 DEF IInv, Searching
    <2>2. HorizontalResolution > SCREEN_WIDTH
      BY <1>1, <1>3, <2>1
    <2>3. HorizontalResolution # 0
      BY <1>1, <2>2
    <2>4. valid_query_mode
      BY <1>7, <2>3
    <2>5. Bgr(set_mode_num) /\ HorizontalResolution = ModeAt(set_mode_num).width
      BY <2>4 DEF IInv, Kept
    <2>6. set_mode_num \in 0..(mode_num - 1)
      BY <1>1, <1>6, <2>4
    <2> QED
      BY <2>2, <2>5, <2>6
  <1>12. \A n \in 0..mode_num : Excused(n)'
    <2> TAKE n \in 0..mode_num
    <2>1. Excused(n)' = Excused(n)
      BY <1>5 DEF Excused
    <2>2. n = mode_num \/ n \in 0..(mode_num - 1)
      BY <1>1
    <2> QED
      BY <1>2, <1>11, <2>1, <2>2 DEF IInv, Searching
  <1>13. Searching'
    <2>1. valid_query_mode' => set_mode_num' < mode_num'
      <3>1. set_mode_num < mode_num => set_mode_num < mode_num + 1
        BY <1>1
      <3> QED
        BY <1>2, <1>6, <3>1
    <2>2. HorizontalResolution' # SCREEN_WIDTH
      BY <1>2 DEF IInv, Searching
    <2>3. \A n \in 0..(mode_num' - 1) : Excused(n)'
      BY <1>1, <1>2, <1>12
    <2> QED
      BY <2>1, <2>2, <2>3 DEF Searching
  <1>14. Stopped' /\ Checked'
    BY <1>2 DEF Stopped, Checked
  <1> QED
    BY <1>4, <1>8, <1>10, <1>13, <1>14 DEF IInv

\* Past the last mode, and at the test of valid_query_mode, nothing is lost.
LEMMA StopIInv ==
  ASSUME IInv, init_QueryModeFails \/ init_check \/ UNCHANGED vars
  PROVE  IInv'
  <1>1. /\ modes' = modes /\ HorizontalResolution' = HorizontalResolution
        /\ set_mode_num' = set_mode_num /\ valid_query_mode' = valid_query_mode
        /\ mode_num' = mode_num
    BY DEF init_QueryModeFails, init_check, vars
  <1>2. pc' \in {"QueryMode", "check", "SetMode", "error"}
    BY DEF init_QueryModeFails, init_check, vars, IInv, TypeOK
  <1>3. TypeOK'
    BY <1>1, <1>2 DEF IInv, TypeOK
  <1>4. \A n : Bgr(n)' = Bgr(n) /\ ModeAt(n)' = ModeAt(n)
    BY <1>1 DEF Bgr, ModeAt
  <1>5. \A n : Excused(n)' = Excused(n) /\ Beaten(n)' = Beaten(n)
    BY <1>1, <1>4 DEF Excused, Beaten
  <1>6. Kept' /\ Seen'
    BY <1>1, <1>4, <1>5 DEF IInv, Kept, Seen
  <1>7. Searching'
    BY <1>1, <1>5 DEF IInv, Searching, init_QueryModeFails, init_check, vars
  <1>8. Stopped'
    BY <1>1, <1>5 DEF IInv, Searching, Stopped, init_QueryModeFails, init_check, vars
  <1>9. Checked'
    BY <1>1 DEF IInv, Checked, init_QueryModeFails, init_check, vars
  <1> QED
    BY <1>3, <1>6, <1>7, <1>8, <1>9 DEF IInv

\* IInv is an invariant of the loop.
THEOREM Invariance == Spec => []IInv
  <1>1. IInv /\ [Next]_vars => IInv'
    BY WiderIInv, SkipIInv, StopIInv DEF Next
  <1> QED
    BY InitIInv, <1>1, PTL DEF Spec

\* The loop's variables keep their types, whatever the display lists.
THEOREM TypeCorrect == Spec => []TypeOK
  <1>1. IInv => TypeOK
    BY DEF IInv
  <1> QED
    BY Invariance, <1>1, PTL

\* What IInv says where SetMode is called.
LEMMA AtSetMode ==
  ASSUME IInv, pc = "SetMode"
  PROVE  /\ Bgr(set_mode_num) /\ set_mode_num \in Nat /\ mode_num \in Nat
         /\ set_mode_num <= mode_num /\ Len(modes) \in Nat
         /\ HorizontalResolution = ModeAt(set_mode_num).width
         /\ HorizontalResolution \in Nat
  <1>1. valid_query_mode
    BY DEF IInv, Checked
  <1>2. Bgr(set_mode_num) /\ HorizontalResolution = ModeAt(set_mode_num).width
    BY <1>1 DEF IInv, Kept
  <1>3. set_mode_num \in Nat /\ mode_num \in Nat /\ HorizontalResolution \in Nat
        /\ Len(modes) \in Nat
    BY DEF IInv, TypeOK
  <1>4. set_mode_num < mode_num \/ set_mode_num = mode_num
    BY <1>1 DEF IInv, Stopped
  <1> QED
    BY <1>2, <1>3, <1>4

\* SetMode gets the first of the widest blue-green-red modes looked at.
THEOREM FirstWidest == Spec => []ChosenIsFirstWidest
  <1>1. IInv => ChosenIsFirstWidest
    <2> SUFFICES ASSUME IInv, pc = "SetMode", NEW n \in 0..mode_num, Bgr(n)
                 PROVE  /\ ModeAt(n).width <= HorizontalResolution
                        /\ n < set_mode_num => ModeAt(n).width < HorizontalResolution
      BY AtSetMode DEF ChosenIsFirstWidest
    <2>1. CASE n \in 0..(mode_num - 1)
      BY <2>1 DEF IInv, Seen, Beaten
    <2>2. CASE n = mode_num
      <3>1. n \in 0..(Len(modes) - 1)
        BY DEF Bgr
      <3>2. set_mode_num = mode_num
        BY <2>2, <3>1, AtSetMode DEF IInv, Stopped
      <3> QED
        BY <2>2, <3>2, AtSetMode
    <2> QED
      BY <2>1, <2>2, AtSetMode
  <1> QED
    BY Invariance, <1>1, PTL

\* The width looked for is taken, or was listed after a wider mode.
THEOREM PreferredTaken == Spec => []PreferredWidthTaken
  <1>1. IInv => PreferredWidthTaken
    <2> SUFFICES ASSUME IInv, pc = "SetMode", HorizontalResolution # SCREEN_WIDTH,
                        NEW n \in 0..(Len(modes) - 1), Bgr(n)
                 PROVE  ModeAt(n).width <= HorizontalResolution /\ Excused(n)
      BY AtSetMode DEF PreferredWidthTaken, Excused
    <2>1. mode_num = Len(modes) /\ \A k \in 0..(mode_num - 1) : Excused(k)
      BY DEF IInv, Stopped
    <2> QED
      BY <2>1 DEF IInv, Seen, Beaten
  <1> QED
    BY Invariance, <1>1, PTL

\* No display with a blue-green-red mode is refused.
THEOREM RefusedRightly == Spec => []RefusedOnlyWithoutMode
  <1>1. IInv => RefusedOnlyWithoutMode
    <2> SUFFICES ASSUME IInv, pc = "error", NEW n \in 0..(Len(modes) - 1), Bgr(n)
                 PROVE  FALSE
      BY DEF RefusedOnlyWithoutMode
    <2>1. ~valid_query_mode
      BY DEF IInv, Checked
    <2>2. HorizontalResolution = 0
      BY <2>1 DEF IInv, Kept
    <2>3. mode_num = Len(modes)
      BY <2>2, GopModeAssumption DEF IInv, Stopped, GopModeAssumption
    <2>4. ModeAt(n).width <= 0
      BY <2>2, <2>3 DEF IInv, Seen, Beaten
    <2>5. n \in Nat /\ n < Len(modes)
      BY DEF IInv, TypeOK
    <2>6. ModeAt(n).width \in Nat \ {0}
      BY <2>5, WidthType DEF IInv
    <2> QED
      BY <2>4, <2>6
  <1> QED
    BY Invariance, <1>1, PTL

-----------------------------------------------------------------------------
(* The loop has no bound of its own to stop it: it ends because QueryMode  *)
(* is asked for one mode more each time.                                   *)

\* How many steps are left at the most.
StepsLeft ==
  IF pc = "QueryMode" THEN Len(modes) - mode_num + 2 ELSE IF pc = "check" THEN 1 ELSE 0

\* Every step brings the end of init nearer, whatever the modes are.
THEOREM LoopEnds ==
  Spec => [](StepsLeft \in 0..(Len(modes) + 2)) /\ [][StepsLeft' < StepsLeft]_vars
  <1>1. IInv => StepsLeft \in 0..(Len(modes) + 2)
    BY DEF IInv, TypeOK, Kept, StepsLeft
  <1>2. IInv /\ [Next]_vars => [StepsLeft' < StepsLeft]_vars
    <2> SUFFICES ASSUME IInv, Next PROVE StepsLeft' < StepsLeft
      OBVIOUS
    <2>1. modes' = modes /\ Len(modes) \in Nat /\ mode_num \in Nat /\ mode_num <= Len(modes)
      BY DEF IInv, TypeOK, Kept, Next, init_QueryMode, init_QueryModeFails, init_check
    <2>2. CASE init_QueryMode
      <3>1. /\ pc = "QueryMode" /\ mode_num < Len(modes)
            /\ \/ pc' = "check"
               \/ pc' = "QueryMode" /\ mode_num' = mode_num + 1
        BY <2>2 DEF init_QueryMode
      <3> QED
        BY <2>1, <3>1 DEF StepsLeft
    <2>3. CASE init_QueryModeFails \/ init_check
      BY <2>1, <2>3 DEF init_QueryModeFails, init_check, StepsLeft
    <2> QED
      BY <2>2, <2>3 DEF Next
  <1> QED
    BY Invariance, <1>1, <1>2, PTL DEF Spec
=============================================================================
