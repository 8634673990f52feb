------------------------------- MODULE GopMode -------------------------------
(***************************************************************************)
(* The end of init in efi_main.c: the choice of a graphics mode.  The loop *)
(* asks for one mode after the other until QueryMode fails, which it does  *)
(* past the last mode.  A mode is its pixel format, blue-green-red or any  *)
(* other, and its horizontal resolution.                                   *)
(***************************************************************************)
EXTENDS Integers, Sequences

CONSTANTS Widths,        \* the horizontal resolutions of the display
          SCREEN_WIDTH,  \* the width the program looks for
          MaxModes       \* bound on the number of modes

ASSUME GopModeAssumption ==
  /\ Widths \subseteq Nat \ {0}
  /\ SCREEN_WIDTH \in Nat \ {0}
  /\ MaxModes \in Nat

Mode == [bgr : BOOLEAN, width : Widths]

VARIABLES modes,                 \* what QueryMode answers
          mode_num, set_mode_num, valid_query_mode, HorizontalResolution,
          pc

vars == <<modes, mode_num, set_mode_num, valid_query_mode,
          HorizontalResolution, pc>>

TypeOK ==
  /\ modes \in Seq(Mode)
  /\ mode_num \in Nat /\ set_mode_num \in Nat
  /\ valid_query_mode \in BOOLEAN
  /\ HorizontalResolution \in Nat
  /\ pc \in {"QueryMode", "check", "SetMode", "error"}

\* Modes are numbered from 0, sequences from 1.
ModeAt(n) == modes[n + 1]

Init ==
  /\ modes \in UNION {[1..n -> Mode] : n \in 0..MaxModes}
  /\ mode_num = 0 /\ set_mode_num = 0
  /\ valid_query_mode = FALSE
  /\ HorizontalResolution = 0
  /\ pc = "QueryMode"

\* Mutant: the mode found last among the widest.
Wider_OrEqual(m) == m.bgr /\ HorizontalResolution <= m.width

\* A mode the loop does not skip: blue-green-red, and wider than the best.
Wider(m) == m.bgr /\ HorizontalResolution < m.width

\* Mutant: the loop has no break.
init_QueryMode_NoBreak ==
  /\ pc = "QueryMode"
  /\ mode_num < Len(modes)
  /\ mode_num' = mode_num + 1
  /\ IF Wider(ModeAt(mode_num))
       THEN /\ HorizontalResolution' = ModeAt(mode_num).width
            /\ set_mode_num' = mode_num
            /\ valid_query_mode' = TRUE
       ELSE UNCHANGED <<HorizontalResolution, set_mode_num, valid_query_mode>>
  /\ UNCHANGED <<modes, pc>>

\* One round of the loop; the break leaves mode_num where it is.
init_QueryMode ==
  /\ pc = "QueryMode"
  /\ mode_num < Len(modes)
  /\ LET m == ModeAt(mode_num)
     IN \/ /\ Wider(m)
           /\ HorizontalResolution' = m.width
           /\ set_mode_num' = mode_num
           /\ valid_query_mode' = TRUE
           /\ \/ m.width = SCREEN_WIDTH /\ pc' = "check" /\ UNCHANGED mode_num
              \/ m.width # SCREEN_WIDTH /\ mode_num' = mode_num + 1 /\ UNCHANGED pc
        \/ /\ ~Wider(m)
           /\ mode_num' = mode_num + 1
           /\ UNCHANGED <<HorizontalResolution, set_mode_num, valid_query_mode, pc>>
  /\ UNCHANGED modes

init_QueryModeFails ==
  /\ pc = "QueryMode"
  /\ mode_num = Len(modes)
  /\ pc' = "check"
  /\ UNCHANGED <<modes, mode_num, set_mode_num, valid_query_mode,
                 HorizontalResolution>>

\* Mutant: a display is refused unless it has the width looked for.
init_check_WidthRequired ==
  /\ pc = "check"
  /\ pc' = IF HorizontalResolution = SCREEN_WIDTH THEN "SetMode" ELSE "error"
  /\ UNCHANGED <<modes, mode_num, set_mode_num, valid_query_mode,
                 HorizontalResolution>>

init_check ==
  /\ pc = "check"
  /\ pc' = IF valid_query_mode THEN "SetMode" ELSE "error"
  /\ UNCHANGED <<modes, mode_num, set_mode_num, valid_query_mode,
                 HorizontalResolution>>

Next == init_QueryMode \/ init_QueryModeFails \/ init_check

Spec == Init /\ [][Next]_vars

-----------------------------------------------------------------------------
(* What must hold, in terms of the list of modes alone. *)

Bgr(n) == n \in 0..(Len(modes) - 1) /\ ModeAt(n).bgr

(* SetMode is called with the first of the widest blue-green-red modes     *)
(* among those listed up to where the loop stopped.                        *)
ChosenIsFirstWidest ==
  pc = "SetMode" =>
    /\ Bgr(set_mode_num) /\ set_mode_num <= mode_num
    /\ \A n \in 0..mode_num : Bgr(n) =>
         /\ ModeAt(n).width <= ModeAt(set_mode_num).width
         /\ n < set_mode_num => ModeAt(n).width < ModeAt(set_mode_num).width

(* A blue-green-red mode of the width looked for is taken, unless a wider  *)
(* one is listed before it; then the widest of all is.                     *)
PreferredWidthTaken ==
  pc = "SetMode" =>
    \/ ModeAt(set_mode_num).width = SCREEN_WIDTH
    \/ \A n \in 0..(Len(modes) - 1) : Bgr(n) =>
         /\ ModeAt(n).width <= ModeAt(set_mode_num).width
         /\ ModeAt(n).width = SCREEN_WIDTH =>
              \E k \in 0..(n - 1) : Bgr(k) /\ ModeAt(k).width > SCREEN_WIDTH

(* The program gives up only on a display without a blue-green-red mode.   *)
RefusedOnlyWithoutMode ==
  pc = "error" => \A n \in 0..(Len(modes) - 1) : ~Bgr(n)
=============================================================================
