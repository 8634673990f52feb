--------------------------- MODULE ExitBoot_proofs ---------------------------
(***************************************************************************)
(* The safety properties of ExitBoot, for every size of the map and every  *)
(* number of changes the firmware makes to it.                             *)
(***************************************************************************)
EXTENDS ExitBoot, TLAPS

(***************************************************************************)
(* The inductive invariant.  RacesCounted is what the bound on the retry   *)
(* rests on: from a successful GetMemoryMap on, a stale key is the doing   *)
(* of a callback, and the retry itself is the doing of an earlier one.     *)
(***************************************************************************)
HoldingPcs == {"convert", "ExitBootServices"}
FinalPcs   == {"SetVirtualAddressMap", "tp_reset_cold"}

ExitedHolds   == exited <=> pc \in FinalPcs
BufferHolds   == /\ pc = "AllocatePool" => MM.memory_map = NULL
                 /\ pc \in {"GetMemoryMap"} \cup HoldingPcs \cup FinalPcs
                      => MM.memory_map # NULL
SizeHolds     == pc \in HoldingPcs \cup FinalPcs
                   => MM.memory_map_size <= MM.memory_map
FreshHolds    == /\ pc \in HoldingPcs /\ MM.map_key = key => MM.memory_map_size = need
                 /\ pc \in HoldingPcs => MM.map_key <= key
ConvertHolds  == pc = "ExitBootServices" => virtual
RacesCounted  == /\ retry => changes >= 1
                 /\ pc \in HoldingPcs /\ MM.map_key # key
                      => changes >= IF retry THEN 2 ELSE 1

IInv == /\ TypeOK
        /\ ExitedHolds /\ BufferHolds /\ SizeHolds /\ FreshHolds
        /\ ConvertHolds /\ RacesCounted
        /\ OneBuffer /\ FinalMapCurrent /\ GiveUpTakesTwoRaces

(* The program starts without a map and without a buffer.                  *)
LEMMA InitIInv == Init => IInv
<1> SUFFICES ASSUME Init PROVE IInv
  OBVIOUS
<1>1. MM \in MemMap /\ MM.memory_map = NULL
  BY DEF Init, MemMap
<1>2. TypeOK
  <2>1. growth \in 0..MaxGrowth /\ changes \in 0..MaxChanges
    BY ExitBootAssumption DEF Init
  <2>2. /\ key \in Nat /\ need \in Nat \ {0} /\ pool \in Nat
        /\ exited \in BOOLEAN /\ retry \in BOOLEAN /\ virtual \in BOOLEAN
        /\ console \subseteq Calls /\ pc \in Pcs
    BY ExitBootAssumption DEF Init, Pcs
  <2> QED  BY <1>1, <2>1, <2>2 DEF TypeOK
<1>3. /\ ExitedHolds /\ BufferHolds /\ SizeHolds /\ FreshHolds
      /\ ConvertHolds /\ RacesCounted
  BY DEF Init, HoldingPcs, FinalPcs, ExitedHolds, BufferHolds, SizeHolds,
         FreshHolds, ConvertHolds, RacesCounted
<1>4. OneBuffer /\ FinalMapCurrent /\ GiveUpTakesTwoRaces
  BY <1>1 DEF Init, OneBuffer, FinalMapCurrent, GiveUpTakesTwoRaces
<1> QED  BY <1>2, <1>3, <1>4 DEF IInv

(* A change of the map gives it a key no map held has.                     *)
LEMMA MapChangesEffect ==
  ASSUME TypeOK, MapChanges
  PROVE  /\ key' = key + 1
         /\ need' \in Nat \ {0}
         /\ growth' \in 0..MaxGrowth
  BY ExitBootAssumption DEF TypeOK, MapChanges

(* Every step of the program and of the firmware keeps the invariant.      *)
LEMMA StepIInv == IInv /\ [Next]_vars => IInv'
<1> SUFFICES ASSUME IInv, [Next]_vars PROVE IInv'
  OBVIOUS
<1> USE ExitBootAssumption
    DEF IInv, TypeOK, Pcs, Calls, MemMap, HoldingPcs, FinalPcs, ExitedHolds,
        BufferHolds, SizeHolds, FreshHolds, ConvertHolds, RacesCounted,
        OneBuffer, FinalMapCurrent, GiveUpTakesTwoRaces
<1>1. CASE Callback
  BY <1>1, MapChangesEffect DEF Callback, programVars
<1>2. CASE get_memory_map
  BY <1>2 DEF get_memory_map, Step, firmwareVars
<1>3. CASE get_memory_map_FreePool
  BY <1>3, MapChangesEffect DEF get_memory_map_FreePool, Step
<1>4. CASE get_memory_map_AllocatePool
  BY <1>4, MapChangesEffect DEF get_memory_map_AllocatePool, error_print
<1>5. CASE get_memory_map_GetMemoryMap
  <2>1. /\ pc = "GetMemoryMap" /\ MM.memory_map \in Nat
        /\ UNCHANGED <<key, need, exited, growth, changes, pool, retry>>
    BY <1>5 DEF get_memory_map_GetMemoryMap, firmwareVars
  <2>2. CASE /\ need <= MM.memory_map
             /\ pc' = "convert"
             /\ MM' = [MM EXCEPT !.memory_map_size = need, !.map_key = key]
             /\ virtual' = FALSE
             /\ UNCHANGED console
    <3>1. /\ MM' \in MemMap /\ MM'.memory_map = MM.memory_map
          /\ MM'.memory_map_size = need /\ MM'.map_key = key
      BY <2>2
    <3>2. TypeOK'
      BY <2>1, <2>2, <3>1
    <3>3. /\ ExitedHolds' /\ BufferHolds' /\ SizeHolds' /\ FreshHolds'
          /\ ConvertHolds' /\ RacesCounted'
      BY <2>1, <2>2, <3>1
    <3>4. OneBuffer' /\ FinalMapCurrent' /\ GiveUpTakesTwoRaces'
      BY <2>1, <2>2, <3>1
    <3> QED  BY <3>2, <3>3, <3>4
  <2>3. CASE /\ need > MM.memory_map
             /\ pc' = "FreePool"
             /\ MM' = [MM EXCEPT !.memory_map_size = need]
             /\ UNCHANGED <<console, virtual>>
    <3>1. MM' \in MemMap /\ MM'.memory_map = MM.memory_map
      BY <2>3
    <3> QED  BY <2>1, <2>3, <3>1
  <2>4. CASE error_print("GetMemoryMap") /\ UNCHANGED <<MM, virtual>>
    BY <2>1, <2>4 DEF error_print
  <2> QED  BY <1>5, <2>2, <2>3, <2>4 DEF get_memory_map_GetMemoryMap
<1>6. CASE exit_boot_services_convert
  BY <1>6 DEF exit_boot_services_convert, Step, firmwareVars
<1>7. CASE exit_boot_services_Exit
  <2>1. /\ pc = "ExitBootServices"
        /\ UNCHANGED <<key, need, growth, changes, pool, MM, virtual>>
    BY <1>7 DEF exit_boot_services_Exit
  <2>2. CASE /\ MM.map_key = key
             /\ exited' = TRUE
             /\ pc' = "SetVirtualAddressMap"
             /\ UNCHANGED <<console, retry>>
    BY <2>1, <2>2
  <2>3. CASE /\ MM.map_key # key /\ retry
             /\ error_print("ExitBootServices")
             /\ UNCHANGED <<retry, exited>>
    <3>1. changes >= 2
      BY <2>1, <2>3
    <3> QED  BY <2>1, <2>3, <3>1 DEF error_print
  <2>4. CASE /\ MM.map_key # key /\ ~retry
             /\ retry' = TRUE /\ pc' = "get_memory_map"
             /\ UNCHANGED <<console, exited>>
    <3>1. changes >= 1
      BY <2>1, <2>4
    <3> QED  BY <2>1, <2>4, <3>1
  <2> QED  BY <1>7, <2>2, <2>3, <2>4 DEF exit_boot_services_Exit
<1>8. CASE exit_boot_services_SetVirtualAddressMap
  BY <1>8 DEF exit_boot_services_SetVirtualAddressMap, Step, firmwareVars,
              programVars
<1>9. CASE UNCHANGED vars
  BY <1>9 DEF vars
<1> QED
  BY <1>1, <1>2, <1>3, <1>4, <1>5, <1>6, <1>7, <1>8, <1>9 DEF Next, Program

(* The invariant holds for every firmware and every number of callbacks.   *)
THEOREM Invariance == Spec => []IInv
  BY InitIInv, StepIInv, PTL DEF Spec

(* Types hold with no bound on the keys or the sizes.                      *)
THEOREM TypeCorrect == Spec => []TypeOK
<1>1. IInv => TypeOK
  BY DEF IInv
<1> QED  BY <1>1, Invariance, PTL

(* The map handed to SetVirtualAddressMap is the machine's last one, with  *)
(* its runtime descriptors converted.                                      *)
THEOREM FinalMapCurrentHolds == Spec => []FinalMapCurrent
<1>1. IInv => FinalMapCurrent
  BY DEF IInv
<1> QED  BY <1>1, Invariance, PTL

(* The loop over the descriptors never leaves the buffer.                  *)
THEOREM MapInsideBufferHolds == Spec => []MapInsideBuffer
<1>1. IInv => MapInsideBuffer
  BY DEF IInv, BufferHolds, SizeHolds, HoldingPcs, FinalPcs, MapInsideBuffer
<1> QED  BY <1>1, Invariance, PTL

(* No map buffer is lost or freed twice, over any number of rounds.        *)
THEOREM OneBufferHolds == Spec => []OneBuffer
<1>1. IInv => OneBuffer
  BY DEF IInv
<1> QED  BY <1>1, Invariance, PTL

(* One change of the map behind the program's back is always absorbed.     *)
THEOREM GiveUpTakesTwoRacesHolds == Spec => []GiveUpTakesTwoRaces
<1>1. IInv => GiveUpTakesTwoRaces
  BY DEF IInv
<1> QED  BY <1>1, Invariance, PTL

(* After ExitBootServices nothing is allocated, freed or printed.          *)
THEOREM NoBootServiceAfterExitHolds == Spec => NoBootServiceAfterExit
<1>1. IInv /\ [Next]_vars => [exited => UNCHANGED <<pool, console, key>>]_vars
  <2> SUFFICES ASSUME IInv, exited, Next
               PROVE  UNCHANGED <<pool, console, key>>
    BY DEF vars
  <2>1. pc \in FinalPcs /\ ~Callback
    BY DEF IInv, ExitedHolds, Callback
  <2>2. pc = "SetVirtualAddressMap" /\ exit_boot_services_SetVirtualAddressMap
    BY <2>1
       DEF FinalPcs, Next, Program, Step, get_memory_map, get_memory_map_FreePool,
           get_memory_map_AllocatePool, get_memory_map_GetMemoryMap,
           exit_boot_services_convert, exit_boot_services_Exit,
           exit_boot_services_SetVirtualAddressMap
  <2> QED
    BY <2>2 DEF exit_boot_services_SetVirtualAddressMap, firmwareVars
<1> QED  BY <1>1, Invariance, PTL DEF Spec, NoBootServiceAfterExit

-----------------------------------------------------------------------------
(* The end of the two loops.  Each EFI_BUFFER_TOO_SMALL makes the next     *)
(* buffer larger than the last, and no map is larger than Bound; the retry *)
(* starts with no buffer, and there is one retry.                          *)

Bound == InitialNeed + MaxGrowth

NeedHolds == need <= InitialNeed + growth
SizeBound == /\ MM.memory_map_size <= Bound
             /\ pc = "GetMemoryMap" => MM.memory_map = MM.memory_map_size

\* The bound on the map is kept by every step,
LEMMA StepSize ==
  IInv /\ NeedHolds /\ SizeBound /\ [Next]_vars => NeedHolds' /\ SizeBound'
<1> SUFFICES ASSUME IInv, NeedHolds, SizeBound, [Next]_vars
             PROVE  NeedHolds' /\ SizeBound'
  OBVIOUS
<1> USE ExitBootAssumption DEF IInv, TypeOK, MemMap, NeedHolds, SizeBound, Bound
<1>1. MapChanges => NeedHolds'
  BY DEF MapChanges
<1>2. CASE Callback
  BY <1>1, <1>2 DEF Callback, programVars
<1>3. CASE get_memory_map
  BY <1>3 DEF get_memory_map, Step, firmwareVars
<1>4. CASE get_memory_map_FreePool
  BY <1>1, <1>4 DEF get_memory_map_FreePool, Step
<1>5. CASE get_memory_map_AllocatePool
  BY <1>1, <1>5 DEF get_memory_map_AllocatePool, error_print
<1>6. CASE get_memory_map_GetMemoryMap
  <2>1. need <= Bound /\ need' = need /\ growth' = growth
    BY <1>6 DEF get_memory_map_GetMemoryMap, firmwareVars
  <2>2. MM'.memory_map_size \in {need, MM.memory_map_size} /\ pc' # "GetMemoryMap"
    BY <1>6 DEF get_memory_map_GetMemoryMap, error_print
  <2> QED  BY <2>1, <2>2
<1>7. CASE exit_boot_services_convert \/ exit_boot_services_Exit
             \/ exit_boot_services_SetVirtualAddressMap
  BY <1>7 DEF exit_boot_services_convert, exit_boot_services_Exit,
     exit_boot_services_SetVirtualAddressMap, Step, error_print, firmwareVars,
     programVars
<1>8. CASE UNCHANGED vars
  BY <1>8 DEF vars
<1> QED  BY <1>2, <1>3, <1>4, <1>5, <1>6, <1>7, <1>8 DEF Next, Program

\* and so holds throughout.
LEMMA SizeInvariance == Spec => [](NeedHolds /\ SizeBound)
<1>1. Init => NeedHolds /\ SizeBound
  BY ExitBootAssumption DEF Init, NeedHolds, SizeBound, Bound
<1> QED  BY <1>1, Invariance, StepSize, PTL DEF Spec

(* How many calls are left at the most, for one pass and for both.         *)
Rounds == 4 * (Bound - MM.memory_map_size)

Pass ==
  CASE pc = "get_memory_map"       -> 4 * Bound + 9
    [] pc = "FreePool"             -> Rounds + 8
    [] pc = "AllocatePool"         -> Rounds + 7
    [] pc = "GetMemoryMap"         -> Rounds + 6
    [] pc = "convert"              -> 5
    [] pc = "ExitBootServices"     -> 4
    [] pc = "SetVirtualAddressMap" -> 3

StepsLeft ==
  IF pc \in {"tp_reset_cold", "reset_system"} THEN 0
  ELSE Pass + (IF retry THEN 0 ELSE 4 * Bound + 9)

\* The measure is a natural number below the bound.
LEMMA StepsLeftType ==
  ASSUME TypeOK, SizeBound
  PROVE  StepsLeft \in 0..(8 * Bound + 18)
<1>1. Bound \in Nat /\ Rounds \in 0..(4 * Bound)
  BY ExitBootAssumption DEF TypeOK, MemMap, SizeBound, Bound, Rounds
<1> HIDE DEF Rounds
<1> QED  BY <1>1 DEF TypeOK, Pcs, StepsLeft, Pass

(* Every call of the program is one fewer to come.                         *)
LEMMA ProgramShortens ==
  ASSUME IInv, NeedHolds, SizeBound, Program
  PROVE  StepsLeft' < StepsLeft
<1> DEFINE B == 4 * Bound
           R == Rounds
<1>1. /\ B \in Nat /\ R \in 0..B
      /\ retry \in BOOLEAN
  BY ExitBootAssumption DEF IInv, TypeOK, MemMap, SizeBound, Bound, Rounds
<1> HIDE DEF B, R
<1>2. StepsLeft = IF pc \in {"tp_reset_cold", "reset_system"} THEN 0
                  ELSE Pass + (IF retry THEN 0 ELSE B + 9)
  BY DEF StepsLeft, B
<1>3. StepsLeft' = IF pc' \in {"tp_reset_cold", "reset_system"} THEN 0
                   ELSE Pass' + (IF retry' THEN 0 ELSE B + 9)
  BY DEF StepsLeft, B, Bound
<1>4. CASE get_memory_map
  <2>1. Pass = B + 9 /\ Pass' = B + 8 /\ retry' = retry
        /\ pc = "get_memory_map" /\ pc' = "FreePool"
    BY <1>4, ExitBootAssumption
    DEF get_memory_map, Step, IInv, TypeOK, MemMap, Pass, Rounds, Bound, B
  <2> QED  BY <1>1, <1>2, <1>3, <2>1
<1>5. CASE get_memory_map_FreePool
  <2>1. /\ pc = "FreePool" /\ pc' = "AllocatePool" /\ retry' = retry
        /\ MM'.memory_map_size = MM.memory_map_size
    BY <1>5 DEF get_memory_map_FreePool, Step, IInv, TypeOK, MemMap
  <2>2. Pass = R + 8 /\ Pass' = R + 7
    BY <2>1 DEF Pass, Rounds, R, Bound
  <2> QED  BY <1>1, <1>2, <1>3, <2>1, <2>2
<1>6. CASE get_memory_map_AllocatePool
  <2>1. /\ pc = "AllocatePool" /\ pc' \in {"GetMemoryMap", "reset_system"}
        /\ retry' = retry /\ MM'.memory_map_size = MM.memory_map_size
    BY <1>6 DEF get_memory_map_AllocatePool, error_print, IInv, TypeOK, MemMap
  <2>2. Pass = R + 7 /\ (pc' = "GetMemoryMap" => Pass' = R + 6)
    BY <2>1 DEF Pass, Rounds, R, Bound
  <2> QED  BY <1>1, <1>2, <1>3, <2>1, <2>2
<1>7. CASE get_memory_map_GetMemoryMap
  <2>1. /\ pc = "GetMemoryMap" /\ pc' \in {"convert", "FreePool", "reset_system"}
        /\ retry' = retry
        /\ pc' = "FreePool"
             => MM'.memory_map_size = need /\ need > MM.memory_map_size /\ need <= Bound
    BY <1>7, ExitBootAssumption
    DEF get_memory_map_GetMemoryMap, error_print, IInv, TypeOK, MemMap, SizeBound,
        NeedHolds, Bound
  <2>2. Pass = R + 6
    BY <2>1 DEF Pass, R
  <2>3. CASE pc' = "FreePool"
    <3>1. MM.memory_map_size \in Nat /\ need \in Nat /\ Bound \in Nat
      BY ExitBootAssumption DEF IInv, TypeOK, MemMap, Bound
    <3>2. Rounds' = 4 * (Bound - need)
      BY <2>1, <2>3 DEF Rounds, Bound
    <3>3. PICK r \in Nat : r <= R - 4 /\ Pass' = r + 8
      <4>1. 4 * (Bound - need) \in Nat /\ 4 * (Bound - need) <= R - 4
        BY <2>1, <2>3, <3>1 DEF Rounds, R
      <4>2. Pass' = 4 * (Bound - need) + 8
        BY <2>3, <3>2 DEF Pass
      <4> QED  BY <4>1, <4>2
    <3> QED  BY <1>1, <1>2, <1>3, <2>1, <2>2, <2>3, <3>3
  <2>4. CASE pc' # "FreePool"
    <3>1. pc' = "convert" => Pass' = 5
      BY DEF Pass
    <3> QED  BY <1>1, <1>2, <1>3, <2>1, <2>2, <2>4, <3>1
  <2> QED  BY <2>3, <2>4
<1>8. CASE exit_boot_services_convert
  <2>1. pc = "convert" /\ pc' = "ExitBootServices" /\ retry' = retry
    BY <1>8 DEF exit_boot_services_convert, Step
  <2>2. Pass = 5 /\ Pass' = 4
    BY <2>1 DEF Pass
  <2> QED  BY <1>1, <1>2, <1>3, <2>1, <2>2
<1>9. CASE exit_boot_services_Exit
  <2>1. /\ pc = "ExitBootServices"
        /\ \/ pc' = "SetVirtualAddressMap" /\ retry' = retry
           \/ pc' = "reset_system"
           \/ ~retry /\ retry' = TRUE /\ pc' = "get_memory_map"
    BY <1>9 DEF exit_boot_services_Exit, error_print
  <2>2. /\ Pass = 4
        /\ pc' = "SetVirtualAddressMap" => Pass' = 3
        /\ pc' = "get_memory_map" => Pass' = B + 9
    BY <2>1 DEF Pass, B, Bound
  <2> QED  BY <1>1, <1>2, <1>3, <2>1, <2>2
<1>10. CASE exit_boot_services_SetVirtualAddressMap
  <2>1. pc = "SetVirtualAddressMap" /\ pc' = "tp_reset_cold"
    BY <1>10 DEF exit_boot_services_SetVirtualAddressMap, Step
  <2>2. Pass = 3
    BY <2>1 DEF Pass
  <2> QED  BY <1>1, <1>2, <1>3, <2>1, <2>2
<1> QED  BY <1>4, <1>5, <1>6, <1>7, <1>8, <1>9, <1>10 DEF Program

(* The loops over EFI_BUFFER_TOO_SMALL and over the retry are bounded: a   *)
(* call of the program always brings the end nearer, and no change the     *)
(* firmware makes to the map behind its back puts it off.                  *)
THEOREM LoopsBounded ==
  Spec => /\ [](StepsLeft \in 0..(8 * (InitialNeed + MaxGrowth) + 18))
          /\ [][/\ Program => StepsLeft' < StepsLeft
               /\ Callback => StepsLeft' = StepsLeft]_vars
<1>1. TypeOK /\ SizeBound => StepsLeft \in 0..(8 * (InitialNeed + MaxGrowth) + 18)
  BY StepsLeftType DEF Bound
<1>2. Callback => StepsLeft' = StepsLeft
  BY DEF Callback, programVars, StepsLeft, Pass, Rounds, Bound
<1>3. IInv /\ NeedHolds /\ SizeBound /\ [Next]_vars
        => [/\ Program => StepsLeft' < StepsLeft
            /\ Callback => StepsLeft' = StepsLeft]_vars
  BY <1>2, ProgramShortens
<1> QED  BY <1>1, <1>3, Invariance, TypeCorrect, SizeInvariance, PTL DEF Spec
=============================================================================
