------------------------------ MODULE ExitBoot ------------------------------
(***************************************************************************)
(* efi_main.c: exit_boot_services and get_memory_map, against a firmware   *)
(* whose memory map changes under them.  Every AllocatePool and FreePool   *)
(* of the program gives the map a new key, and so do the timer callbacks   *)
(* of the firmware, which run between any two calls of the program until   *)
(* ExitBootServices succeeds.  A map is counted in descriptors.            *)
(***************************************************************************)
EXTENDS Naturals

CONSTANTS
  InitialNeed,  \* descriptors of the map at the call
  MaxGrowth,    \* bound on the descriptors allocations and callbacks add
  MaxChanges,   \* bound on the map changes made by callbacks
  NULL          \* no map buffer

ASSUME ExitBootAssumption ==
  /\ InitialNeed \in Nat \ {0}
  /\ MaxGrowth \in Nat
  /\ MaxChanges \in Nat
  /\ NULL \notin Nat

VARIABLES
  (* the firmware *)
  key,       \* the key of the current map
  need,      \* the number of its descriptors
  exited,    \* ExitBootServices has succeeded
  growth,    \* descriptors added so far
  changes,   \* map changes made by callbacks so far
  pool,      \* pool buffers the program has allocated and not freed
  console,   \* the calls error_print has reported on the console
  (* the program *)
  pc,
  retry,     \* exit_boot_services' local
  MM,        \* the global: memory_map_size, memory_map, map_key
  virtual    \* the map in the buffer has its VirtualStart fields set

firmwareVars == <<key, need, exited, growth, changes, pool>>
programVars  == <<retry, MM, virtual>>
vars == <<key, need, exited, growth, changes, pool, console,
          pc, retry, MM, virtual>>

\* memory_map is the capacity of the buffer it points to, or NULL.
MemMap == [ memory_map_size : Nat,
            memory_map      : Nat \cup {NULL},
            map_key         : Nat ]

Pcs == {"get_memory_map", "FreePool", "AllocatePool", "GetMemoryMap",
        "convert", "ExitBootServices", "SetVirtualAddressMap",
        "tp_reset_cold", "reset_system"}

Calls == {"AllocatePool", "GetMemoryMap", "ExitBootServices"}

TypeOK ==
  /\ key \in Nat /\ need \in Nat \ {0}
  /\ exited \in BOOLEAN
  /\ growth \in 0..MaxGrowth
  /\ changes \in 0..MaxChanges
  /\ pool \in Nat
  /\ console \subseteq Calls
  /\ pc \in Pcs
  /\ retry \in BOOLEAN
  /\ MM \in MemMap
  /\ virtual \in BOOLEAN

\* exit_boot_services has cleared MM with SetMem.
Init ==
  /\ key = 0 /\ need = InitialNeed
  /\ exited = FALSE
  /\ growth = 0 /\ changes = 0
  /\ pool = 0
  /\ console = {}
  /\ pc = "get_memory_map"
  /\ retry = FALSE
  /\ MM = [memory_map_size |-> 0, memory_map |-> NULL, map_key |-> 0]
  /\ virtual = FALSE

-----------------------------------------------------------------------------
(* The firmware. *)

\* The map gets a new key and, possibly, one descriptor more or less.
MapChanges ==
  /\ key' = key + 1
  /\ \/ UNCHANGED <<need, growth>>
     \/ growth < MaxGrowth /\ growth' = growth + 1 /\ need' = need + 1
     \/ need > 1 /\ need' = need - 1 /\ UNCHANGED growth

Callback ==
  /\ ~exited
  /\ changes < MaxChanges
  /\ changes' = changes + 1
  /\ MapChanges
  /\ UNCHANGED <<exited, pool, console, pc, programVars>>

-----------------------------------------------------------------------------
(* The program. *)

\* utils.c: the console is used only before ExitBootServices.
error_print(call) ==
  /\ pc' = "reset_system"
  /\ console' = IF exited THEN console ELSE console \cup {call}

Step(from, to) == pc = from /\ pc' = to

get_memory_map ==
  /\ Step("get_memory_map", "FreePool")
  /\ MM' = [MM EXCEPT !.memory_map_size = 0]
  /\ UNCHANGED <<firmwareVars, console, retry, virtual>>

\* Mutant: the pointer is cleared, the buffer is not freed.
get_memory_map_FreePool_Leaks ==
  /\ Step("FreePool", "AllocatePool")
  /\ MM' = [MM EXCEPT !.memory_map = NULL]
  /\ UNCHANGED <<firmwareVars, console, retry, virtual>>

get_memory_map_FreePool ==
  /\ Step("FreePool", "AllocatePool")
  /\ \/ /\ MM.memory_map = NULL
        /\ UNCHANGED <<key, need, growth, pool, MM>>
     \/ /\ MM.memory_map # NULL
        /\ MapChanges
        /\ pool' = pool - 1
        /\ MM' = [MM EXCEPT !.memory_map = NULL]
  /\ UNCHANGED <<exited, changes, console, retry, virtual>>

get_memory_map_AllocatePool ==
  /\ pc = "AllocatePool"
  /\ \/ /\ pc' = "GetMemoryMap"
        /\ MapChanges
        /\ pool' = pool + 1
        /\ MM' = [MM EXCEPT !.memory_map = MM.memory_map_size]
        /\ UNCHANGED console
     \/ /\ error_print("AllocatePool")
        /\ UNCHANGED <<key, need, growth, pool, MM>>
  /\ UNCHANGED <<exited, changes, retry, virtual>>

\* The three mutants below share the body of the call.
GetMemoryMapTo(next, tooSmall, size) ==
  /\ pc = "GetMemoryMap"
  /\ \/ /\ need <= MM.memory_map
        /\ pc' = next
        /\ MM' = [MM EXCEPT !.memory_map_size = need, !.map_key = key]
        /\ virtual' = FALSE
     \/ /\ need > MM.memory_map
        /\ pc' = tooSmall
        /\ MM' = [MM EXCEPT !.memory_map_size = size]
        /\ UNCHANGED virtual
  /\ UNCHANGED <<firmwareVars, console, retry>>

\* Mutant: the retry does not convert the descriptors again.
get_memory_map_GetMemoryMap_RetrySkipsConvert ==
  GetMemoryMapTo(IF retry THEN "ExitBootServices" ELSE "convert", "FreePool", need)

\* Mutant: EFI_BUFFER_TOO_SMALL does not go round the loop.
get_memory_map_GetMemoryMap_TooSmallAccepted ==
  GetMemoryMapTo("convert", "convert", need)

\* Mutant: the call is repeated with the buffer that was too small.
get_memory_map_GetMemoryMap_SameBuffer ==
  GetMemoryMapTo("convert", "GetMemoryMap", need)

\* EFI_BUFFER_TOO_SMALL reports the size and goes round the loop again.
get_memory_map_GetMemoryMap ==
  /\ pc = "GetMemoryMap"
  /\ \/ /\ need <= MM.memory_map
        /\ pc' = "convert"
        /\ MM' = [MM EXCEPT !.memory_map_size = need, !.map_key = key]
        /\ virtual' = FALSE
        /\ UNCHANGED console
     \/ /\ need > MM.memory_map
        /\ pc' = "FreePool"
        /\ MM' = [MM EXCEPT !.memory_map_size = need]
        /\ UNCHANGED <<console, virtual>>
     \/ /\ error_print("GetMemoryMap")
        /\ UNCHANGED <<MM, virtual>>
  /\ UNCHANGED <<firmwareVars, retry>>

\* The loop over the descriptors: VirtualStart = PhysicalStart.
exit_boot_services_convert ==
  /\ Step("convert", "ExitBootServices")
  /\ virtual' = TRUE
  /\ UNCHANGED <<firmwareVars, console, retry, MM>>

\* Mutant: the first refusal is final.
exit_boot_services_Exit_NoRetry ==
  /\ pc = "ExitBootServices"
  /\ \/ /\ MM.map_key = key
        /\ exited' = TRUE
        /\ pc' = "SetVirtualAddressMap"
        /\ UNCHANGED console
     \/ /\ MM.map_key # key
        /\ error_print("ExitBootServices")
        /\ UNCHANGED exited
  /\ UNCHANGED <<key, need, growth, changes, pool, programVars>>

\* ExitBootServices accepts the key of the current map only.
exit_boot_services_Exit ==
  /\ pc = "ExitBootServices"
  /\ \/ /\ MM.map_key = key
        /\ exited' = TRUE
        /\ pc' = "SetVirtualAddressMap"
        /\ UNCHANGED <<console, retry>>
     \/ /\ MM.map_key # key
        /\ \/ retry /\ error_print("ExitBootServices") /\ UNCHANGED retry
           \/ ~retry /\ retry' = TRUE /\ pc' = "get_memory_map" /\ UNCHANGED console
        /\ UNCHANGED exited
  /\ UNCHANGED <<key, need, growth, changes, pool, MM, virtual>>

\* Mutant: the map is freed after SetVirtualAddressMap.
exit_boot_services_SetVirtualAddressMap_Frees ==
  /\ Step("SetVirtualAddressMap", "tp_reset_cold")
  /\ pool' = pool - 1
  /\ MM' = [MM EXCEPT !.memory_map = NULL]
  /\ UNCHANGED <<key, need, exited, growth, changes, console, retry, virtual>>

\* Whether it fails or not, tp_reset_cold follows.
exit_boot_services_SetVirtualAddressMap ==
  /\ Step("SetVirtualAddressMap", "tp_reset_cold")
  /\ UNCHANGED <<firmwareVars, console, programVars>>

Program ==
  \/ get_memory_map
  \/ get_memory_map_FreePool \/ get_memory_map_AllocatePool
  \/ get_memory_map_GetMemoryMap
  \/ exit_boot_services_convert \/ exit_boot_services_Exit
  \/ exit_boot_services_SetVirtualAddressMap

Next == Program \/ Callback

Spec == Init /\ [][Next]_vars

\* Nothing the program does here waits for anything.
FairSpec == Spec /\ WF_vars(Program)

-----------------------------------------------------------------------------
(* What must hold. *)

(* The map handed to SetVirtualAddressMap is the one the machine had when  *)
(* boot services ended, it is whole, and its runtime descriptors have been *)
(* given their virtual addresses, on the first try and on the retry alike. *)
FinalMapCurrent ==
  pc = "SetVirtualAddressMap" =>
    /\ MM.map_key = key /\ MM.memory_map_size = need
    /\ virtual

(* The loop over the descriptors stays inside the buffer: after an         *)
(* EFI_BUFFER_TOO_SMALL, memory_map_size exceeds the buffer, and no path   *)
(* leaves get_memory_map with it.                                          *)
MapInsideBuffer ==
  pc \in {"convert", "ExitBootServices", "SetVirtualAddressMap"} =>
    MM.memory_map # NULL /\ MM.memory_map_size <= MM.memory_map

(* The retry frees the first map before it takes the second: one buffer at *)
(* most, none lost, none freed twice.                                      *)
OneBuffer == pool = IF MM.memory_map = NULL THEN 0 ELSE 1

(* Once ExitBootServices has succeeded the program allocates, frees and    *)
(* prints nothing.                                                         *)
NoBootServiceAfterExit == [][exited => UNCHANGED <<pool, console, key>>]_vars

(* ExitBootServices is given up only when the firmware changed the map     *)
(* twice behind the program's back: the program's own allocations never    *)
(* invalidate the key it passes, so one retry absorbs one race.            *)
GiveUpTakesTwoRaces ==
  "ExitBootServices" \in console => changes >= 2

(* The two loops, over EFI_BUFFER_TOO_SMALL and over the retry, end.       *)
Ends == <>(pc \in {"tp_reset_cold", "reset_system"})
=============================================================================
