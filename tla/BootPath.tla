------------------------------ MODULE BootPath ------------------------------
(***************************************************************************)
(* efi_main.c: boot_exec and file_name_match, which pick the boot route    *)
(* from the path the program was loaded from.  The text of the path is     *)
(* kept, because the search is about it: it looks behind one backslash     *)
(* after the other, steps over the character behind each, and compares the *)
(* rest of the path with the name as far as the shorter of the two goes.   *)
(***************************************************************************)
EXTENDS Naturals, Sequences

CONSTANTS GRUBX64, BOOTX64,  \* the two file names, as sequences of characters
          Chars,             \* the characters of a path
          Separator,         \* the backslash
          MaxLength          \* bound on the length of a path

ASSUME BootPathAssumption ==
  /\ Separator \in Chars
  /\ GRUBX64 \in Seq(Chars \ {Separator}) /\ BOOTX64 \in Seq(Chars \ {Separator})
  /\ GRUBX64 # <<>> /\ BOOTX64 # <<>>
  /\ MaxLength \in Nat

VARIABLES path,   \* loaded_image->FilePath; its characters count from 0
          pc,     \* the call of file_name_match, then the route taken
          i       \* file_name_match's local

vars == <<path, pc, i>>

Calls  == {"GRUBX64", "BOOTX64"}
Routes == {"boot_common", "boot_self_signed", "badName"}

TypeOK ==
  /\ path \in Seq(Chars)
  /\ pc \in Calls \cup Routes
  /\ i \in 0..Len(path)

Init ==
  /\ path \in UNION {[1..n -> Chars] : n \in 0..MaxLength}
  /\ pc = "GRUBX64"
  /\ i = 0

file_name == IF pc = "GRUBX64" THEN GRUBX64 ELSE BOOTX64

\* StrnCmp of path + j and the name, over the shorter of the two lengths.
Agrees(j, name) ==
  \A k \in 1..Len(name) : j + k <= Len(path) => path[j + k] = name[k]

IsSeparator(j) == j < Len(path) /\ path[j + 1] = Separator

\* Mutant: the search steps over two characters behind a backslash.
file_name_match_next_SkipsTwo ==
  /\ pc \in Calls
  /\ \/ ~IsSeparator(i) /\ i < Len(path) /\ i' = i + 1
     \/ IsSeparator(i) /\ i + 1 < Len(path) /\ ~Agrees(i + 1, file_name)
          /\ i' = i + 3
  /\ UNCHANGED <<path, pc>>

\* A round of the loop that goes on.
file_name_match_next ==
  /\ pc \in Calls
  /\ \/ ~IsSeparator(i) /\ i < Len(path) /\ i' = i + 1
     \/ IsSeparator(i) /\ i + 1 < Len(path) /\ ~Agrees(i + 1, file_name)
          /\ i' = i + 2
  /\ UNCHANGED <<path, pc>>

\* Mutant: the two names are looked for in the opposite order.
file_name_match_true_Swapped ==
  /\ pc \in Calls
  /\ IsSeparator(i) /\ i + 1 < Len(path)
  /\ Agrees(i + 1, file_name)
  /\ pc' = IF pc = "GRUBX64" THEN "boot_self_signed" ELSE "boot_common"
  /\ UNCHANGED <<path, i>>

file_name_match_true ==
  /\ pc \in Calls
  /\ IsSeparator(i) /\ i + 1 < Len(path)
  /\ Agrees(i + 1, file_name)
  /\ pc' = IF pc = "GRUBX64" THEN "boot_common" ELSE "boot_self_signed"
  /\ UNCHANGED <<path, i>>

\* The end of the path, or a backslash at its end.
file_name_match_false ==
  /\ pc \in Calls
  /\ \/ i = Len(path)
     \/ IsSeparator(i) /\ i + 1 = Len(path)
  /\ \/ pc = "GRUBX64" /\ pc' = "BOOTX64" /\ i' = 0
     \/ pc = "BOOTX64" /\ pc' = "badName" /\ UNCHANGED i
  /\ UNCHANGED path

Next == file_name_match_next \/ file_name_match_true \/ file_name_match_false

Spec == Init /\ [][Next]_vars

-----------------------------------------------------------------------------
(* What must hold, in terms of the path alone. *)

\* The rest of the path behind some backslash agrees with the name.
Named(name) ==
  \E j \in 1..(Len(path) - 1) : IsSeparator(j - 1) /\ Agrees(j, name)

NoDoubledSeparator == \A j \in 1..(Len(path) - 1) : ~(IsSeparator(j - 1) /\ IsSeparator(j))

\* The places behind a separator that is not the last character.
Behind(p) == {j \in 1..(Len(p) - 1) : p[j] = Separator}

\* What begins there begins with the name, or is the last of the path and the
\* name begins with it.
Like(p, j, name) ==
  \/ \A k \in 1..Len(name) : j + k <= Len(p) /\ p[j + k] = name[k]
  \/ \A k \in (j + 1)..Len(p) :
       p[k] # Separator /\ k - j <= Len(name) /\ p[k] = name[k - j]

\* What stands between this separator and the next one, or the end, is the name.
Whole(p, j, name) ==
  /\ \A k \in 1..Len(name) : j + k <= Len(p) /\ p[j + k] = name[k]
  /\ j + Len(name) < Len(p) => p[j + Len(name) + 1] = Separator

HasFile(p, name) == \E j \in Behind(p) : Whole(p, j, name)

\* No two separators stand together, and what is like one of the names is it.
Clear(p) ==
  /\ \A j \in Behind(p) : p[j + 1] # Separator
  /\ \A j \in Behind(p), name \in {GRUBX64, BOOTX64} : Like(p, j, name) => Whole(p, j, name)

\* The route for a path with just these files.
Fits(p, route) ==
  /\ route = "boot_common" => HasFile(p, GRUBX64)
  /\ route = "boot_self_signed" => HasFile(p, BOOTX64) /\ ~HasFile(p, GRUBX64)
  /\ route = "badName" => ~HasFile(p, BOOTX64) /\ ~HasFile(p, GRUBX64)

(* The self-signed route, which writes keys, and the plain boot are taken  *)
(* for the file of that name and no other. What the comparison up to the   *)
(* shorter length takes for a name besides is not more than this: a longer *)
(* name that begins with it, and a shorter one at the end of the path. In  *)
(* a path with neither, the whole names in it decide, in their order.      *)
RouteByName ==
  /\ pc = "boot_common" => \E j \in Behind(path) : Like(path, j, GRUBX64)
  /\ pc = "boot_self_signed" => \E j \in Behind(path) : Like(path, j, BOOTX64)
  /\ Clear(path) => Fits(path, pc)

(* A name in the path is not missed: skipping the character behind each    *)
(* backslash is harmless unless two backslashes stand together, and        *)
(* GRUBX64.EFI, looked for first, wins over BOOTX64.EFI.                   *)
NameNotMissed ==
  NoDoubledSeparator =>
    /\ pc \in {"boot_self_signed", "badName"} => ~Named(GRUBX64)
    /\ pc = "badName" => ~Named(BOOTX64)
=============================================================================
