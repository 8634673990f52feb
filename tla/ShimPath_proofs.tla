-------------------------- MODULE ShimPath_proofs --------------------------
(***************************************************************************)
(* The route boot_exec takes, for paths and names of every length.  The    *)
(* search is sound because its result is a place it has compared; it is    *)
(* complete because IInv keeps what is behind the index: every backslash   *)
(* passed has been compared, or stands right behind another.  Then what    *)
(* comes before it: shim's generate_path, and the path the firmware knows. *)
(***************************************************************************)
EXTENDS ShimPath, TLAPS

\* The backslashes before n were no match for the name.
PassedOver(n, name) ==
  \A j \in 1..n : (j < Len(path) /\ IsSeparator(j - 1)) => ~Agrees(j, name)

\* What the comparison has agreed with, in its own terms.
RouteNamed ==
  /\ pc = "boot_common" => Named(GRUBX64)
  /\ pc = "boot_self_signed" => Named(BOOTX64)

IInv ==
  /\ TypeOK
  /\ RouteNamed
  /\ NoDoubledSeparator =>
       /\ pc \in Calls => PassedOver(i, file_name)
       /\ pc # "GRUBX64" /\ pc # "boot_common" => ~Named(GRUBX64)
       /\ pc = "badName" => ~Named(BOOTX64)

\* A name passed over up to the last character is nowhere in the path.
LEMMA PassedOverAll ==
  ASSUME NEW name, path \in Seq(Chars), NEW n \in Nat,
         PassedOver(n, name), n + 1 >= Len(path)
  PROVE  ~Named(name)
  <1>1. SUFFICES ASSUME NEW j \in 1..(Len(path) - 1), IsSeparator(j - 1), Agrees(j, name)
                 PROVE  FALSE
    BY DEF Named
  <1>2. Len(path) \in Nat
    OBVIOUS
  <1>3. j \in 1..n /\ j < Len(path)
    BY <1>2
  <1> QED
    BY <1>1, <1>3 DEF PassedOver

\* What agrees up to the shorter length is like the name: names have no
\* separator, so that one cut off by the end of the path has none either.
LEMMA NamedIsLike ==
  ASSUME path \in Seq(Chars), NEW name \in Seq(Chars \ {Separator}), Named(name)
  PROVE  \E j \in Behind(path) : Like(path, j, name)
  <1>1. Len(path) \in Nat /\ Len(name) \in Nat
    OBVIOUS
  <1>2. PICK j \in 1..(Len(path) - 1) : IsSeparator(j - 1) /\ Agrees(j, name)
    BY DEF Named
  <1>3. j \in Behind(path)
    BY <1>1, <1>2 DEF IsSeparator, Behind
  <1>4. CASE j + Len(name) <= Len(path)
    <2>1. \A k \in 1..Len(name) : j + k <= Len(path) /\ path[j + k] = name[k]
      BY <1>1, <1>2, <1>4 DEF Agrees
    <2> QED
      BY <1>3, <2>1 DEF Like
  <1>5. CASE ~(j + Len(name) <= Len(path))
    <2>1. ASSUME NEW k \in (j + 1)..Len(path)
          PROVE  path[k] # Separator /\ k - j <= Len(name) /\ path[k] = name[k - j]
      <3>1. k - j \in 1..Len(name) /\ j + (k - j) = k /\ k <= Len(path)
        BY <1>1, <1>5, <2>1
      <3>2. path[k] = name[k - j]
        BY <1>2, <3>1 DEF Agrees
      <3>3. name[k - j] \in Chars \ {Separator}
        BY <3>1
      <3> QED
        BY <3>1, <3>2, <3>3
    <2> QED
      BY <1>3, <2>1 DEF Like
  <1> QED
    BY <1>4, <1>5

\* A file with the name has a place that agrees with it.
LEMMA FileIsNamed ==
  ASSUME path \in Seq(Chars), NEW name, HasFile(path, name)
  PROVE  Named(name)
  <1>1. PICK j \in Behind(path) : Whole(path, j, name)
    BY DEF HasFile
  <1>2. j \in 1..(Len(path) - 1) /\ IsSeparator(j - 1)
    BY <1>1 DEF Behind, IsSeparator
  <1>3. Agrees(j, name)
    BY <1>1 DEF Whole, Agrees
  <1> QED
    BY <1>2, <1>3 DEF Named

\* In a clear path no separator is skipped and what is named is a file.
LEMMA ClearPath ==
  ASSUME path \in Seq(Chars), Clear(path)
  PROVE  /\ NoDoubledSeparator
         /\ Named(GRUBX64) => HasFile(path, GRUBX64)
         /\ Named(BOOTX64) => HasFile(path, BOOTX64)
  <1>1. NoDoubledSeparator
    <2>1. SUFFICES ASSUME NEW j \in 1..(Len(path) - 1), IsSeparator(j - 1), IsSeparator(j)
                   PROVE  FALSE
      BY DEF NoDoubledSeparator
    <2>2. j \in Behind(path) /\ path[j + 1] = Separator
      BY <2>1 DEF IsSeparator, Behind
    <2> QED
      BY <2>2 DEF Clear
  <1>2. ASSUME NEW name \in {GRUBX64, BOOTX64}, Named(name) PROVE HasFile(path, name)
    <2>1. name \in Seq(Chars \ {Separator})
      BY BootPathAssumption DEF BootPathAssumption
    <2>2. PICK j \in Behind(path) : Like(path, j, name)
      BY <1>2, <2>1, NamedIsLike
    <2> QED
      BY <2>2 DEF Clear, HasFile
  <1> QED
    BY <1>1, <1>2

\* The invariant is about what the comparison does; this is what it means.
LEMMA IInvRoutes == IInv => RouteByName
  <1> SUFFICES ASSUME IInv PROVE RouteByName
    OBVIOUS
  <1>1. /\ path \in Seq(Chars)
        /\ pc = "boot_common" => Named(GRUBX64)
        /\ pc = "boot_self_signed" => Named(BOOTX64)
        /\ NoDoubledSeparator =>
             /\ pc # "GRUBX64" /\ pc # "boot_common" => ~Named(GRUBX64)
             /\ pc = "badName" => ~Named(BOOTX64)
    BY DEF IInv, TypeOK, RouteNamed
  <1>2. GRUBX64 \in Seq(Chars \ {Separator}) /\ BOOTX64 \in Seq(Chars \ {Separator})
    BY BootPathAssumption DEF BootPathAssumption
  <1>3. pc = "boot_common" => \E j \in Behind(path) : Like(path, j, GRUBX64)
    BY <1>1, <1>2, NamedIsLike
  <1>4. pc = "boot_self_signed" => \E j \in Behind(path) : Like(path, j, BOOTX64)
    BY <1>1, <1>2, NamedIsLike
  <1>5. ASSUME Clear(path) PROVE Fits(path, pc)
    <2>1. /\ NoDoubledSeparator
          /\ Named(GRUBX64) => HasFile(path, GRUBX64)
          /\ Named(BOOTX64) => HasFile(path, BOOTX64)
      BY <1>1, <1>5, ClearPath
    <2>2. /\ HasFile(path, GRUBX64) => Named(GRUBX64)
          /\ HasFile(path, BOOTX64) => Named(BOOTX64)
      BY <1>1, FileIsNamed
    <2> QED
      BY <1>1, <2>1, <2>2 DEF Fits
  <1> QED
    BY <1>3, <1>4, <1>5 DEF RouteByName

\* The search starts with nothing passed over.
LEMMA InitIInv == Init => IInv
  <1>1. SUFFICES ASSUME Init PROVE IInv
    OBVIOUS
  <1>2. TypeOK
    <2>1. path \in Seq(Chars)
      BY <1>1 DEF Init
    <2> QED
      BY <1>1, <2>1 DEF Init, TypeOK, Calls
  <1>3. PassedOver(i, file_name)
    BY <1>1 DEF Init, PassedOver
  <1> QED
    BY <1>1, <1>2, <1>3 DEF Init, IInv, RouteNamed

\* A round of the loop, a match, and the end of the path keep IInv.
LEMMA StepIInv == IInv /\ [Next]_vars => IInv'
  <1>1. SUFFICES ASSUME IInv, [Next]_vars PROVE IInv'
    OBVIOUS
  <1> USE <1>1
  <1>2. path \in Seq(Chars) /\ Len(path) \in Nat /\ i \in 0..Len(path) /\ i \in Nat
    BY DEF IInv, TypeOK
  <1>3. CASE file_name_match_next
    <2>1. pc \in Calls /\ UNCHANGED <<path, pc>> /\ file_name' = file_name
      BY <1>3 DEF file_name_match_next, file_name
    <2>2. TypeOK'
      BY <1>2, <1>3, <2>1 DEF file_name_match_next, TypeOK, IInv, IsSeparator
    <2>3. RouteNamed'
      BY <2>1 DEF RouteNamed, Calls
    <2>4. ASSUME NoDoubledSeparator PROVE PassedOver(i', file_name)
      <3>1. PassedOver(i, file_name)
        BY <2>1, <2>4 DEF IInv
      <3>2. SUFFICES ASSUME NEW j \in 1..i', j < Len(path), IsSeparator(j - 1)
                     PROVE  ~Agrees(j, file_name)
        BY DEF PassedOver
      <3>3. CASE ~IsSeparator(i) /\ i' = i + 1
        <4>1. j \in 1..i \/ j - 1 = i
          BY <1>2, <3>3
        <4> QED
          BY <3>1, <3>2, <3>3, <4>1 DEF PassedOver
      <3>4. CASE IsSeparator(i) /\ ~Agrees(i + 1, file_name) /\ i' = i + 2
        <4>1. j \in 1..i \/ j = i + 1 \/ j = i + 2
          BY <1>2, <3>4
        <4>2. j # i + 2
          <5>1. ASSUME j = i + 2 PROVE FALSE
            <6>1. i + 1 \in 1..(Len(path) - 1) /\ (i + 1) - 1 = i /\ j - 1 = i + 1
              BY <1>2, <3>2, <5>1
            <6>2. IsSeparator((i + 1) - 1) /\ IsSeparator(i + 1)
              BY <3>2, <3>4, <6>1
            <6> QED
              BY <2>4, <6>1, <6>2 DEF NoDoubledSeparator
          <5> QED
            BY <5>1
        <4> QED
          BY <3>1, <3>2, <3>4, <4>1, <4>2 DEF PassedOver
      <3> QED
        BY <1>3, <3>3, <3>4 DEF file_name_match_next
    <2>5. NoDoubledSeparator' = NoDoubledSeparator
      BY <2>1 DEF NoDoubledSeparator, IsSeparator
    <2>6. PassedOver(i', file_name) => PassedOver(i, file_name)'
      BY <2>1 DEF PassedOver, IsSeparator, Agrees, file_name
    <2>7. Named(GRUBX64)' = Named(GRUBX64)
      BY <2>1 DEF Named, IsSeparator, Agrees
    <2> QED
      BY <2>1, <2>2, <2>3, <2>4, <2>5, <2>6, <2>7 DEF IInv, Calls
  <1>4. CASE file_name_match_true
    <2>1. pc \in Calls /\ UNCHANGED <<path, i>>
          /\ IsSeparator(i) /\ i + 1 < Len(path) /\ Agrees(i + 1, file_name)
          /\ pc' = IF pc = "GRUBX64" THEN "boot_common" ELSE "boot_self_signed"
      BY <1>4 DEF file_name_match_true
    <2>2. Named(file_name)
      <3>1. i + 1 \in 1..(Len(path) - 1) /\ (i + 1) - 1 = i
        BY <1>2, <2>1
      <3> QED
        BY <2>1, <3>1 DEF Named
    <2>3. /\ Named(GRUBX64)' = Named(GRUBX64) /\ Named(BOOTX64)' = Named(BOOTX64)
          /\ NoDoubledSeparator' = NoDoubledSeparator
      BY <2>1 DEF Named, IsSeparator, Agrees, NoDoubledSeparator
    <2>4. TypeOK'
      BY <2>1 DEF TypeOK, IInv, Routes
    <2>5. RouteNamed'
      BY <2>1, <2>2, <2>3 DEF RouteNamed, file_name
    <2> QED
      BY <2>1, <2>3, <2>4, <2>5 DEF IInv, Calls
  <1>5. CASE file_name_match_false
    <2>1. pc \in Calls /\ UNCHANGED path
          /\ \/ pc = "GRUBX64" /\ pc' = "BOOTX64" /\ i' = 0
             \/ pc = "BOOTX64" /\ pc' = "badName" /\ i' = i
      BY <1>5 DEF file_name_match_false
    <2>2. /\ Named(GRUBX64)' = Named(GRUBX64) /\ Named(BOOTX64)' = Named(BOOTX64)
          /\ NoDoubledSeparator' = NoDoubledSeparator
      BY <2>1 DEF Named, IsSeparator, Agrees, NoDoubledSeparator
    <2>3. ASSUME NoDoubledSeparator PROVE ~Named(file_name)
      <3>1. PassedOver(i, file_name)
        BY <2>1, <2>3 DEF IInv
      <3>2. i + 1 >= Len(path)
        BY <1>2, <1>5 DEF file_name_match_false
      <3> QED
        BY <1>2, <3>1, <3>2, PassedOverAll
    <2>4. TypeOK'
      BY <1>2, <2>1 DEF TypeOK, IInv, Routes, Calls
    <2>5. RouteNamed'
      BY <2>1 DEF RouteNamed
    <2>6. pc' \in Calls => PassedOver(i, file_name)'
      <3>1. pc' \in Calls => i' = 0
        BY <2>1 DEF Calls
      <3> QED
        BY <3>1 DEF PassedOver
    <2>7. CASE pc = "GRUBX64"
      BY <2>1, <2>2, <2>3, <2>4, <2>5, <2>6, <2>7 DEF IInv, file_name
    <2>8. CASE pc = "BOOTX64"
      BY <2>1, <2>2, <2>3, <2>4, <2>5, <2>6, <2>8 DEF IInv, file_name, Calls
    <2> QED
      BY <2>1, <2>7, <2>8
  <1>6. CASE UNCHANGED vars
    BY <1>6 DEF vars, IInv, TypeOK, RouteNamed, NoDoubledSeparator, Named,
                PassedOver, IsSeparator, Agrees, file_name
  <1> QED
    BY <1>3, <1>4, <1>5, <1>6 DEF Next

\* The search keeps its invariant.
THEOREM Invariance == Spec => []IInv
  <1> QED
    BY InitIInv, StepIInv, PTL DEF Spec

\* The index never leaves the path, whatever its length: a backslash as the
\* last character does not lead file_name_match past the terminator.
THEOREM TypeCorrect == Spec => []TypeOK
  <1>1. IInv => TypeOK
    BY DEF IInv
  <1> QED
    BY <1>1, Invariance, PTL

\* For every path and names of every length: a route is taken for its file's
\* name, for a longer one that begins with it, or for a shorter one at the end
\* that it begins with, and in a path with neither for the file itself.
THEOREM RouteByNameHolds == Spec => []RouteByName
  <1> QED
    BY IInvRoutes, Invariance, PTL

\* For every path without two backslashes in a row, a name that stands
\* behind a backslash is found, and GRUBX64.EFI goes first.
THEOREM NameNotMissedHolds == Spec => []NameNotMissed
  <1>1. IInv => NameNotMissed
    BY DEF IInv, NameNotMissed
  <1> QED
    BY <1>1, Invariance, PTL
-----------------------------------------------------------------------------
(* ShimPath: the search is the same, started by shim as well.              *)

\* generate_path has seen no separator behind the place it stands at.
GenerateHolds ==
  pc = "generate_path" =>
    /\ bootpath = path /\ path # <<>> /\ path[Len(path)] # Separator
    /\ \A n \in 1..Len(path) : n >= i + 2 => path[n] # Separator

\* The loaded image protocol still has the path of the firmware's file.
ShimPathIInv ==
  /\ ShimPathTypeOK /\ GenerateHolds /\ SecondStageBeside
  /\ pc \in Calls \cup Routes => IInv
  /\ file = path

\* A search that starts is at the start of the path.
LEMMA StartSearch == path \in Seq(Chars) /\ pc = "GRUBX64" /\ i = 0 => IInv
  <1> SUFFICES ASSUME path \in Seq(Chars), pc = "GRUBX64", i = 0 PROVE IInv
    OBVIOUS
  <1>1. TypeOK
    BY DEF TypeOK, Calls
  <1>2. PassedOver(i, file_name)
    BY DEF PassedOver
  <1> QED
    BY <1>1, <1>2 DEF IInv, RouteNamed

\* shim starts in the invariant.
LEMMA InitShimPath == ShimPathInit => ShimPathIInv
  <1> SUFFICES ASSUME ShimPathInit PROVE ShimPathIInv
    OBVIOUS
  <1>1. path \in Seq(Chars) /\ Len(path) \in Nat
    BY DEF ShimPathInit
  <1>2. ShimPathTypeOK
    BY <1>1 DEF ShimPathInit, ShimPathTypeOK, Calls
  <1>3. GenerateHolds /\ SecondStageBeside
    BY <1>1 DEF ShimPathInit, GenerateHolds, SecondStageBeside
  <1>4. pc = "GRUBX64" => IInv
    BY <1>1, StartSearch DEF ShimPathInit
  <1> QED
    BY <1>2, <1>3, <1>4 DEF ShimPathInit, ShimPathIInv, Calls, Routes

\* What is put behind the directory: the names of a path p, up to its last
\* separator at k + 1, with the second stage's name after d characters.
LEMMA JoinNames ==
  ASSUME NEW p \in Seq(Chars), NEW q \in Seq(Chars), NEW d \in Nat, NEW k \in Nat,
         k < Len(p), k = 0 \/ p[k + 1] = Separator,
         \A n \in 1..Len(p) : n >= k + 2 => p[n] # Separator,
         d = k \/ (d = k + 1 /\ k > 0),
         Len(q) = d + Len(SECOND_STAGE),
         \A n \in 1..d : q[n] = p[n],
         \A n \in 1..Len(SECOND_STAGE) : q[d + n] = SECOND_STAGE[n]
  PROVE  Names(q) = {w \in Names(p) : w[2] # Len(p)} \cup {<<d + 2, Len(q)>>}
  <1> DEFINE L == Len(SECOND_STAGE)
  <1>1. L \in Nat /\ L > 1 /\ Len(p) \in Nat /\ Len(q) \in Nat /\ Len(q) = d + L
    BY SecondStageAssumption DEF SecondStageAssumption
  <1>2. q[d + 1] = Separator /\ \A n \in 2..L : q[d + n] # Separator
    <2>1. q[d + 1] = SECOND_STAGE[1] /\ \A n \in 2..L : q[d + n] = SECOND_STAGE[n]
      BY <1>1
    <2> QED
      BY <2>1, SecondStageAssumption DEF SecondStageAssumption
  <1>3. \A n \in (d + 2)..Len(q) : q[n] # Separator
    <2>1. SUFFICES ASSUME NEW n \in (d + 2)..Len(q) PROVE q[n] # Separator
      OBVIOUS
    <2>2. n - d \in 2..L /\ d + (n - d) = n
      BY <1>1
    <2>3. q[d + (n - d)] # Separator
      BY <1>2, <2>2
    <2> QED
      BY <2>2, <2>3
  <1>4. d = k + 1 => q[d] = Separator
    BY <1>1
  <1> HIDE DEF L
  <1>5. ASSUME NEW w \in Names(q)
        PROVE  (w \in Names(p) /\ w[2] # Len(p)) \/ w = <<d + 2, Len(q)>>
    <2>1. PICK a \in 1..Len(q), b \in 1..Len(q) : w = <<a, b>>
      BY <1>5 DEF Names
    <2>2. /\ a <= b /\ \A n \in a..b : q[n] # Separator
          /\ a > 1 => q[a - 1] = Separator
          /\ b < Len(q) => q[b + 1] = Separator
      BY <1>5, <2>1 DEF Names
    <2>3. b <= d \/ a >= d + 2
      BY <1>1, <1>2, <2>2
    <2>4. CASE a >= d + 2
      <3>1. a - 1 \in 1..Len(q) /\ q[a - 1] = Separator
        BY <1>1, <2>2, <2>4
      <3>2. a = d + 2
        BY <1>1, <1>3, <2>4, <3>1
      <3>3. ~(b < Len(q))
        BY <1>1, <1>3, <2>2, <2>4
      <3> QED
        BY <1>1, <2>1, <3>2, <3>3
    <2>5. CASE b <= d
      <3>1. b <= k
        BY <1>1, <1>4, <2>2, <2>5
      <3>2. a \in 1..Len(p) /\ b \in 1..Len(p) /\ b # Len(p) /\ b >= 1
        BY <1>1, <2>2, <3>1
      <3>3. \A n \in a..b : p[n] # Separator
        BY <1>1, <2>2, <2>5
      <3>4. a > 1 => p[a - 1] = Separator
        BY <1>1, <2>2, <2>5
      <3>5. p[b + 1] = Separator
        <4>1. CASE b + 1 <= d
          BY <1>1, <2>2, <4>1
        <4>2. CASE b + 1 > d
          BY <1>1, <3>1, <3>2, <4>2
        <4> QED
          BY <1>1, <4>1, <4>2
      <3> QED
        BY <2>1, <2>2, <3>2, <3>3, <3>4, <3>5 DEF Names
    <2> QED
      BY <2>3, <2>4, <2>5
  <1>6. ASSUME NEW w \in Names(p), w[2] # Len(p) PROVE w \in Names(q)
    <2>1. PICK a \in 1..Len(p), b \in 1..Len(p) : w = <<a, b>>
      BY <1>6 DEF Names
    <2>2. /\ a <= b /\ \A n \in a..b : p[n] # Separator
          /\ a > 1 => p[a - 1] = Separator
          /\ b < Len(p) /\ p[b + 1] = Separator
      BY <1>1, <1>6, <2>1 DEF Names
    <2>3. b <= k /\ k > 0 /\ b <= d
      BY <1>1, <2>2
    <2>4. q[b + 1] = Separator
      <3>1. CASE b + 1 <= d
        BY <1>1, <2>2, <3>1
      <3>2. CASE b + 1 > d
        BY <1>1, <1>2, <2>3, <3>2
      <3> QED
        BY <1>1, <3>1, <3>2
    <2>5. \A n \in a..b : q[n] # Separator
      BY <1>1, <2>2, <2>3
    <2>6. a > 1 => q[a - 1] = Separator
      BY <1>1, <2>2, <2>3
    <2>7. a \in 1..Len(q) /\ b \in 1..Len(q)
      BY <1>1, <2>3, <2>2
    <2> QED
      BY <2>1, <2>2, <2>4, <2>5, <2>6, <2>7 DEF Names
  <1>7. <<d + 2, Len(q)>> \in Names(q)
    <2>1. d + 2 \in 1..Len(q) /\ Len(q) \in 1..Len(q) /\ (d + 2) - 1 = d + 1
      BY <1>1
    <2> QED
      BY <1>2, <1>3, <2>1 DEF Names
  <1> QED
    BY <1>5, <1>6, <1>7

\* The end of generate_path.
LEMMA JoinStep ==
  ASSUME ShimPathIInv, generate_path_join
  PROVE  ShimPathTypeOK' /\ SecondStageBeside'
  <1>1. /\ pc = "generate_path" /\ bootpath = path /\ path \in Seq(Chars) /\ path # <<>>
        /\ Len(path) \in Nat /\ i \in 0..Len(path) /\ path[Len(path)] # Separator
        /\ \A n \in 1..Len(path) : n >= i + 2 => path[n] # Separator
    BY DEF generate_path_join, ShimPathIInv, GenerateHolds, ShimPathTypeOK
  <1>2. i < Len(path) /\ (i = 0 \/ path[i + 1] = Separator)
    BY <1>1 DEF generate_path_join, AtSeparator
  <1>3. PICK d \in Nat : /\ d = i \/ (d = i + 1 /\ i > 0)
                         /\ bootpath' = SubSeq(path, 1, d)
    BY <1>1, <1>2 DEF generate_path_join, Directory
  <1>4. /\ bootpath' \in Seq(Chars) /\ Len(bootpath') = d
        /\ \A n \in 1..d : bootpath'[n] = path[n]
    BY <1>1, <1>2, <1>3
  <1>5. UNCHANGED <<path, i, file>> /\ pc' \in {"load_image", "failed"}
    BY DEF generate_path_join
  <1>6. SECOND_STAGE \in Seq(Chars) /\ Len(SECOND_STAGE) \in Nat
    BY SecondStageAssumption DEF SecondStageAssumption
  <1>7. CASE pc' = "load_image"
    <2>1. PathName' = bootpath' \o SECOND_STAGE
      BY <1>7 DEF generate_path_join
    <2>2. /\ PathName' \in Seq(Chars) /\ Len(PathName') = d + Len(SECOND_STAGE)
          /\ \A n \in 1..d : PathName'[n] = path[n]
          /\ \A n \in 1..Len(SECOND_STAGE) : PathName'[d + n] = SECOND_STAGE[n]
      <3>1. PathName' \in Seq(Chars) /\ Len(PathName') = d + Len(SECOND_STAGE)
        <4>1. bootpath' \o SECOND_STAGE \in Seq(Chars)
          BY <1>4, <1>6
        <4>2. Len(bootpath' \o SECOND_STAGE) = Len(bootpath') + Len(SECOND_STAGE)
          BY <1>4, <1>6
        <4> QED
          BY <1>4, <2>1, <4>1, <4>2
      <3>2. \A n \in 1..d : PathName'[n] = bootpath'[n]
        BY <1>4, <1>6, <2>1
      <3>3. \A n \in 1..Len(SECOND_STAGE) : PathName'[d + n] = SECOND_STAGE[n]
        BY <1>4, <1>6, <2>1
      <3> QED
        BY <1>4, <3>1, <3>2, <3>3
    <2>3. Names(PathName')
            = {w \in Names(path) : w[2] # Len(path)} \cup {<<d + 2, Len(PathName')>>}
      <3>1. \A n \in 1..Len(path) : n >= i + 2 => path[n] # Separator
        BY <1>1
      <3>2. path \in Seq(Chars) /\ i \in Nat /\ (d = i \/ (d = i + 1 /\ i > 0))
        BY <1>1, <1>3
      <3>3. i < Len(path) /\ (i = 0 \/ path[i + 1] = Separator)
        BY <1>2
      <3> QED
        BY <2>2, <3>1, <3>2, <3>3, JoinNames, Zenon
    <2>4. Len(PathName') - Len(SECOND_STAGE) = d
      BY <1>6, <2>2
    <2>5. ASSUME NEW w \in Names(path), w[2] # Len(path), NEW n \in w[1]..w[2]
          PROVE  PathName'[n] = path[n]
      <3>1. /\ w[1] \in 1..Len(path) /\ w[2] \in 1..Len(path)
            /\ w[2] < Len(path) /\ path[w[2] + 1] = Separator
        BY <1>1, <2>5 DEF Names
      <3>2. w[2] <= i
        BY <1>1, <3>1
      <3>3. n \in 1..d
        BY <1>1, <1>3, <3>1, <3>2
      <3> QED
        BY <2>2, <3>3
    <2>6. SecondStageBeside'
      BY <1>5, <2>2, <2>3, <2>4, <2>5 DEF SecondStageBeside, Names
    <2> QED
      BY <1>1, <1>4, <1>5, <2>2, <2>6 DEF ShimPathTypeOK, ShimPathIInv
  <1>8. CASE pc' = "failed"
    <2>1. PathName' = PathName
      BY <1>8 DEF generate_path_join
    <2> QED
      BY <1>1, <1>4, <1>5, <1>8, <2>1 DEF ShimPathTypeOK, ShimPathIInv, SecondStageBeside
  <1> QED
    BY <1>5, <1>7, <1>8

\* Every step keeps it.
LEMMA StepShimPath == ShimPathIInv /\ [ShimPathNext]_<<vars, shimPathVars>> => ShimPathIInv'
  <1> SUFFICES ASSUME ShimPathIInv, [ShimPathNext]_<<vars, shimPathVars>> PROVE ShimPathIInv'
    OBVIOUS
  <1>1. /\ path \in Seq(Chars) /\ Len(path) \in Nat /\ i \in 0..Len(path)
        /\ ShimPathTypeOK /\ GenerateHolds /\ SecondStageBeside
        /\ pc \in Calls \cup Routes => IInv
        /\ file = path
    BY DEF ShimPathIInv, ShimPathTypeOK
  <1>2. CASE generate_path_loop
    <2>1. /\ pc = "generate_path" /\ i > 0 /\ i' = i - 1 /\ ~AtSeparator
          /\ UNCHANGED <<path, pc, file, bootpath, PathName>>
      BY <1>2 DEF generate_path_loop, shimPathVars
    <2>2. GenerateHolds'
      <3>1. /\ bootpath = path /\ path # <<>> /\ path[Len(path)] # Separator
            /\ \A n \in 1..Len(path) : n >= i + 2 => path[n] # Separator
        BY <1>1, <2>1 DEF GenerateHolds
      <3>2. i + 1 \in 1..Len(path) => path[i + 1] # Separator
        BY <1>1, <2>1, <3>1 DEF AtSeparator
      <3>3. \A n \in 1..Len(path) : n >= i' + 2 => path[n] # Separator
        BY <1>1, <2>1, <3>1, <3>2
      <3> QED
        BY <2>1, <3>1, <3>3 DEF GenerateHolds
    <2> QED
      BY <1>1, <2>1, <2>2
      DEF ShimPathIInv, ShimPathTypeOK, SecondStageBeside, Calls, Routes
  <1>3. CASE generate_path_join
    <2>1. pc' \in {"load_image", "failed"} /\ UNCHANGED <<path, file>>
      BY <1>3 DEF generate_path_join
    <2> QED
      BY <1>1, <1>3, <2>1, JoinStep DEF ShimPathIInv, GenerateHolds, Calls, Routes
  <1>4. CASE start_image
    <2>1. /\ UNCHANGED <<path, file, bootpath, PathName>>
          /\ (pc' = "GRUBX64" /\ i' = 0) \/ (pc' = "failed" /\ i' = i)
      BY <1>4 DEF start_image, shimPathVars
    <2>2. pc' = "GRUBX64" => IInv'
      <3>1. (path \in Seq(Chars) /\ pc = "GRUBX64" /\ i = 0 => IInv)'
        BY StartSearch, PTL
      <3> QED
        BY <1>1, <2>1, <3>1
    <2> QED
      BY <1>1, <2>1, <2>2
      DEF ShimPathIInv, ShimPathTypeOK, GenerateHolds, SecondStageBeside, Calls, Routes
  <1>5. CASE Next /\ UNCHANGED shimPathVars
    <2>1. pc \in Calls /\ pc' \in Calls \cup Routes
      BY <1>5 DEF Next, file_name_match_next, file_name_match_true, file_name_match_false,
                  Calls, Routes
    <2>2. IInv'
      BY <1>1, <1>5, <2>1, StepIInv
    <2>3. UNCHANGED path
      BY <1>5 DEF Next, file_name_match_next, file_name_match_true, file_name_match_false
    <2> QED
      BY <1>1, <1>5, <2>1, <2>2, <2>3
      DEF ShimPathIInv, ShimPathTypeOK, GenerateHolds, SecondStageBeside, shimPathVars,
          Calls, Routes, IInv, TypeOK
  <1>6. CASE UNCHANGED <<vars, shimPathVars>>
    <2>1. IInv => IInv'
      BY <1>6, StepIInv DEF vars
    <2> QED
      BY <1>1, <1>6, <2>1
      DEF ShimPathIInv, ShimPathTypeOK, GenerateHolds, SecondStageBeside, vars, shimPathVars
  <1> QED
    BY <1>2, <1>3, <1>4, <1>5, <1>6 DEF ShimPathNext

\* IInv holds during the search, and the rest before and after it.
THEOREM ShimPathInvariance == ShimPathSpec => []ShimPathIInv
  BY InitShimPath, StepShimPath, PTL DEF ShimPathSpec

\* The loops of generate_path and of file_name_match stay inside the path.
THEOREM ShimPathTypeCorrect == ShimPathSpec => []ShimPathTypeOK
  <1>1. ShimPathIInv => ShimPathTypeOK
    BY DEF ShimPathIInv
  <1> QED
    BY <1>1, ShimPathInvariance, PTL

\* For every path of shim's, with and without a separator at its start, and
\* every name of a second stage, that is looked for in shim's directory.
THEOREM SecondStageIsBeside == ShimPathSpec => []SecondStageBeside
  <1>1. ShimPathIInv => SecondStageBeside
    BY DEF ShimPathIInv
  <1> QED
    BY <1>1, ShimPathInvariance, PTL

\* The program that shim has started takes its route by the same rules.
THEOREM ShimPathRoutes == ShimPathSpec => [](RouteByName /\ NameNotMissed)
  <1>1. ShimPathIInv => RouteByName /\ NameNotMissed
    <2>1. IInv => RouteByName /\ NameNotMissed
      BY IInvRoutes DEF IInv, NameNotMissed
    <2>2. pc \notin Calls \cup Routes => RouteByName /\ NameNotMissed
      BY DEF RouteByName, Fits, NameNotMissed, Routes
    <2> QED
      BY <2>1, <2>2 DEF ShimPathIInv
  <1> QED
    BY <1>1, ShimPathInvariance, PTL

\* The route is that of the file the firmware has started, for the program
\* itself and for shim, whose second stage goes by shim's name for all names.
THEOREM SecondStageGoesByShimsName == ShimPathSpec => []SecondStageByShimsName
  <1>1. ShimPathIInv => SecondStageByShimsName
    <2>1. SUFFICES ASSUME ShimPathIInv, Clear(path) PROVE Fits(path, pc)
      BY DEF ShimPathIInv, SecondStageByShimsName
    <2>2. CASE pc \in Calls \cup Routes
      BY <2>1, <2>2, IInvRoutes DEF ShimPathIInv, RouteByName
    <2>3. CASE pc \notin Calls \cup Routes
      BY <2>3 DEF Fits, Routes
    <2> QED
      BY <2>2, <2>3
  <1> QED
    BY <1>1, ShimPathInvariance, PTL

-----------------------------------------------------------------------------
(* The loops end. *)

\* An upper bound of the steps that are left.
StepsLeft ==
  CASE pc = "generate_path"    -> i + 2 * Len(path) + 7
    [] pc = "load_image"       -> 2 * Len(path) + 6
    [] pc = "GRUBX64"          -> (Len(path) - i) + Len(path) + 5
    [] pc = "BOOTX64"          -> (Len(path) - i) + 3
    [] OTHER                   -> 0

\* The measure is a natural number.
LEMMA StepsLeftNat == ShimPathTypeOK => StepsLeft \in Nat
  <1> SUFFICES ASSUME ShimPathTypeOK PROVE StepsLeft \in Nat
    OBVIOUS
  <1>1. Len(path) \in Nat /\ i \in 0..Len(path)
    BY DEF ShimPathTypeOK
  <1> QED
    BY <1>1 DEF StepsLeft

\* Each step of generate_path and boot_exec brings the end
\* nearer: from shim's start the route is found in at most three passes over
\* the path, and no path keeps file_name_match in its loop.
THEOREM SearchEnds ==
  ShimPathSpec => /\ [](StepsLeft \in Nat)
                  /\ [][StepsLeft' < StepsLeft]_<<vars, shimPathVars>>
  <1>1. ASSUME ShimPathTypeOK, [ShimPathNext]_<<vars, shimPathVars>>
        PROVE  [StepsLeft' < StepsLeft]_<<vars, shimPathVars>>
    <2>1. Len(path) \in Nat /\ i \in 0..Len(path)
      BY <1>1 DEF ShimPathTypeOK
    <2>2. CASE generate_path_loop
      BY <2>1, <2>2 DEF generate_path_loop, StepsLeft
    <2>3. CASE generate_path_join
      BY <2>1, <2>3 DEF generate_path_join, StepsLeft
    <2>4. CASE start_image
      BY <2>1, <2>4 DEF start_image, StepsLeft
    <2>5. CASE file_name_match_next
      <3>1. pc' = pc /\ path' = path /\ i' \in Nat /\ i' > i /\ pc \in Calls
        BY <2>1, <2>5 DEF file_name_match_next
      <3> QED
        BY <2>1, <3>1 DEF StepsLeft, Calls
    <2>6. CASE file_name_match_true
      BY <2>1, <2>6 DEF file_name_match_true, StepsLeft, Calls
    <2>7. CASE file_name_match_false
      BY <2>1, <2>7 DEF file_name_match_false, StepsLeft, Calls
    <2> QED
      BY <1>1, <2>2, <2>3, <2>4, <2>5, <2>6, <2>7 DEF ShimPathNext, Next
  <1> QED
    BY <1>1, StepsLeftNat, ShimPathTypeCorrect, PTL DEF ShimPathSpec
=============================================================================
