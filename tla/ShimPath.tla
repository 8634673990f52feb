------------------------------ MODULE ShimPath ------------------------------
(***************************************************************************)
(* BootPath with what comes before and after it.  The program is started   *)
(* by the firmware, or by shim as its second stage.  shim's generate_path  *)
(* makes the second stage's path of shim's own; start_image then enters it *)
(* with shim's handle, whose FilePath it has not changed, so that          *)
(* boot_exec reads the name of shim.                                       *)
(***************************************************************************)
EXTENDS BootPath

CONSTANT SECOND_STAGE   \* the second stage's name behind its separator

ASSUME SecondStageAssumption ==
  /\ SECOND_STAGE \in Seq(Chars) /\ Len(SECOND_STAGE) > 1
  /\ SECOND_STAGE[1] = Separator
  /\ \A n \in 2..Len(SECOND_STAGE) : SECOND_STAGE[n] # Separator

VARIABLES file,   \* the path of the file the firmware has started
          bootpath, PathName   \* generate_path's

shimPathVars == <<file, bootpath, PathName>>

ShimPathTypeOK ==
  /\ path \in Seq(Chars) /\ file \in Seq(Chars)
  /\ pc \in {"generate_path", "load_image", "failed"} \cup Calls \cup Routes
  /\ i \in 0..Len(path)
  /\ bootpath \in Seq(Chars) /\ PathName \in Seq(Chars)

\* shim's path is one node, the name of a file.
ShimPathInit ==
  /\ path \in UNION {[1..n -> Chars] : n \in 0..MaxLength}
  /\ \/ pc = "GRUBX64" /\ i = 0
     \/ /\ path # <<>> /\ path[Len(path)] # Separator
        /\ pc = "generate_path" /\ i = Len(path)
  /\ file = path /\ bootpath = path /\ PathName = <<>>

-----------------------------------------------------------------------------
(* shim.c *)

\* The loop's test; the character at the length is the terminator.
AtSeparator == i < Len(bootpath) /\ bootpath[i + 1] = Separator

\* Mutant: the loop runs while i is not negative.
generate_path_loop_TooFar ==
  /\ pc = "generate_path" /\ i >= 0 /\ ~AtSeparator
  /\ i' = i - 1
  /\ UNCHANGED <<path, pc, shimPathVars>>

generate_path_loop ==
  /\ pc = "generate_path" /\ i > 0 /\ ~AtSeparator
  /\ i' = i - 1
  /\ UNCHANGED <<path, pc, shimPathVars>>

\* Mutant: the terminator goes one character too early.
Directory_OneLess == SubSeq(bootpath, 1, i - 1)

\* bootpath[i-i] is the path's first character: the separator before shim's
\* name stays exactly in a path that does not begin with one.
Directory ==
  IF i = 0 \/ bootpath[1] = Separator THEN SubSeq(bootpath, 1, i)
                                      ELSE SubSeq(bootpath, 1, i + 1)

generate_path_join ==
  /\ pc = "generate_path" /\ (i = 0 \/ AtSeparator)
  /\ bootpath' = Directory
  /\ \/ PathName' = bootpath' \o SECOND_STAGE /\ pc' = "load_image"
     \/ PathName' = PathName /\ pc' = "failed"
  /\ UNCHANGED <<path, i, file>>

\* Mutant: the second stage finds its own path in the loaded image protocol.
start_image_OwnPath ==
  /\ pc = "load_image"
  /\ \/ pc' = "GRUBX64" /\ i' = 0 /\ path' = PathName
     \/ pc' = "failed" /\ i' = i /\ path' = path
  /\ UNCHANGED shimPathVars

\* load_image, handle_image, which changes the loaded image protocol but not
\* its FilePath, and the call of the entry point.
start_image ==
  /\ pc = "load_image"
  /\ \/ pc' = "GRUBX64" /\ i' = 0
     \/ pc' = "failed" /\ i' = i
  /\ UNCHANGED <<path, shimPathVars>>

ShimPathNext ==
  \/ generate_path_loop \/ generate_path_join \/ start_image
  \/ Next /\ UNCHANGED shimPathVars

ShimPathSpec == ShimPathInit /\ [][ShimPathNext]_<<vars, shimPathVars>>

-----------------------------------------------------------------------------
(* What must hold, in terms of the path's components alone. *)

\* Where a file system sees the names in a path: the first and the last
\* character of what stands between separators, unless nothing does.
Names(s) ==
  {w \in (1..Len(s)) \X (1..Len(s)) :
     /\ w[1] <= w[2] /\ \A n \in w[1]..w[2] : s[n] # Separator
     /\ w[1] > 1 => s[w[1] - 1] = Separator
     /\ w[2] < Len(s) => s[w[2] + 1] = Separator}

(* The second stage is looked for beside shim, whatever shim's path looks  *)
(* like: its path has the names of shim's but the last, and then its own.  *)
(* The doubled separator of a path that begins with none is harmless, and  *)
(* a path without any stands for the root directory.                       *)
SecondStageBeside ==
  pc = "load_image" =>
    LET directories == {w \in Names(path) : w[2] # Len(path)}
        before == Len(PathName) - Len(SECOND_STAGE)
    IN /\ Names(PathName) = directories \cup {<<before + 2, Len(PathName)>>}
       /\ \A w \in directories : \A n \in w[1]..w[2] : PathName[n] = path[n]
       /\ \A n \in 1..Len(SECOND_STAGE) : PathName[before + n] = SECOND_STAGE[n]

(* The program goes by the name of the file the firmware has started, even *)
(* as the second stage, which has another one.  So a shim that is named    *)
(* BOOTX64.EFI, as ms-shim-mok/cp.cmd copies it, has its second stage take *)
(* the self-signed route; it boots all the same, because that script       *)
(* leaves no certificate files for it to find.                             *)
SecondStageByShimsName == Clear(file) => Fits(file, pc)
=============================================================================
