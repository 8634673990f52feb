# Specifications of UEFI_SecureBoot

TLA+ models of the UEFI application of this repository, the TLC configurations
that check them on small instances, and proofs for the TLA+ proof system. Paths
below are relative to the root of the repository.

## 1. The system

A USB memory carries a UEFI application and a way to start it under secure boot:
with the machine owner's own keys (`efi/boot/self-only`), or behind Microsoft's
keys with shim and MokManager (`efi/boot/ms-shim-mok`). It runs before an
operating system, in one thread; what runs beside it are the firmware's timer
callbacks, and what interrupts it are power losses and resets. It lives over many
boots: the state that matters is in the firmware's variables and in three files
on the USB memory, and the machine's owner acts between the boots, on the
firmware's setup screen, on the advice of the messages the program left behind.

| Component | Code | State | Operations |
|---|---|---|---|
| self-only boot route | `src/efi_main.c`, `src/setup_screen.c`, `src/utils.c` | PK, KEK, db, OsIndications, the three `.cer` files, three file handles, `reboot_msg` | `efi_main`, `boot_exec`, `boot_self_signed`, `uefi_keys`, `regist_uefi_keys`, `transition_setup_screen`, `reset_system`, `error_print`, `read_key` |
| secure boot mode | `src/secure_boot_mode.c` | none; reads five variables | `is_secure_boot_setup_mode` and what it is made of |
| key enrolment | `src/lib/tp_UDKenv/tp_UDKenv.c`, `tp_uefi_memory.h`, UDK's `SecureBootConfigImpl.c`, `SecureBootConfigMisc.c` | `private_data`, pool buffers, the firmware's variables | `tp_begin_enroll_keys`, `tp_enroll_uefi_key`, `tp_end_enroll_keys` |
| exit from boot services | `src/efi_main.c` | `MM`, `retry`, the memory map | `exit_boot_services`, `get_memory_map` |
| boot path matching | `src/efi_main.c` | none | `boot_exec`, `file_name_match` |
| graphics mode selection | `src/efi_main.c` | `gop`'s mode | the end of `init` |
| boot logo | `src/lib/tp_UDKenv/tp_draw_logo.c` | none | `tp_get_bgrt`, `conv_bitmap` |
| shim (third party) | `boot/external/BSD/shim/src/shim.c` | MokList, MokListRT, MokSBState, the loaded image protocol, the shim lock | `efi_main`, `start_image`, `verify_buffer`, `check_mok_request` |
| MokManager (third party) | `boot/external/BSD/shim/src/MokManager.c` | MokNew, MokAuth, MokSB, MokPW, MokList, the menus | `check_mok_request`, `enter_mok_menu`, the prompts |
| netboot, Cryptlib, UDK, gnu-efi (third party) | `boot/external/BSD/shim/src`, `src/lib/external` | | |
| tools | `tools/*.cmd`, `efi/boot/*/cp.cmd` | the keys and the copied files | sign, copy |

How they interact. The firmware's boot manager verifies and loads the application
(`codesign.cmd` signs it with the key of `DBself.cer`). `efi_main` chooses the
display mode, then the route from its own file name. On the self-only route it
looks for the three certificate files; without them it boots: it waits for a key,
leaves the boot services and resets the machine, which is all the sample has to
show for a boot. With them it reads the secure boot mode. In setup mode it enrols
db, KEK and PK in this order, deletes the files and asks for secure boot to be
switched on; in any other known mode it asks for the keys to be cleared; in an
unknown one it boots. `transition_setup_screen` asks the firmware, through
OsIndications, to open its setup screen at the next boot, if it can.

Behind Microsoft's keys the firmware starts shim, which the procedure in
`README.md` names `BOOTX64.EFI`. shim starts MokManager first if mokutil has left a
request in one of four variables, copies the list of the owner's keys to MokListRT
for the kernel, and starts this repository's application as its second stage. The
image is verified against dbx, db, the owner's list and shim's own key, unless
Secure Boot is off or MokSBState switches the checks off. When the second stage
fails, shim starts MokManager and then returns to the boot manager. shim lends the
image its own handle and its loaded image protocol, which it changes for the time
of the call. MokManager asks for the password, if one is set, shows a menu that
goes away after ten seconds without a key, and removes the requests.

What is hard here:

* a power loss or a failing call between any two of the writes and deletions, and
  the next boot that has to cope with what it finds;
* the order of the three keys: the platform key ends setup mode, and a platform
  key without the owner's db certificate makes the firmware reject the program;
* the mode that is read once and relied upon several calls later;
* the messages: the owner sees nothing else, and following a wrong one can lock
  the machine or start the procedure all over again;
* the memory map that changes between `GetMemoryMap` and `ExitBootServices`, and
  the buffer for it that makes it change;
* buffers with many owners and a dozen failing calls in the enrolment code;
* shim's and MokManager's common variables: a verdict about an image, a flag and a
  copy of the list are made at one time and relied upon at another, with
  MokManager, failing calls and power losses in between;
* requests of which a power loss leaves half, to be completed by another's, or
  which the firmware will not delete;
* calls whose failure is taken for an answer: an unreadable SecureBoot for one that
  is off, an unreadable dbx for an empty one, a keyboard that does not answer for
  one on which no key has been pressed yet.

What makes each part correct is listed under hazards and properties in
`PROJECT.json`, and property by property in section 3.

## 2. The modules

| Module | Models | Built on |
|---|---|---|
| `KeyStore` | the promise of the self-only route about PK, KEK, db and the files, without a program | |
| `SecureBootMode` | `secure_boot_mode.c` as operators over a variable store | |
| `SelfBoot` | the application on the self-only route, the boot manager, the owner, power losses | `SecureBootMode`; implements `KeyStore` |
| `GuidedBoot` | `SelfBoot` with an owner who follows the README, with fairness | `SelfBoot` |
| `Enroll` | one enrolment session, call by call | implements `KeyStore` |
| `ExitBoot` | `exit_boot_services` and `get_memory_map` | |
| `BootPath` | `boot_exec` and `file_name_match` | |
| `GopMode` | the mode selection of `init` | |
| `Logo` | `tp_draw_logo.c` | |
| `TrustPolicy` | the promise of shim and MokManager about what starts under Secure Boot and who changes the owner's list, without a program | |
| `MokManager` | one run of `MokManager.c` after the other, with mokutil between them | |
| `MokHistory` | `MokManager` with a memory for what the owner has asked for and what failed, which no step reads | `MokManager` |
| `Shim` | `shim.c` from `efi_main` on, over many boots | `MokManager`; implements `TrustPolicy` |
| `GuidedMok` | `Shim` with any owner, or with one who follows the README, with fairness | `Shim` |
| `ShimPath` | `generate_path`, and `boot_exec` in the program the firmware or shim has started | `BootPath` |
| `SelfBoot_proofs`, `ExitBoot_proofs`, `ShimPath_proofs`, `Enroll_proofs`, `GopMode_proofs`, `Logo_proofs`, `MokManager_proofs`, `Shim_proofs` | theorems | the module they are named after; `SelfBoot_proofs` and `Shim_proofs` also `GuidedBoot` and `GuidedMok` |
| `MC...` | the values of the constants for TLC | the module they are named after |

State and code in `SelfBoot`. `pk`, `kek`, `db` are the firmware's variables, as
sets of certificate owners (`pk` is one owner or `NoKey`). `files` are
`\EFI\BOOT\PKSELF.CER`, `KEKSELF.CER`, `DBSELF.CER`. `handles` are the locals
`pk_file`, `kek_file`, `db_file` of `regist_uefi_keys`. `pc` names the next call
to the firmware; an action is that call and the code up to the next one, which is
the grain at which power losses and failures can fall. `Fails` is what all
error paths have in common: `error_print`, the wait for a key, the reset. A
`machine` is a constant of the behaviour: the name the program was loaded under,
whether the firmware implements secure boot, the UEFI 2.5 modes and
BOOT_TO_FW_UI, what it answers for SetupMode in audit mode (the code
expects 0, some firmware says 1), and its keyboard, `conIn`. `read_key` loops on
every status but success: with a `"broken"` keyboard, whose `Reset` may or may not
fail, it never ends, not even the wait in which `error_print` reports that very
failure; for a `"missing"` one it does not wait. `shown` is the console since the
last start of the program, which the owner remembers until the program prints
again. The owner of `SelfBoot` does anything a setup screen offers, in any order.

`EFI_FILE.Delete` that cannot delete answers with a warning, which `EFI_ERROR`
does not see: `DeleteFile` therefore goes on with the file still there.

`Enroll` opens up the three calls that `SelfBoot` takes as one step each. It
follows which pool buffer each pointer owns. `AllocateCopyPool` returns its
argument, so `private.data` points to the static template. `SelfBoot` and
`Enroll` meet in `KeyStore`, which both implement: what the coarse steps assume
of the variables is what the fine ones do.

`ExitBoot` counts the memory map in descriptors and gives every change a new key.
`MM.memory_map` is the capacity of the buffer. A change may add or remove a
descriptor, or neither.

`BootPath` keeps the characters of the path, because the algorithm is about them:
it is the one place where text is not abstracted. `RouteByName` does not use the
comparison of the code: `Like` says in terms of the path what that comparison takes
for a name: the name, what continues it, and a shorter one at the end of the path.
`Clear` is a path with nothing of the last two kinds; in it the whole names between
separators, as a file system sees them, decide (`Fits`).

`ShimPath` goes on from there: the program is started by the firmware, or by shim.
`file` is the path of what the firmware has started, and `path` what the loaded
image protocol says. shim enters its second stage with its own handle and leaves
`FilePath` as it is, so that `boot_exec` in `grubx64.efi` reads
`\EFI\BOOT\BOOTX64.EFI` and takes the self-signed route (`SecondStageByShimsName`).
That it boots all the same is due to `ms-shim-mok/cp.cmd`, which leaves no
certificate files in that directory.

`Logo` knows a byte of the bitmap by its offset in the file and records from where
each row of the screen is taken.

`MokManager`. The request variables MokNew, MokAuth, MokSB, MokPW and the state
variables MokList, MokSBState, MokPWStore are those of `MokVars.txt`. A hash is what
it was made of: `compute_pw_hash` gives the pair of the keys and the password. `held`
are the buffers that `check_mok_request` has read, `freed` counts what `FreePool` is
given. `mokutil` writes one variable at a time, so that a power loss under the
operating system may leave any combination of requests. `Owner` presses any key.
Between two runs the environment is mokutil and shim, which may erase the list
(`verify_mok`). `check_mok_request(unread)` does not see the requests it cannot read,
each `LibDeleteVariable` may leave its variable, and the reset after a change may
return (`reset_returns`), as the code's "Failed to ..." messages have it.

`MokHistory` adds what `MokManager`'s own variables cannot tell: the keys the owner has
asked for, those no one has asked to erase, and what this run could not read or
delete. It is written beside MokManager's steps and guards none of them; that its
behaviours are MokManager's is `HistoryIsMokManager`.

`Shim`. `platform` is the machine: its databases and who has signed which image; it
does not change. `caller` and `shim` are the place in the program. `start_image` is
three steps, cut where the verdict is reached, where the loaded image protocol is
changed and where the image is entered. MokManager runs in it with its own steps;
both are one thread. `PowerOff` may come at any step. "off" is the boot manager,
which may also start shim again after it has returned: MokListRT, a volatile
variable, survives that, and shim's global variables do not. The result of
`verify_mok` is ignored in the code, and its attributes are not set when the list
cannot be read: `verify_buffer` therefore may erase the list at any verification.
A failing call mostly keeps an image from being started. Three let one in: a
SecureBoot variable that cannot be read (`shim.c:426`), a dbx that cannot be read or
for which there is no memory (`shim.c:268`, `335`), and the reset that does not come
after the owner has switched the checks on again (`MokManager.c:783`). `lapses`
records them, the first two for the image at hand and the third for the boot, and
only where they make a difference. `TrustPolicy` has the same variable: its `Checked`
names what each of the three excuses, and nothing else is excused.
`TrustPolicy`'s `SecondStageTrusted` says more than its steps do: the second stage is
trusted as long as it runs. No run checks it; it is proved (section 4).

`GuidedMok` has two kinds of behaviours, chosen at the start: those of `Shim`, and
those with a guided owner, in which only the steps in which no call fails are
free, and the others and the power losses, together, at most `MaxFaults`.

Every definition that stands for code is listed with its lines under `map` in
`PROJECT.json`. An operator named `X_Something` with the comment "Mutant" stands
before `X`; it is a bug one could have made in `X`, used to see that a property
notices it, and no specification refers to it.

## 3. The runs

| Run | Module, configuration | Checks | Distinct states |
|---|---|---|---|
| `self_boot` | `MCSelfBoot` | `ActivateIsSafe`, `OwnKeyNeverRejects`, `HandlesOpenWhenUsed`, `NoSilentWait`, `EnrollOnlyInSetupMode`, `ForeignCertsKept`, `KeyStorePromise` | 178185 |
| `guided_boot` | `MCGuidedBoot` | `ProcedureEnds`, `StaysSecure`, `RunEnds` | 15758 |
| `exit_boot` | `MCExitBoot` | `FinalMapCurrent`, `MapInsideBuffer`, `OneBuffer`, `GiveUpTakesTwoRaces`, `NoBootServiceAfterExit`, `Ends` | 16015 |
| `enroll` | `MCEnroll` | `PointersLive`, `NoDoubleFree`, `OnlyKnownLeaks`, `KeyStorePromise` | 784 |
| `boot_path` | `MCShimPath` | `ShimPathTypeOK`, `RouteByName`, `NameNotMissed`, `SecondStageBeside`, `SecondStageByShimsName` | 612784 |
| `gop_mode` | `MCGopMode` | `ChosenIsFirstWidest`, `PreferredWidthTaken`, `RefusedOnlyWithoutMode` | 28247 |
| `logo` | `MCLogo` | `RowsInPlace`, `SameSkew`, `ReadsNearFile` | 11640 |
| `mok_manager` | `MCMokManager` | `NoRequestLeft`, `OnlyKnownBadFrees`, `ListFollowsOwner` | 1429610 |
| `shim` | `MCGuidedMok` | `LoadedImageRestored`, `KernelSeesList`, `ImplementsPolicy`, `OnlyOwnerBlocks`, `BootsEveryTime`, `AskedAtFirstOnly` | 964495 |
| `success_never_asks_to_clear` | `MCSelfBoot`, `SuccessNeverAsksToClear.cfg` | fails: section 5 | |
| `success_means_files_gone` | `MCSelfBoot`, `SuccessMeansFilesGone.cfg` | fails: section 5 | |
| `copy_failure_reported` | `MCEnroll`, `CopyFailureReported.cfg` | fails: section 5 | |

The type invariants of the modules with a proof are proved (section 4); of them
the runs check that of `ShimPath`, where the type of an index is what an error in
a loop would break.

What they show.

* `self_boot`: whatever the owner does, wherever two calls fail and power is lost
  twice, the advice to switch secure boot on is sound at the moment it is on the
  screen (`ActivateIsSafe`); a machine with the program's own platform key can
  load the program (`OwnKeyNeverRejects`); keys are written in plain setup mode
  only although the mode was read five calls earlier (`EnrollOnlyInSetupMode`);
  certificates of earlier owners survive (`ForeignCertsKept`); all file handles
  used are open; no wait for a key is unannounced; and seen from the keys alone
  the whole is `KeyStore`.
* `guided_boot`: the procedure in the README's section on one's own keys leads to
  a secure boot with them, on a machine with a keyboard that works, after any two
  failures and power losses. Each run of the program ends, with such a keyboard and
  with none at all; with one that never answers it ends or stays in `read_key`, and
  nowhere else (`RunEnds`). What is reached is reached for good (`StaysSecure`): no file
  that was not deleted, no request left in OsIndications and no failing call leads
  back to the setup screen.
* `exit_boot`: the map passed to `SetVirtualAddressMap` is current, whole and
  converted; both loops end; and one change of the map behind the program's back
  is always absorbed, so that the single retry suffices unless there are two.
* `enroll`: no path leaves a pointer to a freed buffer in use, frees one twice, or
  loses more than the buffers known to be lost. The KEK file's content is
  never freed (`EnrollX509ToKek`), and the copy of the template is lost; a session
  that fails also leaves the file context and the GUID, which only
  `tp_end_enroll_keys` frees.
* `boot_path`: the search never misses a name in a path without doubled
  backslashes. What it takes for a name besides is that name's continuation, and a
  part of it at the end of the path: `\BOOTX64.EFI.BAK` and `\EFI\BOOT\BOOT` go by
  `BOOTX64.EFI` (`RouteByName`). Where a path has none of these, the route is that of
  the file in it, and a second stage takes that of shim's file.

  From shim, the second stage is looked for in shim's own directory whatever the
  path looks like, `bootpath[i-i]` in `generate_path` included: the doubled
  separator it can produce names the same file.
* `gop_mode`: the mode set is the first of the widest usable ones listed up to
  where the loop stopped, and the loop stops early at the preferred width only.
* `logo`: conv_bitmap pads each row to a multiple of four counted from the start of
  the file. Where the pixels start at a multiple of four, as in the usual file of
  54 bytes of header plus two of padding, the picture is right; elsewhere, at the
  usual 54 too, all rows but the lowest move by the same few bytes, and at most
  three bytes are read behind the end of the file.
* `mok_manager`: over all boots the list has no key that the owner has neither given
  a password for nor taken from the disk, and loses none on mokutil's word that
  nobody has asked to erase, even when the requests left over stem from different
  calls of mokutil, or are left because they could not be read or deleted
  (`ListFollowsOwner`). Only those are left for the next boot (`NoRequestLeft`): no
  refused, forgotten or half request. The buffer of MokNew is freed again only with
  a second request.
* `shim`: seen from the images and the variables, all is `TrustPolicy`: under Secure
  Boot no image is entered that is not trusted at that moment, though the verdict,
  the list and `insecure_mode` are from different times, but for the three lapses
  that `TrustPolicy` names. shim is itself again
  whenever it goes on. A copied list is the list the kernel finds, unless it was
  erased since. Without a key pressed the machine stops only at a password prompt,
  and with keys pressed only before the owner's menu. And the guided owner's machine boots the program after every reset, whatever
  three calls fail or power losses happen, and shows the menu at the first
  execution only, the first that was checked: a start for want of a readable
  SecureBoot needs no key in the list, and so leaves the next one to ask for it.

Bounds, and why they are enough.

* `MaxFaults = MaxCrashes = 2`: a failing call resets the machine and leaves no
  trace but what had been done, so that the effect of several on the persistent
  state shows with two, one in a run and one in the run that recovers from it.
  The proofs have no such bound.
* One foreign certificate in `MCSelfBoot` and two in `MCEnroll`: certificates are
  only added, replaced as a whole, or looked up by owner.
* `MCMachines` leaves out machines that differ in nothing the program looks at:
  `auditSetup` without the UEFI 2.5 modes, those modes without secure boot, and
  the firmware variants for the file names that never read a mode.
* `MaxGrowth = MaxChanges = 3`, `InitialNeed = 2`: room for the map to outgrow its
  buffer repeatedly, before each of the two calls of `ExitBootServices`. The
  counter of keys grows with the rounds, which the growth bounds: the program goes
  round again only after a growth. This stands for a map that does not grow for
  ever.
* Seven characters: three components, one of them a whole name, or a name behind
  two doubled backslashes. Names are two characters that differ in the first; the
  second stage's name on disk is a third one, as `grubx64.efi` is not `GRUBX64.EFI`.
* Four modes with widths below, at and twice above the preferred one.
* Offsets, widths and heights of `MCLogo` give every remainder by four of the start
  and the length of a row, and up to four rows; two tables suffice for a search
  that stops at the first of a kind.
* `MCMokManager` has two keys and two passwords, so that a stale request can differ
  from a fresh one in either, and a countdown of two seconds; `MCGuidedMok` has one
  of each and four machines: the second stage trusted by the owner's key, revoked,
  trusted by db with MokManager in the vendor's dbx, and without Secure Boot. `MCSpec`
  takes the guided owner to all four and the unguided one to the second, where the
  list vouches for what dbx revokes, so that each of the three lapses changes a
  verdict. The proofs have all machines. Boots are
  unbounded in both. `MaxFaults = 3` bounds the guided owner's faults alone.

Deadlock is checked for `self_boot`, `guided_boot`, `mok_manager` and `shim`, which
never stop. The others model a call that returns, so they stop.

Fairness. `ExitBoot` assumes `WF_vars(Program)`: nothing in those functions waits.
Callbacks get no fairness. `GuidedBoot` assumes weak fairness of the program,
of the boot manager and of what the owner does in the setup
screen, and strong fairness of the owner's opening it, because a machine with
nothing wrong shows its screen only in passing between two boots: an owner who is
repeatedly asked to open the setup screen does so at some time. That the program's
waits for a key end where the keyboard works is part of the first; on a broken one
the only step of `read_key` is to go on waiting, and fairness asks nothing of it.
Power losses and failures get none. `Shim` assumes weak fairness of shim's own steps, of MokManager's
clock and of its clean-up: they are one thread with nothing to wait for, and the
timer event of `run_menu` is the firmware's. No owner need press a key, which is
what `OnlyOwnerBlocks` is about. `GuidedMok` adds weak fairness of the steps of the
program, including that the firmware starts shim again (what follows a return to
the boot manager on a machine that boots from nothing else), and of the reset that
ends a boot, which needs the key its message asks for; and strong fairness of the
guided owner, because one menu may go away before a key is pressed: an owner who
sees the menu again and again uses it at some time.

## 4. The proofs

`SelfBoot_proofs` proves, for every set of machines and certificates and all
budgets: `TypeCorrect`, `ActivateIsSafeHolds`, `OwnKeyNeverRejectsHolds`,
`EnrollOnlyInSetupModeHolds`, `ForeignCertsKeptHolds`, `HandlesOpenWhenUsedHolds`,
`NoSilentWaitHolds` and `ImplementsKeyStore` (`Spec => KeyStorePromise`). The
assumption is `SelfBootAssumption`: the three kinds of key owner are distinct and
the machines are records of the given type.

The inductive invariant `IInv`. That a platform key of one's own implies the chain
below it (`OwnKeyHasChain`) is not inductive: the step that writes the platform
key must know that KEK and db have been written, and nothing in the state of the
firmware says so. `EnrollOrder` says it, by the program's position; `SetupHolds`
carries the result of the mode test to the writes; `EnrolledHolds` carries the
platform key from its write to the deletions and the message; `AdviceHolds` keeps
what is on the screen true until the reset; `RejectedHolds` and `ModesHold` tie
the boot manager's refusal and the mode variables to the keys. The lemma
`SetupModeMeansNoKey` opens up `secure_boot_mode.c`: its answer "setup" means no
platform key and neither audit nor deployed mode, on every machine. `TypeStep` and
`RestStep` go through the actions, `FailsRest` deals with the error paths once.
`RunInv` is a second, independent invariant for the handles and the messages.

`ExitBoot_proofs` proves the type invariant, the four state properties and
`NoBootServiceAfterExit` for every size of the map and any number of changes. The
heart is `RacesCounted`: between `GetMemoryMap` and `ExitBootServices` the program
itself makes no call that changes the map, so a stale key counts a callback.

`ShimPath_proofs` proves all properties of `boot_path`, for paths and names of every
length. `PassedOver` says what the index has left behind; the step over two
characters is sound because the second is no backslash, or the path has doubled
backslashes. `ShimPath` runs the same search, so `IInv` is its invariant too while
`boot_exec` runs; `ShimPathRoutes` and `SecondStageGoesByShimsName` follow. The
invariant is about the code's comparison; what it means for the names in the path
is `IInvRoutes`, from three lemmas: what agrees is like the name, because a name has
no separator in it (`NamedIsLike`); a file with the name agrees (`FileIsNamed`); and in
a clear path nothing is skipped (`ClearPath`). Before that,
`GenerateHolds` says that behind the index of `generate_path` there is no separator
in the path, and the lemma `JoinNames` what a file system sees in the
concatenation: the names of the path but its last, and the second stage's, doubled
separators notwithstanding. `SecondStageBeside` was first stated with a fold over
the characters, about which nothing can be proved here; it now says where the
names in a path are, which is the same and can.

`Enroll_proofs` proves the type invariant, `FreedOnce`, `LivePointers`, `KnownLeaks`
and `ImplementsKeyStore`, from `NULL` being no buffer. `PrivateHolds` and `LocalsHold`
say, step by step, which buffer each pointer owns, `PoolHolds` which buffers there
are at all; `OrderHolds` carries what db and KEK hold on to the write of PK.

`GopMode_proofs` proves the type invariant and the three properties for every list of
modes and every width looked for. `Seen` says that no mode passed beats the one kept; `Excused` that one of
the right width is passed over only behind a wider one.

`Logo_proofs` proves its three properties for every file. From the second row on
the loop stands at a multiple of four (`IInv`), where the padding counted from the
start of the file is that of the format (`PaddedStride`); so all later rows carry
the displacement of the first. Its arithmetic is in lemmas about multiples.

`MokManager_proofs` proves, for every set of keys and passwords, the type invariant,
`RequestsConsumed`, `BadFreesKnown` and `OwnerFollowed`, the first and the last over
`MokHistory`. `RequestsConsumed` needs what each step of the clean-up has left behind:
nobody writes requests while MokManager runs, so that what was not read is not
there or is in `failed`, and so is what was read and not deleted. `OwnerFollowed` needs
that a MokAuth is always one mokutil has made, and that a protected key and a
request to erase are never there at the same time: this is what makes an old
request, served late or twice, harmless. `HistoryIsMokManager` carries the other
theorems over.

`Shim_proofs` proves, for every machine and every set of keys and passwords, the
type invariant, `Restored`, `KernelSees` and `ShimImplementsPolicy` (`Spec =>
ImplementsPolicy`), with all three lapses. `VerdictHolds` carries the verdict to the
entry of the image: nothing between the two touches the list or what could not be
read. `InsecureHolds` ties the flag read at the start to MokSBState: they differ so as
to leave the checks off only inside MokManager, between the change and the reset,
or after one that did not come, and then `lapses` says so. `MirrorHolds` does the same for the copy of the list. The
assumption is `ShimAssumption`: no value is mistaken for the absent one.

`SecondStageStaysTrusted` is proved on `TrustPolicy` alone (`PolicyKeepsTrust`), with
no program in it, and carried over by the refinement: every step that could take the
trust away from under a running second stage is one that `TrustPolicy` does not have.

shim and MokManager. What `MokManager_proofs` proves is about runs of MokManager with
an unspecified environment. `ShimRunsMokManager` (`Spec => Mok!Spec`) shows that shim,
power losses and the boot manager are such an environment. It needs `OffHolds`:
whenever MokManager does not run, it holds no buffer and its counters are reset.
An instance of `MokManager_proofs` then gives its invariant for the behaviours of
`Shim` (`MokInvariance`), and with it `MokManagerUnderShim`.

The guided owners. `GuidedIsSelfBoot` and `GuidedIsShim` prove that the specifications
with fairness and a guided owner are restrictions of those with any owner, so that
the theorems hold there, where the run `shim` checks them. The second needs the
invariant: the guided owner's steps do not say that MokManager runs, which
`RunsHolds` knows.

`StaysSecureHolds` (`GuidedSpec => StaysSecure`) says that what `ProcedureEnds` promises
is final. `SecureBooted` is left at the next step, and does not say why it comes
back. `GuidedHolds` adds why the program was about to boot: a file was missing. The
only other reason is an unknown mode, which `KeyMeansUserMode` excludes. It also says
where a request in OsIndications can still be pending. `Secured` is what every
later step keeps.

`AskedOnce` (`GuidedSpec => AskedAtFirstOnly`) needs two things. `GuidedHolds` (that of
`Shim_proofs`): the guided owner leaves no request and no check off, so that the second
stage, unless something could not be read, is started on the owner's own trust.
`Settled`: from there, with no fault left to come, no step
leads back to the menu; it is kept by every step, which is what the property says.

`KeyStore`'s promise. `StoreKeepsChain`: its steps keep the chain below a platform key
of one's own, without any program. With `ImplementsKeyStore` this is a second way to
`OwnKeyNeverRejects`, and a check that the abstract specification promises enough.

Ends. That a loop ends, or a run of the program, is liveness, and stays with TLC. Its
safety half is proved, for all sizes: a measure, bounded from below and above, that
every step of the program decreases. Then only a program that is never scheduled
again does not end.

* `LoopsBounded` (`ExitBoot`): 8 * (initial descriptors + growth) + 18 calls at the
  most; callbacks do not put it off, as each growth they can make is paid for.
* `RunShortens` (`SelfBoot`): a run makes sixteen calls at the most, with any failures.
* `BootShortens` (`Shim`): from `check_mok_sb` to the return to the boot manager or the
  operating system, a boot in which no one presses a key takes 3 * Timeout + 40
  steps at the most, whatever fails in it: three calls of `start_image`, each with a
  countdown of MokManager's.
* `SearchEnds` (`ShimPath`), `LoopEnds` (`GopMode`), `DrawingEnds` (`Logo`): the other
  loops.

Checked by TLC only: `Ends`, `RunEnds`, `ProcedureEnds`, `OnlyOwnerBlocks` and
`BootsEveryTime`. They are liveness: to conclude from fairness that a step is taken
needs ENABLED, which the proof system's backends do not handle. For `Ends` and
`RunEnds` what is missing to a proof is only that the program is never stuck; for
`OnlyOwnerBlocks` that, and the prompts; for the other two also the owner's fairness.
That the definitions compute what they say on concrete inputs is TLC's as well.

## 5. Disagreements found

* After a successful enrolment on a firmware that cannot open its setup screen by
  itself, `transition_setup_screen(true)` asks for the keys to be cleared
  (`src/setup_screen.c:99`), where the README promises the advice to activate
  secure boot (`README.md:87`). Run `success_never_asks_to_clear`.
* `regist_uefi_keys` has a branch for a failing `Delete` (`src/efi_main.c:390`)
  that is never taken: `SimpleFileSystem.h:169` makes the failure a warning. The
  success is announced with files left, and if all three are left the next boot
  asks for the keys to be cleared. Run `success_means_files_gone`.
* `AllocateCopyPool` (`src/lib/tp_UDKenv/tp_uefi_memory.h:47`) returns its
  argument: the error `tp_begin_enroll_keys` wants to report cannot be, the copy
  is lost and the static template is freed. Run `copy_failure_reported`.

Seen in the code, without a run of their own:

* `conv_bitmap` stores the bytes of a pixel as green, red, blue
  (`src/lib/tp_UDKenv/tp_draw_logo.c:206`), where `Bmp.h:21` has blue, green, red.
* When the keyboard's `Reset` fails, `init` calls `error_print`
  (`src/efi_main.c:67`), which waits for a key on it: `read_key` ignores the error that
  `ReadKeyStroke` answers and loops for ever (`src/utils.c:42`).
* The comparison of `file_name_match` stops at the end of the shorter text
  (`src/efi_main.c:193`): the last component need only begin, or be begun by, a name.
* shim starts unchecked what it cannot check for want of a SecureBoot variable it
  can read (`shim.c:426`, "FIXME - more paranoia here?"), and takes a dbx it cannot
  read, or has no memory for, for an empty one (`shim.c:268`, `335`).
* After a reset that returns, MokManager goes back to its menu
  (`MokManager.c:783`), and shim on to the second stage with the `insecure_mode` of
  before the change.
* A request that cannot be deleted is announced, MokAuth not even that, and stays
  for the next boot (`MokManager.c:1631`, `1651`).
* `init_grub` starts MokManager after any failure of the second stage; its comment
  says "If that fails because grub isn't trusted" (`shim.c:1188`).
* `mirror_mok_list` leaves MokListRT alone when there is no list (`shim.c:1219`). After
  a failed second stage the owner can erase the list in MokManager; shim, started
  again without a reset, then leaves the erased keys to the kernel. `KernelSeesList`
  is stated so as to allow this.
* `mok_sb_prompt` takes positions modulo the password's length in MokSB
  (`MokManager.c:715`), whatever that length is.

## 6. What is not modelled

Third-party code as such: Cryptlib, UDK and gnu-efi are seen through the results
of the calls, netboot is on neither route. Of `SecureBootConfigImpl.c`, what the
program never calls. Contents of certificates and signature lists: a certificate
is its owner. `efi_status.c` is a table of texts with a search through it. The other
bits of OsIndications are not followed, nor the handles that
`uefi_keys(UEFI_KEYS_EXISTS)` leaves open. The application's `ResetSystem` and cold reset
are taken to work. After a failing `ExitBootServices` the firmware is taken to keep its boot
services. The sizes in a boot logo are taken to be those of a screen.

Of shim: the parsing and the relocation of images, which for `Shim` succeed or fail;
the lock protocol's calls, which the second stage of this repository does not make;
a MokSBState that the operating system could write, which shim removes. A path of
several device path nodes, which gnu-efi joins with "/", is left out of `ShimPath`.
Of MokManager: the drawing of menus, the listing of keys, the walk through the
disks up to the file chosen. `AuthenticodeVerify` and the hashes are taken to work:
a signature is valid or not.

## 7. The plan

Done, the most important behaviour first: `KeyStore`, `SelfBoot` and its proofs;
`GuidedBoot`; `ExitBoot` and its proofs; `Enroll`; `BootPath` and its proofs;
`GopMode`; then `Logo`, `MokManager`, `TrustPolicy` and `Shim`, `GuidedMok`, `ShimPath`,
and the proofs of `Enroll`, `GopMode`, `Logo`, `MokManager` and `Shim`; then the proofs
of `ShimPath`, of MokManager under shim, of the guided specifications, and the
measures.

The error paths on which a failing call is taken for an answer came last: the
keyboard of `SelfBoot`, the reads, deletions and resets of `MokManager`, and the lapses
of `Shim` and `TrustPolicy`.

Left:

1. The lock protocol with a second stage that uses it, as another client of
   `verify_buffer`.
2. The pool buffers of `start_image` and `file_callback`, in the manner of `Enroll`.
3. For the liveness properties, that a step of the program is possible wherever its
   measure is above its least value: as a state predicate, without ENABLED, it can
   be proved.
