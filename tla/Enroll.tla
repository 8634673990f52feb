------------------------------- MODULE Enroll -------------------------------
(***************************************************************************)
(* One enrolment session: tp_begin_enroll_keys, tp_enroll_uefi_key for db, *)
(* KEK and PK with the UDK functions behind it (SecureBootConfigImpl.c),   *)
(* and tp_end_enroll_keys, with every allocation, file and firmware call   *)
(* able to fail.  What is followed is which pool buffer each pointer owns, *)
(* and what is written to the firmware's variables.  A failing call ends   *)
(* the session: regist_uefi_keys closes the files and resets the machine.  *)
(***************************************************************************)
EXTENDS Naturals

CONSTANTS Self, Foreign, NoKey,   \* as in KeyStore
          NULL                    \* a pointer to nothing

ASSUME EnrollAssumption ==
  Self \notin Foreign /\ NoKey \notin Foreign \cup {Self}

VARIABLES
  pk, kek, db,  \* the firmware's variables
  heap,         \* the pool buffers allocated and not freed
  invalidFrees, \* arguments of FreePool that were not allocated
  pc,
  key,          \* the key tp_enroll_uefi_key is at
  private,      \* what private_data and its two fields point to
  X509Data,     \* the locals of the enrolment function: the file's content
  list,         \* ... the signature list, wrapped or not
  append        \* ... EFI_VARIABLE_APPEND_WRITE is in Attr

keyVars   == <<pk, kek, db>>
poolVars  == <<heap, invalidFrees>>
localVars == <<X509Data, list, append>>
vars == <<pk, kek, db, heap, invalidFrees, pc, key, private,
          X509Data, list, append>>

\* The certificate files are not touched during a session.
Files == {"PK", "KEK", "DB"}
Store == INSTANCE KeyStore WITH files <- Files

\* A buffer is known by what it is for; Template is static data.
Buf(what, k) == <<what, k>>
Template     == Buf("mSecureBootConfigPrivateDateTemplate", "")
Copy         == Buf("copy", "")
FileContext  == Buf("FileContext", "")
Guid         == Buf("SignatureGUID", "")
Buffers == {Template, Copy, FileContext, Guid}
             \cup {Buf(w, k) : w \in {"X509Data", "list", "payload"}, k \in Files}
Pointers == Buffers \cup {NULL}

ASSUME NullAssumption == NULL \notin Buffers

Pcs == {"begin", "FileContext", "SignatureGUID", "ReadFileContent", "list",
        "CreateTimeBasedPayload", "GetVariable", "SetVariable", "end",
        "done", "failed"}

TypeOK ==
  /\ pk \in Foreign \cup {Self, NoKey}
  /\ kek \subseteq Foreign \cup {Self} /\ db \subseteq Foreign \cup {Self}
  /\ heap \subseteq Buffers /\ invalidFrees \subseteq Buffers
  /\ pc \in Pcs /\ key \in Files
  /\ private \in [data : Pointers, FileContext : Pointers, SignatureGUID : Pointers]
  /\ X509Data \in Pointers /\ list \in Pointers
  /\ append \in BOOLEAN

\* boot_self_signed has found the machine in setup mode.
Init ==
  /\ pk = NoKey
  /\ kek \in SUBSET Foreign /\ db \in SUBSET Foreign
  /\ heap = {} /\ invalidFrees = {}
  /\ pc = "begin" /\ key = "DB"
  /\ private = [data |-> NULL, FileContext |-> NULL, SignatureGUID |-> NULL]
  /\ X509Data = NULL /\ list = NULL /\ append = FALSE

-----------------------------------------------------------------------------
\* FreePool of the buffers in bs, NULL left out by the callers' tests.
FreePools(bs) ==
  LET real == bs \ {NULL}
  IN /\ heap' = heap \ real
     /\ invalidFrees' = invalidFrees \cup (real \ heap)

(* tp_UDKenv.c *)

\* AllocateCopyPool allocates and fills a copy, and returns its argument.
tp_begin_enroll_keys ==
  /\ pc = "begin"
  /\ heap' \in {heap, heap \cup {Copy}}
  /\ private' = [private EXCEPT !.data = Template]
  /\ pc' = "FileContext"
  /\ UNCHANGED <<keyVars, invalidFrees, key, localVars>>

tp_begin_enroll_keys_FileContext ==
  /\ pc = "FileContext"
  /\ \/ /\ heap' = heap \cup {FileContext}
        /\ private' = [private EXCEPT !.FileContext = FileContext]
        /\ pc' = "SignatureGUID"
        /\ UNCHANGED invalidFrees
     \/ /\ FreePools({private.data})
        /\ private' = [private EXCEPT !.data = NULL]
        /\ pc' = "failed"
  /\ UNCHANGED <<keyVars, key, localVars>>

tp_begin_enroll_keys_SignatureGUID ==
  /\ pc = "SignatureGUID"
  /\ \/ /\ heap' = heap \cup {Guid}
        /\ private' = [private EXCEPT !.SignatureGUID = Guid]
        /\ pc' = "ReadFileContent"
        /\ UNCHANGED invalidFrees
     \/ /\ FreePools({FileContext, private.data})
        /\ private' = [private EXCEPT !.data = NULL]
        /\ pc' = "failed"
  /\ UNCHANGED <<keyVars, key, localVars>>

tp_end_enroll_keys ==
  /\ pc = "end"
  /\ FreePools({private.FileContext, private.SignatureGUID, private.data})
  /\ private' = [data |-> NULL, FileContext |-> NULL, SignatureGUID |-> NULL]
  /\ pc' = "done"
  /\ UNCHANGED <<keyVars, key, localVars>>

(* SecureBootConfigMisc.c and SecureBootConfigImpl.c *)

\* Mutant: nothing but the list is freed.
ON_EXIT_ListOnly(status, buffers) ==
  /\ FreePools({list})
  /\ X509Data' = NULL /\ list' = NULL /\ append' = FALSE
  /\ \/ status = "error" /\ pc' = "failed" /\ UNCHANGED key
     \/ status = "success" /\ key = "DB" /\ pc' = "ReadFileContent" /\ key' = "KEK"
     \/ status = "success" /\ key = "KEK" /\ pc' = "ReadFileContent" /\ key' = "PK"
     \/ status = "success" /\ key = "PK" /\ pc' = "end" /\ UNCHANGED key

\* The ON_EXIT of the enrolment functions: all free the list; for db and PK
\* the content of the file is freed too, for KEK it is not.
ON_EXIT(status, buffers) ==
  LET next == CASE key = "DB" -> "KEK" [] OTHER -> "PK"
  IN /\ FreePools(IF key = "KEK" THEN buffers \ {X509Data} ELSE buffers)
     /\ X509Data' = NULL /\ list' = NULL /\ append' = FALSE
     /\ \/ status = "error" /\ pc' = "failed" /\ UNCHANGED key
        \/ status = "success" /\ key # "PK" /\ pc' = "ReadFileContent" /\ key' = next
        \/ status = "success" /\ key = "PK" /\ pc' = "end" /\ UNCHANGED key

\* A buffer a failing ReadFileContent allocated is freed before it returns.
ReadFileContent ==
  /\ pc = "ReadFileContent"
  /\ \/ /\ heap' = heap \cup {Buf("X509Data", key)}
        /\ X509Data' = Buf("X509Data", key)
        /\ pc' = "list"
        /\ UNCHANGED <<invalidFrees, key, list, append>>
     \/ ON_EXIT("error", {X509Data, list})
  /\ UNCHANGED <<keyVars, private>>

\* Mutant: the file's content is freed early for every key.
CreateSignatureList_FreesContent ==
  /\ pc = "list"
  /\ list' = Buf("list", key)
  /\ heap' = (heap \cup {Buf("list", key)}) \ {X509Data}
  /\ pc' = "CreateTimeBasedPayload"
  /\ UNCHANGED <<keyVars, private, invalidFrees, key, X509Data, append>>

\* CreatePkX509SignatureList frees the file's content, the others keep it.
CreateSignatureList ==
  /\ pc = "list"
  /\ \/ /\ list' = Buf("list", key)
        /\ heap' = (heap \cup {Buf("list", key)})
                     \ (IF key = "PK" THEN {X509Data} ELSE {})
        /\ X509Data' = IF key = "PK" THEN NULL ELSE X509Data
        /\ pc' = "CreateTimeBasedPayload"
        /\ UNCHANGED <<invalidFrees, key, append>>
     \/ ON_EXIT("error", {X509Data, list})
  /\ UNCHANGED <<keyVars, private>>

\* Mutant: the bare list is freed, the pointer to it stays.
CreateTimeBasedPayload_KeepsPointer ==
  /\ pc = "CreateTimeBasedPayload"
  /\ heap' = (heap \cup {Buf("payload", key)}) \ {list}
  /\ pc' = IF key = "PK" THEN "SetVariable" ELSE "GetVariable"
  /\ UNCHANGED <<keyVars, private, invalidFrees, key, localVars>>

\* The wrapped list replaces the bare one, which is freed last, when no
\* call is left that can fail.
CreateTimeBasedPayload ==
  /\ pc = "CreateTimeBasedPayload"
  /\ \/ /\ heap' = (heap \cup {Buf("payload", key)}) \ {list}
        /\ list' = Buf("payload", key)
        /\ pc' = IF key = "PK" THEN "SetVariable" ELSE "GetVariable"
        /\ UNCHANGED <<invalidFrees, key, X509Data, append>>
     \/ ON_EXIT("error", {X509Data, list})
  /\ UNCHANGED <<keyVars, private>>

\* The variable the signature list of the current key goes to.
Signatures == IF key = "DB" THEN db ELSE kek

\* An answer that is neither "too small" nor "not found" ends the enrolment.
GetVariable ==
  /\ pc = "GetVariable"
  /\ \/ /\ append' = (Signatures # {})
        /\ pc' = "SetVariable"
        /\ UNCHANGED <<poolVars, key, X509Data, list>>
     \/ ON_EXIT("error", {X509Data, list})
  /\ UNCHANGED <<keyVars, private>>

\* Mutant: EFI_VARIABLE_APPEND_WRITE is never set.
Written_NoAppend(old) == {Self}

Written(old) == IF append THEN old \cup {Self} ELSE {Self}

SetVariable ==
  /\ pc = "SetVariable"
  /\ \/ /\ \/ key = "DB"  /\ db' = Written(db)   /\ UNCHANGED <<pk, kek>>
           \/ key = "KEK" /\ kek' = Written(kek) /\ UNCHANGED <<pk, db>>
           \/ key = "PK"  /\ pk' = Self          /\ UNCHANGED <<kek, db>>
        /\ ON_EXIT("success", {X509Data, list})
     \/ ON_EXIT("error", {X509Data, list}) /\ UNCHANGED keyVars
  /\ UNCHANGED private

Next ==
  \/ tp_begin_enroll_keys \/ tp_begin_enroll_keys_FileContext
  \/ tp_begin_enroll_keys_SignatureGUID
  \/ ReadFileContent \/ CreateSignatureList \/ CreateTimeBasedPayload
  \/ GetVariable \/ SetVariable
  \/ tp_end_enroll_keys

Spec == Init /\ [][Next]_vars

-----------------------------------------------------------------------------
(* What must hold. *)

Owned == {private.data, private.FileContext, private.SignatureGUID,
          X509Data, list} \ {NULL, Template}

(* Every pointer of the session owns a live buffer: no path of the many    *)
(* that leave an enrolment function keeps using what another one freed.    *)
(* The exception is where tp_begin_enroll_keys gives up: the pointer to    *)
(* the context it has freed stays in the template.                         *)
PointersLive == pc # "failed" => Owned \subseteq heap

(* Nothing is handed to FreePool twice; the only invalid argument is the   *)
(* static template that tp_begin_enroll_keys takes for its copy.           *)
NoDoubleFree == invalidFrees \subseteq {Template}

(* After a session that succeeded, the pool holds nothing but the copy     *)
(* AllocateCopyPool loses and the KEK file's content EnrollX509ToKek never *)
(* frees; after one that failed in the enrolment, besides, only the two    *)
(* buffers tp_begin_enroll_keys has made and tp_end_enroll_keys, which the *)
(* error path does not come to, would free.                                *)
OnlyKnownLeaks ==
  /\ pc = "done" => heap \subseteq {Copy, Buf("X509Data", "KEK")}
  /\ (pc = "failed" /\ private.SignatureGUID # NULL)
       => heap \subseteq {Copy, Buf("X509Data", "KEK"), FileContext, Guid}

(* The session, with all its failures, makes KeyStore's steps only: the    *)
(* certificates go in from the bottom of the chain and nothing is lost.    *)
KeyStorePromise == Store!StoreSpec

\* tp_UDKenv.c tests what AllocateCopyPool returns and reports
\* "AllocateCopyPool() failed.": a session past that test has its copy.
CopyFailureReported == private.data # NULL => Copy \in heap
=============================================================================
