---------------------------- MODULE Enroll_proofs -----------------------------
(***************************************************************************)
(* Enroll for every set of foreign certificates, with every call able to   *)
(* fail: what each pointer owns at each step of the session decides which  *)
(* buffers are live, freed and lost, and the steps are KeyStore's.         *)
(***************************************************************************)
EXTENDS Enroll, TLAPS

\* The steps of the enrolment functions.
Enrolling == {"ReadFileContent", "list", "CreateTimeBasedPayload", "GetVariable",
              "SetVariable"}

\* What outlives an enrolment function.
Outlive == {Copy, FileContext, Guid, Buf("X509Data", "KEK")}

\* The template gets its fields one by one, and loses them together.
PrivateHolds ==
  /\ pc \in {"begin", "done"} => private = [data |-> NULL, FileContext |-> NULL,
                                            SignatureGUID |-> NULL]
  /\ pc = "FileContext" => private = [data |-> Template, FileContext |-> NULL,
                                      SignatureGUID |-> NULL]
  /\ pc = "SignatureGUID" => private = [data |-> Template, FileContext |-> FileContext,
                                        SignatureGUID |-> NULL]
  /\ pc \in Enrolling \cup {"end"}
       => private = [data |-> Template, FileContext |-> FileContext, SignatureGUID |-> Guid]

\* The pool of the session's own buffers, and nothing of the certificates'.
PoolHolds ==
  /\ heap \subseteq Buffers \ {Template}
  /\ pc = "begin" => heap = {}
  /\ pc = "FileContext" => heap \subseteq {Copy}
  /\ pc = "SignatureGUID" => FileContext \in heap /\ heap \subseteq {Copy, FileContext}
  /\ pc \in Enrolling \cup {"end"}
       => /\ FileContext \in heap /\ Guid \in heap
          /\ heap \subseteq Outlive \cup {X509Data, list}
  /\ pc = "done" => heap \subseteq {Copy, Buf("X509Data", "KEK")}
  /\ (pc = "failed" /\ private.SignatureGUID # NULL) => heap \subseteq Outlive

\* The two locals own what the current key needs, or nothing.
LocalsHold ==
  /\ X509Data \in {NULL, Buf("X509Data", key)}
  /\ list \in {NULL, Buf("list", key), Buf("payload", key)}
  /\ X509Data # NULL => X509Data \in heap
  /\ list # NULL => list \in heap
  /\ pc \notin Enrolling \ {"ReadFileContent"} => X509Data = NULL
  /\ pc \notin {"CreateTimeBasedPayload", "GetVariable", "SetVariable"} => list = NULL
  /\ pc = "CreateTimeBasedPayload" => list = Buf("list", key)

\* The certificates go in from the bottom, and none over others.
OrderHolds ==
  /\ pc \in Enrolling => /\ pk = NoKey
                         /\ key # "DB" => Self \in db
                         /\ key = "PK" => Self \in kek
  /\ pc \notin Enrolling \cup {"end", "done", "failed"} => pk = NoKey /\ key = "DB"
  /\ (pc = "SetVariable" /\ key # "PK" /\ append = FALSE) => Signatures = {}

MemoryHolds == PrivateHolds /\ PoolHolds /\ LocalsHold

IInv == TypeOK /\ NoDoubleFree /\ MemoryHolds /\ OrderHolds

-----------------------------------------------------------------------------
\* Buffers with different names are different.
LEMMA Apart ==
  ASSUME NEW k \in Files, NEW w \in {"X509Data", "list", "payload"}
  PROVE  Buf(w, k) \in Buffers \ {Template, Copy, FileContext, Guid}
  <1>1. Buf(w, k) \in Buffers
    BY DEF Buffers
  <1>2. Buf(w, k) \notin {Template, Copy, FileContext, Guid}
    BY DEF Buf, Template, Copy, FileContext, Guid
  <1> QED
    BY <1>1, <1>2

\* The names of the buffers differ.
LEMMA Fixed ==
  /\ Template \notin {Copy, FileContext, Guid}
  /\ Copy \notin {FileContext, Guid}
  /\ FileContext # Guid
  /\ {Template, Copy, FileContext, Guid} \subseteq Buffers
  BY DEF Buf, Buffers, Template, Copy, FileContext, Guid

\* No buffer is NULL.
LEMMA NullApart == NULL \notin Buffers
  BY NullAssumption

\* The session starts in the invariant.
LEMMA InitIInv == Init => IInv
  <1> SUFFICES ASSUME Init PROVE IInv
    OBVIOUS
  <1>1. TypeOK
    BY DEF Init, TypeOK, Pcs, Files, Pointers
  <1>2. NoDoubleFree
    BY DEF Init, NoDoubleFree
  <1>3. MemoryHolds
    BY DEF Init, MemoryHolds, PrivateHolds, PoolHolds, LocalsHold, Enrolling
  <1>4. OrderHolds
    BY DEF Init, OrderHolds, Enrolling
  <1> QED
    BY <1>1, <1>2, <1>3, <1>4 DEF IInv

-----------------------------------------------------------------------------
\* The three steps of tp_begin_enroll_keys and the one of tp_end_enroll_keys.
LEMMA BeginTypes ==
  ASSUME IInv, \/ tp_begin_enroll_keys \/ tp_begin_enroll_keys_FileContext
               \/ tp_begin_enroll_keys_SignatureGUID \/ tp_end_enroll_keys
  PROVE  TypeOK'
  <1>1. /\ UNCHANGED <<pk, kek, db, key, X509Data, list, append>>
        /\ pc' \in Pcs
    BY DEF tp_begin_enroll_keys, tp_begin_enroll_keys_FileContext,
           tp_begin_enroll_keys_SignatureGUID, tp_end_enroll_keys, keyVars, localVars, Pcs
  <1>2. heap' \subseteq Buffers /\ invalidFrees' \subseteq Buffers
    BY Fixed DEF tp_begin_enroll_keys, tp_begin_enroll_keys_FileContext,
           tp_begin_enroll_keys_SignatureGUID, tp_end_enroll_keys, FreePools, IInv, TypeOK,
           Pointers
  <1>3. private' \in [data : Pointers, FileContext : Pointers, SignatureGUID : Pointers]
    BY Fixed DEF tp_begin_enroll_keys, tp_begin_enroll_keys_FileContext,
           tp_begin_enroll_keys_SignatureGUID, tp_end_enroll_keys, IInv, TypeOK, Pointers
  <1> QED
    BY <1>1, <1>2, <1>3 DEF IInv, TypeOK

\* tp_begin_enroll_keys keeps the invariant.
LEMMA BeginIInv ==
  ASSUME IInv, tp_begin_enroll_keys
  PROVE  IInv'
  <1>1. TypeOK'
    BY BeginTypes
  <1>2. /\ pc = "begin" /\ pc' = "FileContext" /\ heap = {}
        /\ heap' \subseteq {Copy} /\ invalidFrees' = invalidFrees
        /\ UNCHANGED <<pk, kek, db, key, X509Data, list, append>>
    BY DEF tp_begin_enroll_keys, IInv, MemoryHolds, PoolHolds, keyVars, localVars
  <1>3. PrivateHolds'
    BY <1>2 DEF tp_begin_enroll_keys, IInv, MemoryHolds, PrivateHolds, Enrolling
  <1>4. PoolHolds'
    BY <1>2, Fixed DEF PoolHolds, Enrolling
  <1>5. LocalsHold'
    BY <1>2 DEF IInv, MemoryHolds, LocalsHold, Enrolling
  <1>6. OrderHolds'
    BY <1>2 DEF IInv, OrderHolds, Enrolling
  <1> QED
    BY <1>1, <1>2, <1>3, <1>4, <1>5, <1>6 DEF IInv, MemoryHolds, NoDoubleFree

\* A failing allocation frees the template, which was never allocated.
LEMMA FileContextIInv ==
  ASSUME IInv, tp_begin_enroll_keys_FileContext
  PROVE  IInv'
  <1>1. TypeOK'
    BY BeginTypes
  <1>2. /\ pc = "FileContext" /\ heap \subseteq {Copy}
        /\ private = [data |-> Template, FileContext |-> NULL, SignatureGUID |-> NULL]
        /\ UNCHANGED <<pk, kek, db, key, X509Data, list, append>>
        /\ X509Data = NULL /\ list = NULL
    BY DEF tp_begin_enroll_keys_FileContext, IInv, MemoryHolds, PrivateHolds, PoolHolds,
           LocalsHold, Enrolling, keyVars, localVars
  <1>3. \/ /\ pc' = "SignatureGUID" /\ heap' = heap \cup {FileContext}
           /\ invalidFrees' = invalidFrees
           /\ private' = [private EXCEPT !.FileContext = FileContext]
        \/ /\ pc' = "failed" /\ heap' \subseteq heap
           /\ invalidFrees' \subseteq invalidFrees \cup {Template}
           /\ private' = [private EXCEPT !.data = NULL]
    BY <1>2 DEF tp_begin_enroll_keys_FileContext, FreePools
  <1>4. PrivateHolds'
    BY <1>2, <1>3 DEF PrivateHolds, Enrolling
  <1>5. PoolHolds'
    BY <1>2, <1>3, Fixed DEF PoolHolds, Enrolling
  <1>6. LocalsHold'
    BY <1>2, <1>3 DEF LocalsHold
  <1>7. OrderHolds' /\ NoDoubleFree'
    BY <1>2, <1>3 DEF IInv, OrderHolds, NoDoubleFree, Enrolling
  <1> QED
    BY <1>1, <1>4, <1>5, <1>6, <1>7 DEF IInv, MemoryHolds

\* So does the choice of the signature owner,
LEMMA SignatureGUIDIInv ==
  ASSUME IInv, tp_begin_enroll_keys_SignatureGUID
  PROVE  IInv'
  <1>1. TypeOK'
    BY BeginTypes
  <1>2. /\ pc = "SignatureGUID" /\ heap \subseteq {Copy, FileContext} /\ FileContext \in heap
        /\ private = [data |-> Template, FileContext |-> FileContext, SignatureGUID |-> NULL]
        /\ UNCHANGED <<pk, kek, db, key, X509Data, list, append>>
        /\ X509Data = NULL /\ list = NULL
        /\ pk = NoKey /\ key = "DB"
    BY DEF tp_begin_enroll_keys_SignatureGUID, IInv, MemoryHolds, PrivateHolds, PoolHolds,
           LocalsHold, OrderHolds, Enrolling, keyVars, localVars
  <1>3. \/ /\ pc' = "ReadFileContent" /\ heap' = heap \cup {Guid}
           /\ invalidFrees' = invalidFrees
           /\ private' = [private EXCEPT !.SignatureGUID = Guid]
        \/ /\ pc' = "failed" /\ heap' \subseteq heap
           /\ invalidFrees' \subseteq invalidFrees \cup {Template}
           /\ private' = [private EXCEPT !.data = NULL]
    BY <1>2 DEF tp_begin_enroll_keys_SignatureGUID, FreePools
  <1>4. PrivateHolds'
    BY <1>2, <1>3 DEF PrivateHolds, Enrolling
  <1>5. PoolHolds'
    BY <1>2, <1>3, Fixed DEF PoolHolds, Enrolling, Outlive
  <1>6. LocalsHold'
    BY <1>2, <1>3 DEF LocalsHold
  <1>7. OrderHolds' /\ NoDoubleFree'
    BY <1>2, <1>3 DEF IInv, OrderHolds, NoDoubleFree, Enrolling
  <1> QED
    BY <1>1, <1>4, <1>5, <1>6, <1>7 DEF IInv, MemoryHolds

\* tp_end_enroll_keys,
LEMMA EndIInv ==
  ASSUME IInv, tp_end_enroll_keys
  PROVE  IInv'
  <1>1. TypeOK'
    BY BeginTypes
  <1>2. /\ pc = "end" /\ pc' = "done"
        /\ private = [data |-> Template, FileContext |-> FileContext, SignatureGUID |-> Guid]
        /\ UNCHANGED <<pk, kek, db, key, X509Data, list, append>>
        /\ X509Data = NULL /\ list = NULL
        /\ FileContext \in heap /\ Guid \in heap
        /\ heap \subseteq Buffers \ {Template} /\ heap \subseteq Outlive \cup {NULL}
    BY DEF tp_end_enroll_keys, IInv, MemoryHolds, PrivateHolds, PoolHolds,
           LocalsHold, Enrolling, keyVars, localVars
  <1>3. /\ heap' = heap \ {FileContext, Guid}
        /\ invalidFrees' = invalidFrees \cup {Template}
    BY <1>2, Fixed, NullApart DEF tp_end_enroll_keys, FreePools
  <1>4. PrivateHolds'
    BY <1>2 DEF tp_end_enroll_keys, PrivateHolds, Enrolling
  <1>5. PoolHolds'
    BY <1>2, <1>3, NullApart DEF PoolHolds, Enrolling, Outlive
  <1>6. LocalsHold'
    BY <1>2 DEF LocalsHold
  <1>7. OrderHolds' /\ NoDoubleFree'
    BY <1>2, <1>3 DEF IInv, OrderHolds, NoDoubleFree, Enrolling
  <1> QED
    BY <1>1, <1>4, <1>5, <1>6, <1>7 DEF IInv, MemoryHolds

-----------------------------------------------------------------------------
\* What holds inside the enrolment functions.
LEMMA EnrollingFacts ==
  ASSUME IInv, pc \in Enrolling
  PROVE  /\ private = [data |-> Template, FileContext |-> FileContext, SignatureGUID |-> Guid]
         /\ FileContext \in heap /\ Guid \in heap
         /\ heap \subseteq Buffers \ {Template}
         /\ heap \subseteq Outlive \cup {X509Data, list}
         /\ X509Data \in {NULL, Buf("X509Data", key)}
         /\ list \in {NULL, Buf("list", key), Buf("payload", key)}
         /\ X509Data # NULL => X509Data \in heap
         /\ list # NULL => list \in heap
         /\ key \in Files
  BY DEF IInv, MemoryHolds, PrivateHolds, PoolHolds, LocalsHold, TypeOK, Enrolling

\* ON_EXIT frees what the function allocated, or all but KEK's file.
LEMMA ExitIInv ==
  ASSUME IInv, pc \in Enrolling, private' = private,
         NEW status \in {"error", "success"}, ON_EXIT(status, {X509Data, list})
  PROVE  NoDoubleFree' /\ MemoryHolds'
  <1> USE EnrollingFacts
  <1>1. /\ heap' \subseteq heap \ {list}
        /\ key # "KEK" => X509Data \notin heap'
        /\ heap \ {X509Data, list} \subseteq heap'
        /\ invalidFrees' = invalidFrees
    <2> DEFINE real == (IF key = "KEK" THEN {X509Data, list} \ {X509Data}
                        ELSE {X509Data, list}) \ {NULL}
    <2>1. heap' = heap \ real /\ invalidFrees' = invalidFrees \cup (real \ heap)
      BY DEF ON_EXIT, FreePools
    <2>2. real \subseteq heap /\ real \subseteq {X509Data, list}
      OBVIOUS
    <2>3. list \notin heap \ real
      <3>1. CASE list = NULL
        BY <3>1, NullApart
      <3>2. CASE list # NULL
        <4>1. list # X509Data
          BY <3>2 DEF Buf
        <4> QED
          BY <3>2, <4>1
      <3> QED
        BY <3>1, <3>2
    <2>4. key # "KEK" => X509Data \notin heap \ real
      BY NullApart
    <2> QED
      BY <2>1, <2>2, <2>3, <2>4
  <1>2. heap' \subseteq Outlive
    <2>1. CASE key = "KEK"
      BY <1>1, <2>1, NullApart DEF Outlive
    <2>2. CASE key # "KEK"
      BY <1>1, <2>2
    <2> QED
      BY <2>1, <2>2
  <1>3. FileContext \in heap' /\ Guid \in heap'
    <2>1. FileContext \notin {X509Data, list} /\ Guid \notin {X509Data, list}
      BY Apart, Fixed, NullApart
    <2> QED
      BY <1>1, <2>1
  <1>4. /\ X509Data' = NULL /\ list' = NULL
        /\ pc' \in {"failed", "ReadFileContent", "end"}
    BY DEF ON_EXIT
  <1>5. PrivateHolds'
    BY <1>4 DEF PrivateHolds, Enrolling
  <1>6. PoolHolds'
    <2>1. heap' \subseteq Buffers \ {Template}
      BY <1>1
    <2> QED
      BY <1>2, <1>3, <1>4, <2>1 DEF PoolHolds, Enrolling
  <1>7. LocalsHold'
    BY <1>4 DEF LocalsHold
  <1>8. NoDoubleFree'
    BY <1>1 DEF IInv, NoDoubleFree
  <1> QED
    BY <1>5, <1>6, <1>7, <1>8 DEF MemoryHolds

\* Types and order after an ON_EXIT that wrote nothing.
LEMMA ErrorIInv ==
  ASSUME IInv, pc \in Enrolling, private' = private, UNCHANGED keyVars,
         ON_EXIT("error", {X509Data, list})
  PROVE  IInv'
  <1>1. NoDoubleFree' /\ MemoryHolds'
    BY ExitIInv
  <1>2. /\ pc' = "failed" /\ X509Data' = NULL /\ list' = NULL /\ append' = FALSE
        /\ key' = key /\ pk' = pk /\ kek' = kek /\ db' = db
    BY DEF ON_EXIT, keyVars
  <1>3. heap' \subseteq Buffers /\ invalidFrees' \subseteq Buffers
    BY <1>1, Fixed DEF MemoryHolds, PoolHolds, NoDoubleFree
  <1>4. TypeOK'
    BY <1>2, <1>3 DEF IInv, TypeOK, Pcs, Pointers
  <1>5. OrderHolds'
    BY <1>2 DEF OrderHolds, Enrolling
  <1> QED
    BY <1>1, <1>4, <1>5 DEF IInv

\* the reading of a certificate file,
LEMMA ReadIInv ==
  ASSUME IInv, ReadFileContent
  PROVE  IInv'
  <1>1. pc = "ReadFileContent" /\ pc \in Enrolling /\ UNCHANGED keyVars /\ private' = private
    BY DEF ReadFileContent, Enrolling
  <1>2. CASE ON_EXIT("error", {X509Data, list})
    BY <1>1, <1>2, ErrorIInv
  <1>3. CASE ~ON_EXIT("error", {X509Data, list})
    <2>1. /\ heap' = heap \cup {Buf("X509Data", key)} /\ X509Data' = Buf("X509Data", key)
          /\ pc' = "list" /\ UNCHANGED <<invalidFrees, key, list, append>>
      BY <1>3 DEF ReadFileContent
    <2>2. X509Data = NULL /\ list = NULL
      BY <1>1 DEF IInv, MemoryHolds, LocalsHold
    <2>3. Buf("X509Data", key) \in Buffers \ {Template} /\ NULL \notin Buffers
      BY <1>1, EnrollingFacts, Apart, NullApart
    <2>4. TypeOK'
      BY <1>1, <2>1, <2>3 DEF IInv, TypeOK, Pcs, Pointers, keyVars
    <2>5. PrivateHolds'
      BY <1>1, <2>1, EnrollingFacts DEF PrivateHolds, Enrolling
    <2>6. PoolHolds'
      BY <1>1, <2>1, <2>2, <2>3, EnrollingFacts DEF PoolHolds, Enrolling
    <2>7. LocalsHold'
      BY <1>1, <2>1, <2>2, <2>3 DEF LocalsHold, Enrolling
    <2>8. OrderHolds' /\ NoDoubleFree'
      BY <1>1, <2>1 DEF IInv, OrderHolds, NoDoubleFree, Enrolling, keyVars
    <2> QED
      BY <2>4, <2>5, <2>6, <2>7, <2>8 DEF IInv, MemoryHolds
  <1> QED
    BY <1>2, <1>3

\* the allocation of the signature list,
LEMMA ListIInv ==
  ASSUME IInv, CreateSignatureList
  PROVE  IInv'
  <1>1. pc = "list" /\ pc \in Enrolling /\ UNCHANGED keyVars /\ private' = private
    BY DEF CreateSignatureList, Enrolling
  <1>2. CASE ON_EXIT("error", {X509Data, list})
    BY <1>1, <1>2, ErrorIInv
  <1>3. CASE ~ON_EXIT("error", {X509Data, list})
    <2>1. /\ list' = Buf("list", key)
          /\ heap' = (heap \cup {Buf("list", key)}) \ (IF key = "PK" THEN {X509Data} ELSE {})
          /\ X509Data' = (IF key = "PK" THEN NULL ELSE X509Data)
          /\ pc' = "CreateTimeBasedPayload" /\ UNCHANGED <<invalidFrees, key, append>>
      BY <1>3 DEF CreateSignatureList
    <2>2. list = NULL
      BY <1>1 DEF IInv, MemoryHolds, LocalsHold
    <2>3. Buf("list", key) \in Buffers \ {Template, Copy, FileContext, Guid}
      BY <1>1, EnrollingFacts, Apart
    <2>4. X509Data \notin {FileContext, Guid, Buf("list", key)}
      <3>1. Buf("X509Data", key) \in Buffers \ {FileContext, Guid}
        BY <1>1, EnrollingFacts, Apart
      <3>2. Buf("X509Data", key) # Buf("list", key)
        BY DEF Buf
      <3> QED
        BY <1>1, <2>3, <3>1, <3>2, EnrollingFacts, Fixed, NullApart
    <2>5. TypeOK'
      <3>1. heap' \subseteq Buffers /\ list' \in Pointers /\ X509Data' \in Pointers
        BY <2>1, <2>3 DEF IInv, TypeOK, Pointers
      <3> QED
        BY <1>1, <2>1, <3>1 DEF IInv, TypeOK, Pcs, keyVars
    <2>6. PrivateHolds'
      BY <1>1, <2>1, EnrollingFacts DEF PrivateHolds, Enrolling
    <2>7. PoolHolds'
      <3>1. heap' \subseteq Buffers \ {Template}
        BY <1>1, <2>1, <2>3, EnrollingFacts
      <3>2. FileContext \in heap' /\ Guid \in heap'
        BY <1>1, <2>1, <2>4, EnrollingFacts
      <3>3. heap' \subseteq Outlive \cup {X509Data', list'}
        <4>1. heap \subseteq Outlive \cup {X509Data} \cup {NULL}
          BY <1>1, <2>2, EnrollingFacts
        <4> QED
          BY <2>1, <3>1, <4>1, NullApart
      <3> QED
        BY <2>1, <3>1, <3>2, <3>3 DEF PoolHolds, Enrolling
    <2>8. LocalsHold'
      BY <1>1, <2>1, <2>4, EnrollingFacts DEF LocalsHold, Enrolling
    <2>9. OrderHolds' /\ NoDoubleFree'
      BY <1>1, <2>1 DEF IInv, OrderHolds, NoDoubleFree, Enrolling, keyVars
    <2> QED
      BY <2>5, <2>6, <2>7, <2>8, <2>9 DEF IInv, MemoryHolds
  <1> QED
    BY <1>2, <1>3

\* that of the time-based payload,
LEMMA PayloadIInv ==
  ASSUME IInv, CreateTimeBasedPayload
  PROVE  IInv'
  <1>1. /\ pc = "CreateTimeBasedPayload" /\ pc \in Enrolling
        /\ UNCHANGED keyVars /\ private' = private
    BY DEF CreateTimeBasedPayload, Enrolling
  <1>2. CASE ON_EXIT("error", {X509Data, list})
    BY <1>1, <1>2, ErrorIInv
  <1>3. CASE ~ON_EXIT("error", {X509Data, list})
    <2>1. /\ heap' = (heap \cup {Buf("payload", key)}) \ {list}
          /\ list' = Buf("payload", key)
          /\ pc' \in {"SetVariable", "GetVariable"}
          /\ pc' = "SetVariable" => key = "PK"
          /\ UNCHANGED <<invalidFrees, key, X509Data, append>>
      BY <1>3 DEF CreateTimeBasedPayload
    <2>2. list = Buf("list", key)
      BY <1>1 DEF IInv, MemoryHolds, LocalsHold
    <2>3. Buf("payload", key) \in Buffers \ {Template, Copy, FileContext, Guid}
      BY <1>1, EnrollingFacts, Apart
    <2>4. list \notin {FileContext, Guid, X509Data, Buf("payload", key)}
      <3>1. Buf("list", key) \in Buffers \ {FileContext, Guid}
        BY <1>1, EnrollingFacts, Apart
      <3>2. Buf("list", key) \notin {Buf("X509Data", key), Buf("payload", key)}
        BY DEF Buf
      <3> QED
        BY <1>1, <2>2, <3>1, <3>2, EnrollingFacts, NullApart
    <2>5. TypeOK'
      <3>1. heap' \subseteq Buffers /\ list' \in Pointers
        BY <2>1, <2>3 DEF IInv, TypeOK, Pointers
      <3> QED
        BY <1>1, <2>1, <3>1 DEF IInv, TypeOK, Pcs, keyVars
    <2>6. PrivateHolds'
      BY <1>1, <2>1, EnrollingFacts DEF PrivateHolds, Enrolling
    <2>7. PoolHolds'
      <3>1. heap' \subseteq Buffers \ {Template}
        BY <1>1, <2>1, <2>3, EnrollingFacts
      <3>2. FileContext \in heap' /\ Guid \in heap'
        BY <1>1, <2>1, <2>4, EnrollingFacts
      <3>3. heap' \subseteq Outlive \cup {X509Data', list'}
        BY <1>1, <2>1, EnrollingFacts
      <3> QED
        BY <2>1, <3>1, <3>2, <3>3 DEF PoolHolds, Enrolling
    <2>8. LocalsHold'
      BY <1>1, <2>1, <2>4, EnrollingFacts DEF LocalsHold, Enrolling
    <2>9. OrderHolds' /\ NoDoubleFree'
      BY <1>1, <2>1 DEF IInv, OrderHolds, NoDoubleFree, Enrolling, keyVars
    <2> QED
      BY <2>5, <2>6, <2>7, <2>8, <2>9 DEF IInv, MemoryHolds
  <1> QED
    BY <1>2, <1>3

\* the question whether the variable is there,
LEMMA GetIInv ==
  ASSUME IInv, GetVariable
  PROVE  IInv'
  <1>1. pc = "GetVariable" /\ pc \in Enrolling /\ UNCHANGED keyVars /\ private' = private
    BY DEF GetVariable, Enrolling
  <1>2. CASE ON_EXIT("error", {X509Data, list})
    BY <1>1, <1>2, ErrorIInv
  <1>3. CASE ~ON_EXIT("error", {X509Data, list})
    <2>1. /\ append' = (Signatures # {}) /\ pc' = "SetVariable"
          /\ UNCHANGED <<heap, invalidFrees, key, X509Data, list>>
          /\ UNCHANGED <<pk, kek, db>>
      BY <1>1, <1>3 DEF GetVariable, poolVars, keyVars
    <2>2. append' \in BOOLEAN
      BY <2>1
    <2>3. TypeOK'
      BY <1>1, <2>1, <2>2 DEF IInv, TypeOK, Pcs
    <2>4. PrivateHolds'
      BY <1>1, <2>1, EnrollingFacts DEF PrivateHolds, Enrolling
    <2>5. PoolHolds'
      BY <1>1, <2>1, EnrollingFacts DEF PoolHolds, Enrolling
    <2>6. LocalsHold'
      BY <1>1, <2>1, EnrollingFacts DEF LocalsHold, Enrolling
    <2>7. append' = FALSE => Signatures' = {}
      BY <2>1 DEF Signatures
    <2>8. OrderHolds' /\ NoDoubleFree'
      BY <1>1, <2>1, <2>7 DEF IInv, OrderHolds, NoDoubleFree, Enrolling
    <2> QED
      BY <2>3, <2>4, <2>5, <2>6, <2>8 DEF IInv, MemoryHolds
  <1> QED
    BY <1>2, <1>3

\* A new variable is written, or the certificate is added to an old one.
LEMMA WrittenAdds ==
  ASSUME IInv, pc = "SetVariable", key # "PK"
  PROVE  Written(Signatures) = Signatures \cup {Self}
  <1>1. CASE append = FALSE
    <2>1. Signatures = {}
      BY <1>1 DEF IInv, OrderHolds
    <2> QED
      BY <1>1, <2>1 DEF Written
  <1>2. CASE append = TRUE
    BY <1>2 DEF Written
  <1>3. append \in BOOLEAN
    BY DEF IInv, TypeOK
  <1> QED
    BY <1>1, <1>2, <1>3

\* The write of a key is KeyStore's, and the next key's turn comes after it.
LEMMA SetSucceeds ==
  ASSUME IInv, SetVariable, ~ON_EXIT("error", {X509Data, list})
  PROVE  /\ ON_EXIT("success", {X509Data, list}) /\ private' = private
         /\ \/ /\ key = "DB" /\ db' = db \cup {Self} /\ pk' = pk /\ kek' = kek
               /\ key' = "KEK" /\ pc' = "ReadFileContent"
            \/ /\ key = "KEK" /\ kek' = kek \cup {Self} /\ pk' = pk /\ db' = db
               /\ key' = "PK" /\ pc' = "ReadFileContent"
            \/ /\ key = "PK" /\ pk' = Self /\ kek' = kek /\ db' = db
               /\ key' = "PK" /\ pc' = "end"
  <1>1. ON_EXIT("success", {X509Data, list}) /\ private' = private
    BY DEF SetVariable
  <1>2. \/ key = "DB"  /\ db' = Written(db)   /\ UNCHANGED <<pk, kek>>
        \/ key = "KEK" /\ kek' = Written(kek) /\ UNCHANGED <<pk, db>>
        \/ key = "PK"  /\ pk' = Self          /\ UNCHANGED <<kek, db>>
    BY DEF SetVariable
  <1>3. /\ key = "DB" => Written(db) = db \cup {Self}
        /\ key = "KEK" => Written(kek) = kek \cup {Self}
    BY WrittenAdds DEF Signatures, SetVariable
  <1>4. /\ key = "DB" => key' = "KEK" /\ pc' = "ReadFileContent"
        /\ key = "KEK" => key' = "PK" /\ pc' = "ReadFileContent"
        /\ key = "PK" => key' = key /\ pc' = "end"
    BY <1>1 DEF ON_EXIT
  <1> QED
    BY <1>1, <1>2, <1>3, <1>4

\* and the write of the variable.
LEMMA SetIInv ==
  ASSUME IInv, SetVariable
  PROVE  IInv'
  <1>1. pc = "SetVariable" /\ pc \in Enrolling /\ private' = private
    BY DEF SetVariable, Enrolling
  <1>2. CASE ON_EXIT("error", {X509Data, list}) /\ UNCHANGED keyVars
    BY <1>1, <1>2, ErrorIInv
  <1>3. CASE ~ON_EXIT("error", {X509Data, list})
    <2>1. NoDoubleFree' /\ MemoryHolds'
      BY <1>1, <1>3, SetSucceeds, ExitIInv
    <2>2. X509Data' = NULL /\ list' = NULL /\ append' = FALSE
      BY <1>3, SetSucceeds DEF ON_EXIT
    <2>3. heap' \subseteq Buffers /\ invalidFrees' \subseteq Buffers
      BY <2>1, Fixed DEF MemoryHolds, PoolHolds, NoDoubleFree
    <2>4. TypeOK'
      BY <1>1, <1>3, <2>2, <2>3, SetSucceeds DEF IInv, TypeOK, Pcs, Pointers, Files
    <2>5. OrderHolds'
      <3>1. /\ pk = NoKey
            /\ key # "DB" => Self \in db
        BY <1>1 DEF IInv, OrderHolds
      <3> QED
        BY <1>3, <3>1, SetSucceeds DEF OrderHolds, Enrolling
    <2> QED
      BY <2>1, <2>4, <2>5 DEF IInv
  <1> QED
    <2>1. ~(ON_EXIT("error", {X509Data, list}) /\ ON_EXIT("success", {X509Data, list}))
      <3>1. ON_EXIT("error", {X509Data, list}) => pc' = "failed"
        BY DEF ON_EXIT
      <3>2. ON_EXIT("success", {X509Data, list}) => pc' # "failed"
        BY DEF ON_EXIT
      <3> QED
        BY <3>1, <3>2
    <2>2. \/ ON_EXIT("error", {X509Data, list}) /\ UNCHANGED keyVars
          \/ ON_EXIT("success", {X509Data, list})
      BY DEF SetVariable
    <2> QED
      BY <1>2, <1>3, <2>1, <2>2

-----------------------------------------------------------------------------
\* IInv is an invariant of the session.
THEOREM Invariance == Spec => []IInv
  <1>1. IInv /\ [Next]_vars => IInv'
    <2> SUFFICES ASSUME IInv, [Next]_vars PROVE IInv'
      OBVIOUS
    <2>1. CASE UNCHANGED vars
      BY <2>1 DEF vars, IInv, TypeOK, NoDoubleFree, MemoryHolds, PrivateHolds, PoolHolds,
         LocalsHold, OrderHolds, Signatures
    <2>2. CASE Next
      BY <2>2, BeginIInv, FileContextIInv, SignatureGUIDIInv, EndIInv, ReadIInv, ListIInv,
         PayloadIInv, GetIInv, SetIInv DEF Next
    <2> QED
      BY <2>1, <2>2
  <1> QED
    BY InitIInv, <1>1, PTL DEF Spec

\* The session's variables keep their types, whatever call fails.
THEOREM TypeCorrect == Spec => []TypeOK
  <1>1. IInv => TypeOK
    BY DEF IInv
  <1> QED
    BY Invariance, <1>1, PTL

\* No buffer is handed to FreePool twice.
THEOREM FreedOnce == Spec => []NoDoubleFree
  <1>1. IInv => NoDoubleFree
    BY DEF IInv
  <1> QED
    BY Invariance, <1>1, PTL

\* Until a session fails, its pointers own live buffers.
THEOREM LivePointers == Spec => []PointersLive
  <1>1. IInv => PointersLive
    <2> SUFFICES ASSUME IInv, pc # "failed" PROVE Owned \subseteq heap
      BY DEF PointersLive
    <2>1. /\ private.FileContext # NULL => private.FileContext \in heap
          /\ private.SignatureGUID # NULL => private.SignatureGUID \in heap
          /\ private.data \in {NULL, Template}
      BY DEF IInv, TypeOK, Pcs, MemoryHolds, PrivateHolds, PoolHolds, Enrolling
    <2>2. /\ X509Data # NULL => X509Data \in heap
          /\ list # NULL => list \in heap
      BY DEF IInv, MemoryHolds, LocalsHold
    <2> QED
      BY <2>1, <2>2 DEF Owned
  <1> QED
    BY Invariance, <1>1, PTL

\* What a session leaves in the pool is known, however it ends.
THEOREM KnownLeaks == Spec => []OnlyKnownLeaks
  <1>1. IInv => OnlyKnownLeaks
    BY DEF IInv, MemoryHolds, PoolHolds, OnlyKnownLeaks, Outlive
  <1> QED
    BY Invariance, <1>1, PTL

\* A session implements KeyStore: the certificates go in from the bottom of
\* the chain, and what the variables held before stays in them.
THEOREM ImplementsKeyStore == Spec => KeyStorePromise
  <1>1. Init => Store!StoreInit
    BY DEF Init, Store!StoreInit, Files, Store!Keys
  <1>2. IInv /\ [Next]_vars => [Store!StoreNext]_(Store!storeVars)
    <2> SUFFICES ASSUME IInv, [Next]_vars
                 PROVE  Store!StoreNext \/ UNCHANGED Store!storeVars
      OBVIOUS
    <2> USE DEF Store!storeVars, Store!StoreNext, Files
    <2>1. CASE UNCHANGED keyVars
      BY <2>1 DEF keyVars
    <2>2. CASE SetVariable /\ ~ON_EXIT("error", {X509Data, list})
      <3>1. /\ pk = NoKey
            /\ key # "DB" => Self \in db
            /\ key = "PK" => Self \in kek
        BY <2>2 DEF SetVariable, IInv, OrderHolds, Enrolling
      <3>2. Store!AddDB \/ Store!AddKEK \/ Store!SetPK
        BY <2>2, <3>1, SetSucceeds
        DEF Store!AddDB, Store!AddKEK, Store!SetPK, Store!Chain
      <3> QED
        BY <3>2
    <2>3. SetVariable => \/ UNCHANGED keyVars
                         \/ ON_EXIT("success", {X509Data, list})
      BY DEF SetVariable
    <2>4. ON_EXIT("success", {X509Data, list}) => ~ON_EXIT("error", {X509Data, list})
      <3>1. ON_EXIT("error", {X509Data, list}) => pc' = "failed"
        BY DEF ON_EXIT
      <3>2. ON_EXIT("success", {X509Data, list}) => pc' # "failed"
        BY DEF ON_EXIT
      <3> QED
        BY <3>1, <3>2
    <2>5. ~SetVariable => UNCHANGED keyVars
      BY DEF Next, vars, keyVars, tp_begin_enroll_keys, tp_begin_enroll_keys_FileContext,
             tp_begin_enroll_keys_SignatureGUID, ReadFileContent, CreateSignatureList,
             CreateTimeBasedPayload, GetVariable, tp_end_enroll_keys
    <2> QED
      BY <2>1, <2>2, <2>3, <2>4, <2>5
  <1> QED
    BY Invariance, <1>1, <1>2, PTL DEF Spec, KeyStorePromise, Store!StoreSpec
=============================================================================
