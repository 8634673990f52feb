------------------------------ MODULE KeyStore ------------------------------
(***************************************************************************)
(* What the self-only boot route promises about keys, with no program in   *)
(* it: the platform key PK, the key exchange keys KEK and the signature    *)
(* database db of the firmware, and the certificate files on the USB       *)
(* memory.  The application may add its own certificates from the bottom   *)
(* of the chain of trust upwards, and may consume a certificate file only  *)
(* once the whole chain is in the firmware.  The machine's owner may clear *)
(* or restore the firmware's keys and copy the files again.                *)
(***************************************************************************)
EXTENDS Naturals

CONSTANTS
  Self,      \* the owner of the certificates on the USB memory
  Foreign,   \* the owners of the certificates the factory installs
  NoKey      \* the platform key is absent

(* SelfBoot, which implements this module, assumes the three kinds apart.  *)

Certs == Foreign \cup {Self}

\* The three certificate files of efi_main.c, by the key each one enrols.
Keys == {"PK", "KEK", "DB"}

VARIABLES
  pk,      \* the firmware's platform key
  kek,     \* the certificates in KEK
  db,      \* the certificates in db
  files    \* the certificate files present on the USB memory

storeVars == <<pk, kek, db, files>>

StoreTypeOK ==
  /\ pk \in Certs \cup {NoKey}
  /\ kek \subseteq Certs
  /\ db \subseteq Certs
  /\ files \subseteq Keys

StoreInit ==
  /\ pk \in Foreign \cup {NoKey}
  /\ kek \in SUBSET Foreign
  /\ db \in SUBSET Foreign
  /\ files = Keys

\* The application's own chain is complete below the platform key.
Chain == Self \in db /\ Self \in kek

(* The application's steps. *)

AddDB ==
  /\ pk = NoKey
  /\ db' = db \cup {Self}
  /\ UNCHANGED <<pk, kek, files>>

AddKEK ==
  /\ pk = NoKey
  /\ Self \in db
  /\ kek' = kek \cup {Self}
  /\ UNCHANGED <<pk, db, files>>

SetPK ==
  /\ pk = NoKey
  /\ Chain
  /\ pk' = Self
  /\ UNCHANGED <<kek, db, files>>

Consume(k) ==
  /\ pk = Self
  /\ Chain
  /\ files' = files \ {k}
  /\ UNCHANGED <<pk, kek, db>>

(* The owner's steps. *)

ClearPK ==
  /\ pk' = NoKey
  /\ UNCHANGED <<kek, db, files>>

ClearKeys ==
  /\ pk' = NoKey
  /\ kek' = {}
  /\ db' = {}
  /\ UNCHANGED files

RestoreFactoryKeys ==
  /\ pk' \in Foreign
  /\ kek' = Foreign
  /\ db' = Foreign
  /\ UNCHANGED files

CopyFiles ==
  /\ files' = Keys
  /\ UNCHANGED <<pk, kek, db>>

StoreNext ==
  \/ AddDB \/ AddKEK \/ SetPK
  \/ \E k \in Keys : Consume(k)
  \/ ClearPK \/ ClearKeys \/ RestoreFactoryKeys \/ CopyFiles

StoreSpec == StoreInit /\ [][StoreNext]_storeVars

-----------------------------------------------------------------------------
(* A platform key of the application's own always has its KEK and db       *)
(* certificates below it: the machine can then verify the application, so  *)
(* secure boot can be switched on without locking the owner out.           *)
OwnKeyHasChain == pk = Self => Chain
=============================================================================
