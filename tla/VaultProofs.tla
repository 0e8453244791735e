---------------------------- MODULE VaultProofs -----------------------------
(***************************************************************************)
(* The three vaults of cryptography, as parts of Libraries: the OpenSSL    *)
(* one exports nothing sealed and keeps its handles, the default SecApi    *)
(* one forgets no object of the security processor by itself, and the      *)
(* Netflix one keeps the handle it gave out.                               *)
(***************************************************************************)
EXTENDS Libraries, TLAPS, FiniteSetTheorems, WellFoundedInduction

-----------------------------------------------------------------------------
(* Types. *)

\* Handles and contents stay in their sets.
LEMMA VaultContentTypes ==
  ASSUME OpenSSL!HandleAssumption, OpenSSL!TypeOK
  PROVE  /\ OpenSSL!NextHandle \in 0..MaxHandle
         /\ OpenSSL!Made \in OpenSSL!Content
         /\ OpenSSL!NextHandle # 0
              => /\ OpenSSL!NextHandle \in OpenSSL!Handle
                 /\ OpenSSL!NextHandle > o_lastHandle
         /\ OpenSSL!NextHandle # 0 => OpenSSL!NextHandle \in UserBase..MaxHandle
         /\ OpenSSL!Secret(OpenSSL!NextHandle) \in OpenSSL!Content
         /\ OpenSSL!Public(OpenSSL!NextHandle) \in OpenSSL!Content
         /\ OpenSSL!Nothing \in OpenSSL!Content
<1>1. /\ OpenSSL!NextHandle \in 0..MaxHandle
      /\ OpenSSL!NextHandle # 0
           => /\ OpenSSL!NextHandle \in OpenSSL!Handle
              /\ OpenSSL!NextHandle > o_lastHandle
      /\ OpenSSL!NextHandle # 0 => OpenSSL!NextHandle \in UserBase..MaxHandle
  BY DEF OpenSSL!HandleAssumption, OpenSSL!TypeOK, OpenSSL!NextHandle,
         OpenSSL!Handle
<1>2. 0 \in 0..MaxHandle
  BY DEF OpenSSL!HandleAssumption
<1>3. /\ OpenSSL!Secret(OpenSSL!NextHandle) \in OpenSSL!Content
      /\ OpenSSL!Public(OpenSSL!NextHandle) \in OpenSSL!Content
      /\ OpenSSL!Nothing \in OpenSSL!Content
      /\ OpenSSL!Made \in OpenSSL!Content
  BY <1>1, <1>2
     DEF OpenSSL!Made, OpenSSL!Secret, OpenSSL!Public, OpenSSL!Nothing, OpenSSL!Content
<1>. QED
  BY <1>1, <1>3

\* What Size() and Export() answer.
LEMMA VaultLookupTypes ==
  ASSUME OpenSSL!HandleAssumption, OpenSSL!TypeOK, NEW id,
         NEW sealed \in BOOLEAN
  PROVE  /\ OpenSSL!Present(id) => id \in OpenSSL!Handle /\ o_items[id].size > 0
         /\ OpenSSL!Size(id, sealed) \in Int
         /\ OpenSSL!Export(id, sealed) \in OpenSSL!Content
         /\ OpenSSL!Export(id, sealed) # OpenSSL!Nothing =>
              /\ OpenSSL!Present(id)
              /\ sealed \/ o_items[id].exportable
              /\ OpenSSL!Export(id, sealed) = o_items[id].key
<1>1. OpenSSL!Nothing \in OpenSSL!Content
  BY VaultContentTypes
<1>2. /\ OpenSSL!Lookup(id).size \in Nat
      /\ OpenSSL!Lookup(id).key \in OpenSSL!Content
      /\ id \in OpenSSL!Handle => OpenSSL!Lookup(id) = o_items[id]
      /\ id \notin OpenSSL!Handle => OpenSSL!Lookup(id).size = 0
  BY <1>1 DEF OpenSSL!TypeOK, OpenSSL!Blob, OpenSSL!Lookup, OpenSSL!Absent
<1>. QED
  BY <1>1, <1>2
     DEF OpenSSL!Present, OpenSSL!Size, OpenSSL!Export, OpenSSL!USHRT_MAX,
         OpenSSL!IVSize

\* What vault_get() copies has a type.
LEMMA VaultCutType ==
  ASSUME OpenSSL!HandleAssumption, OpenSSL!TypeOK,
         NEW blob \in OpenSSL!Blob, NEW length \in Nat
  PROVE  OpenSSL!Cut(blob, length) \in OpenSSL!Bytes
<1>1. /\ OpenSSL!Made \in OpenSSL!Content
      /\ blob.key \in OpenSSL!Content /\ blob.size \in Nat
  BY VaultContentTypes DEF OpenSSL!Blob
<1>2. [kind |-> "part", at |-> blob.key.at] \in OpenSSL!Content
  BY <1>1 DEF OpenSSL!Content
<1>3. OpenSSL!Start(blob.key, length) \in OpenSSL!Content
  BY <1>1, <1>2 DEF OpenSSL!Start
<1>. QED
  BY <1>1, <1>3 DEF OpenSSL!Cut, OpenSSL!Bytes

\* Storing a blob keeps the types and touches one new handle.
LEMMA VaultStoreEffect ==
  ASSUME OpenSSL!HandleAssumption, OpenSSL!TypeOK,
         NEW key \in OpenSSL!Content, NEW size \in Nat,
         NEW exportable \in BOOLEAN,
         OpenSSL!Store(key, size, exportable)
  PROVE  /\ o_items' \in [OpenSSL!Handle -> OpenSSL!Blob]
         /\ o_lastHandle' \in UserBase..MaxHandle
         /\ o_first' \in [OpenSSL!Handle -> OpenSSL!Content]
<1>1. CASE OpenSSL!NextHandle = 0
  BY <1>1 DEF OpenSSL!Store, OpenSSL!TypeOK
<1>2. CASE OpenSSL!NextHandle # 0
  <2>1. /\ OpenSSL!NextHandle \in OpenSSL!Handle
        /\ OpenSSL!NextHandle \in UserBase..MaxHandle
    BY <1>2, VaultContentTypes
  <2>2. [key |-> key, size |-> size, exportable |-> exportable] \in OpenSSL!Blob
    BY DEF OpenSSL!Blob
  <2>. QED
    BY <1>2, <2>1, <2>2 DEF OpenSSL!Store, OpenSSL!TypeOK
<1>. QED
  BY <1>1, <1>2

-----------------------------------------------------------------------------
(* Kinds of steps. *)

\* A blob is stored, and only what is clear or public may be exported again.
VaultStores ==
  /\ \E key \in OpenSSL!Content, size \in Nat, exportable \in BOOLEAN :
       /\ exportable => key.kind \in {"clear", "public"}
       /\ OpenSSL!Store(key, size, exportable)
  /\ UNCHANGED <<o_known, o_object>>

\* Nothing is stored, learned or used.
VaultKeeps == UNCHANGED <<o_items, o_lastHandle, o_first, o_known, o_object>>

\* An object is made or used: it uses the content of its handle, or none.
VaultUses ==
  /\ UNCHANGED <<o_items, o_lastHandle, o_first, o_known>>
  /\ o_object'.used # OpenSSL!Nothing
       => /\ OpenSSL!Present(o_object'.id)
          /\ o_object'.used = o_items[o_object'.id].key

\* Importing what is in Content and no secret is a step that stores.
LEMMA VaultImportStores ==
  ASSUME OpenSSL!HandleAssumption, OpenSSL!TypeOK,
         NEW key \in OpenSSL!Content, NEW size \in Nat,
         NEW exportable \in BOOLEAN,
         exportable => key.kind \in {"clear", "public"},
         OpenSSL!Store(key, size, exportable)
           \/ OpenSSL!Import(key, size, exportable),
         UNCHANGED <<o_known, o_object>>
  PROVE  VaultStores
<1>1. size + OpenSSL!IVSize \in Nat
  BY DEF OpenSSL!IVSize
<1>. QED
  BY <1>1 DEF OpenSSL!Import, VaultStores

\* So is importing what was generated, sealed, or a public key.
LEMMA VaultSecretStores ==
  ASSUME OpenSSL!HandleAssumption, OpenSSL!TypeOK, NEW size \in Nat,
         \/ OpenSSL!Import(OpenSSL!Secret(OpenSSL!NextHandle), size, FALSE)
         \/ OpenSSL!Import(OpenSSL!Public(OpenSSL!NextHandle), size, TRUE),
         UNCHANGED <<o_known, o_object>>
  PROVE  VaultStores
<1>1. /\ OpenSSL!Secret(OpenSSL!NextHandle) \in OpenSSL!Content
      /\ OpenSSL!Public(OpenSSL!NextHandle) \in OpenSSL!Content
  BY VaultContentTypes, Zenon
<1>2. OpenSSL!Public(OpenSSL!NextHandle).kind \in {"clear", "public"}
  BY DEF OpenSSL!Public
<1>3. TRUE \in BOOLEAN /\ FALSE \in BOOLEAN
  OBVIOUS
<1>4. CASE OpenSSL!Import(OpenSSL!Secret(OpenSSL!NextHandle), size, FALSE)
  BY <1>1, <1>3, <1>4, VaultImportStores, Zenon
<1>5. CASE OpenSSL!Import(OpenSSL!Public(OpenSSL!NextHandle), size, TRUE)
  BY <1>1, <1>2, <1>3, <1>5, VaultImportStores, Zenon
<1>. QED
  BY <1>4, <1>5

\* The kinds are all there are, while no client knows a secret.
LEMMA VaultKindsOfSteps ==
  ASSUME OpenSSL!HandleAssumption, OpenSSL!TypeOK, OpenSSL!SealedIsNotExported,
         OpenSSL!Next
  PROVE  \/ VaultStores \/ VaultKeeps \/ VaultUses
         \/ \E c \in Clients : OpenSSL!VaultExport(c) \/ OpenSSL!VaultDelete(c)
<1>. PICK c \in Clients :
       \/ OpenSSL!VaultImport(c) \/ OpenSSL!VaultGenerate(c)
       \/ OpenSSL!VaultGet(c) \/ OpenSSL!VaultSet(c)
       \/ OpenSSL!VaultExport(c) \/ OpenSSL!VaultDelete(c)
       \/ OpenSSL!CipherCreate(c) \/ OpenSSL!CipherOperation(c)
       \/ OpenSSL!HmacSize(c) \/ OpenSSL!HmacKey(c)
       \/ OpenSSL!DhGenerate(c) \/ OpenSSL!DhGeneratePublic(c)
       \/ OpenSSL!DhDerive(c) \/ OpenSSL!DhDerivePeer(c)
       \/ OpenSSL!DhDeriveSecret(c)
       \/ OpenSSL!DeriveKeys(c) \/ OpenSSL!DeriveKeysPeer(c)
       \/ OpenSSL!DeriveKeysKey(c) \/ OpenSSL!DeriveKeysStore(c)
  BY DEF OpenSSL!Next
<1>1. CASE OpenSSL!VaultImport(c)
  <2>1. PICK key \in o_known, size \in BlobSizes :
          OpenSSL!Import(key, size, TRUE)
    BY <1>1 DEF OpenSSL!VaultImport
  <2>2. key \in OpenSSL!Content /\ key.kind \in {"clear", "public"} /\ size \in Nat
    BY DEF OpenSSL!TypeOK, OpenSSL!SealedIsNotExported, OpenSSL!HandleAssumption
  <2>3. UNCHANGED <<o_known, o_object>>
    BY <1>1 DEF OpenSSL!VaultImport, OpenSSL!Others
  <2>. QED
    BY <2>1, <2>2, <2>3, VaultImportStores, Zenon
<1>2. CASE OpenSSL!VaultGenerate(c)
  <2>1. PICK size \in BlobSizes :
          OpenSSL!Import(OpenSSL!Secret(OpenSSL!NextHandle), size, FALSE)
    BY <1>2 DEF OpenSSL!VaultGenerate
  <2>2. size \in Nat
    BY DEF OpenSSL!HandleAssumption
  <2>3. UNCHANGED <<o_known, o_object>>
    BY <1>2 DEF OpenSSL!VaultGenerate, OpenSSL!Others
  <2>. QED
    BY <2>1, <2>2, <2>3, VaultSecretStores, Zenon
<1>3. CASE OpenSSL!VaultSet(c)
  <2>1. /\ o_wrapped.key \in OpenSSL!Content /\ o_wrapped.size \in Nat
        /\ OpenSSL!Made \in OpenSSL!Content
        /\ \A length \in Buffers : length \in Nat
    BY VaultContentTypes
       DEF OpenSSL!TypeOK, OpenSSL!Bytes, OpenSSL!HandleAssumption
  <2>2. PICK key \in OpenSSL!Content, size \in Nat :
          OpenSSL!Store(key, size, FALSE)
    BY <1>3, <2>1 DEF OpenSSL!VaultSet
  <2>3. UNCHANGED <<o_known, o_object>>
    BY <1>3 DEF OpenSSL!VaultSet, OpenSSL!Others
  <2>. QED
    BY <2>2, <2>3, VaultImportStores, Zenon
<1>4. CASE OpenSSL!DhGenerate(c) \/ OpenSSL!DhDeriveSecret(c)
  <2>1. OpenSSL!Import(OpenSSL!Secret(OpenSSL!NextHandle), OpenSSL!DhSize,
          FALSE) /\ UNCHANGED <<o_known, o_object>>
    BY <1>4 DEF OpenSSL!DhGenerate, OpenSSL!DhDeriveSecret
  <2>2. OpenSSL!DhSize \in Nat
    BY DEF OpenSSL!DhSize
  <2>. QED
    BY <2>1, <2>2, VaultSecretStores, Zenon
<1>5. CASE OpenSSL!DhGeneratePublic(c)
  <2>1. OpenSSL!Import(OpenSSL!Public(OpenSSL!NextHandle), OpenSSL!DhSize, TRUE)
          /\ UNCHANGED <<o_known, o_object>>
    BY <1>5 DEF OpenSSL!DhGeneratePublic
  <2>2. OpenSSL!DhSize \in Nat
    BY DEF OpenSSL!DhSize
  <2>. QED
    BY <2>1, <2>2, VaultSecretStores, Zenon
<1>6. CASE OpenSSL!DeriveKeysStore(c)
  <2>1. PICK size \in {16, 32} :
          OpenSSL!Import(OpenSSL!Secret(OpenSSL!NextHandle), size, FALSE)
    BY <1>6 DEF OpenSSL!DeriveKeysStore
  <2>2. UNCHANGED <<o_known, o_object>>
    BY <1>6 DEF OpenSSL!DeriveKeysStore
  <2>3. size \in Nat
    OBVIOUS
  <2>. QED
    BY <2>1, <2>2, <2>3, VaultSecretStores, Zenon
<1>7. CASE \/ OpenSSL!VaultGet(c) \/ OpenSSL!HmacSize(c) \/ OpenSSL!DhDerive(c)
           \/ OpenSSL!DhDerivePeer(c)
           \/ OpenSSL!DeriveKeys(c) \/ OpenSSL!DeriveKeysPeer(c)
           \/ OpenSSL!DeriveKeysKey(c)
  BY <1>7
     DEF VaultKeeps, OpenSSL!VaultGet, OpenSSL!HmacSize, OpenSSL!DhDerive,
         OpenSSL!DhDerivePeer, OpenSSL!DeriveKeys, OpenSSL!DeriveKeysPeer,
         OpenSSL!DeriveKeysKey
<1>8. CASE OpenSSL!CipherCreate(c)
  <2>1. /\ UNCHANGED <<o_items, o_lastHandle, o_first, o_known>>
        /\ o_object'.used = OpenSSL!Nothing
    BY <1>8 DEF OpenSSL!CipherCreate
  <2>. QED
    BY <2>1 DEF VaultUses
<1>9. CASE OpenSSL!CipherOperation(c)
  <2>1. UNCHANGED <<o_items, o_lastHandle, o_first, o_known>>
    BY <1>9 DEF OpenSSL!CipherOperation
  <2>2. /\ o_object'.id = o_object.id
        /\ o_object'.used \in {OpenSSL!Export(o_object.id, TRUE),
             OpenSSL!Nothing}
    BY <1>9 DEF OpenSSL!CipherOperation, OpenSSL!TypeOK
  <2>. QED
    BY <2>1, <2>2, VaultLookupTypes DEF VaultUses
<1>10. CASE OpenSSL!HmacKey(c)
  <2>1. UNCHANGED <<o_items, o_lastHandle, o_first, o_known>>
    BY <1>10 DEF OpenSSL!HmacKey
  <2>2. /\ o_object'.id = o_op[c].id
        /\ o_object'.used = OpenSSL!Export(o_op[c].id, TRUE)
    BY <1>10 DEF OpenSSL!HmacKey
  <2>. QED
    BY <2>1, <2>2, VaultLookupTypes DEF VaultUses
<1>. QED
  BY <1>1, <1>2, <1>3, <1>4, <1>5, <1>6, <1>7, <1>8, <1>9, <1>10

-----------------------------------------------------------------------------
(* Type correctness. *)

\* The operation a client has in progress.
VaultOperation == [next : OpenSSL!Steps, id : 0..MaxHandle, ok : BOOLEAN]

LEMMA VaultStepType ==
  ASSUME OpenSSL!TypeOK, NEW c \in Clients, NEW o \in VaultOperation,
         o_op' = [o_op EXCEPT ![c] = o]
  PROVE  o_op' \in [Clients -> VaultOperation]
BY DEF OpenSSL!TypeOK, VaultOperation

\* TypeOK is inductive: Init has the types and every step keeps them.
LEMMA VaultTypeInit ==
  ASSUME OpenSSL!HandleAssumption, OpenSSL!Init
  PROVE  OpenSSL!TypeOK
<1>1. \A h \in OpenSSL!Handle : /\ OpenSSL!BuiltIn(h) \in OpenSSL!Blob
                                /\ OpenSSL!Absent \in OpenSSL!Blob
  BY DEF OpenSSL!HandleAssumption, OpenSSL!BuiltIn, OpenSSL!Blob,
         OpenSSL!Content, OpenSSL!Secret, OpenSSL!Public, OpenSSL!Absent,
         OpenSSL!Nothing, OpenSSL!Handle, OpenSSL!IVSize, OpenSSL!KPE,
         OpenSSL!KPH, OpenSSL!KPW, OpenSSL!ESN
<1>2. o_items \in [OpenSSL!Handle -> OpenSSL!Blob]
  BY <1>1 DEF OpenSSL!Init
<1>3. o_lastHandle \in UserBase..MaxHandle
  BY DEF OpenSSL!Init, OpenSSL!HandleAssumption
<1>4. o_first \in [OpenSSL!Handle -> OpenSSL!Content]
  BY <1>2 DEF OpenSSL!Init, OpenSSL!Blob
<1>5. o_known \subseteq OpenSSL!Content
  BY DEF OpenSSL!Init, OpenSSL!HandleAssumption, OpenSSL!Content, OpenSSL!Data
<1>6. o_wrapped \in OpenSSL!Bytes
  BY DEF OpenSSL!Init, OpenSSL!HandleAssumption, OpenSSL!Bytes, OpenSSL!Content,
         OpenSSL!Nothing
<1>7. o_pair \in [private : 0..MaxHandle, public : 0..MaxHandle]
  BY DEF OpenSSL!Init, OpenSSL!HandleAssumption
<1>8. o_op
        \in [Clients -> [next : OpenSSL!Steps, id : 0..MaxHandle, ok : BOOLEAN]]
  BY DEF OpenSSL!Init, OpenSSL!HandleAssumption, OpenSSL!NoOp, OpenSSL!Steps
<1>9. o_object \in [kind : {"none", "aes", "hmac"}, id : 0..MaxHandle,
                  length : Int, used : OpenSSL!Content]
  BY DEF OpenSSL!Init, OpenSSL!HandleAssumption, OpenSSL!NoObject,
         OpenSSL!Nothing, OpenSSL!Content
<1>. QED
  BY <1>2, <1>3, <1>4, <1>5, <1>6, <1>7, <1>8, <1>9 DEF OpenSSL!TypeOK

\* The vault's own variables.
LEMMA VaultTypeStep ==
  ASSUME OpenSSL!HandleAssumption, OpenSSL!TypeOK, OpenSSL!SealedIsNotExported,
         OpenSSL!Next
  PROVE  /\ o_items' \in [OpenSSL!Handle -> OpenSSL!Blob]
         /\ o_lastHandle' \in UserBase..MaxHandle
         /\ o_first' \in [OpenSSL!Handle -> OpenSSL!Content]
<1>1. CASE VaultStores
  BY <1>1, VaultStoreEffect DEF VaultStores
<1>2. CASE VaultKeeps \/ VaultUses \/ \E c \in Clients : OpenSSL!VaultExport(c)
  BY <1>2 DEF VaultKeeps, VaultUses, OpenSSL!VaultExport, OpenSSL!TypeOK
<1>3. CASE \E c \in Clients : OpenSSL!VaultDelete(c)
  <2>1. OpenSSL!Absent \in OpenSSL!Blob
    BY VaultContentTypes DEF OpenSSL!Absent, OpenSSL!Blob
  <2>2. PICK id \in Targets : OpenSSL!Present(id)
          /\ o_items' = [o_items EXCEPT ![id] = OpenSSL!Absent]
    BY <1>3 DEF OpenSSL!VaultDelete
  <2>3. UNCHANGED <<o_lastHandle, o_first>>
    BY <1>3 DEF OpenSSL!VaultDelete
  <2>. QED
    BY <2>1, <2>2, <2>3 DEF OpenSSL!TypeOK
<1>. QED
  BY <1>1, <1>2, <1>3, VaultKindsOfSteps

\* What clients hold.
LEMMA VaultClientTypeStep ==
  ASSUME OpenSSL!HandleAssumption, OpenSSL!TypeOK, OpenSSL!SealedIsNotExported,
         OpenSSL!Next
  PROVE  /\ o_known' \subseteq OpenSSL!Content
         /\ o_wrapped' \in OpenSSL!Bytes
         /\ o_pair' \in [private : 0..MaxHandle, public : 0..MaxHandle]
<1>1. o_known' \subseteq OpenSSL!Content
  <2>1. CASE \/ VaultStores \/ VaultKeeps \/ VaultUses
             \/ \E c \in Clients : OpenSSL!VaultDelete(c)
    BY <2>1
       DEF VaultStores, VaultKeeps, VaultUses, OpenSSL!VaultDelete,
           OpenSSL!Others, OpenSSL!TypeOK
  <2>2. CASE \E c \in Clients : OpenSSL!VaultExport(c)
    <3>1. PICK id \in Targets :
            o_known' = o_known \cup {OpenSSL!Export(id, FALSE)}
      BY <2>2 DEF OpenSSL!VaultExport
    <3>. QED
      BY <3>1, VaultLookupTypes DEF OpenSSL!TypeOK
  <2>. QED
    BY <2>1, <2>2, VaultKindsOfSteps
<1>2. o_wrapped' \in OpenSSL!Bytes
  <2>1. CASE \E c \in Clients : OpenSSL!VaultGet(c)
    <3>1. PICK id \in Targets, length \in Buffers :
            /\ OpenSSL!Present(id)
            /\ o_wrapped' = OpenSSL!Cut(o_items[id], length)
      BY <2>1 DEF OpenSSL!VaultGet
    <3>2. id \in OpenSSL!Handle
      BY <3>1 DEF OpenSSL!HandleAssumption, OpenSSL!Handle
    <3>3. o_items[id] \in OpenSSL!Blob /\ length \in Nat
      BY <3>2 DEF OpenSSL!TypeOK, OpenSSL!HandleAssumption
    <3>. QED
      BY <3>1, <3>3, VaultCutType
  <2>2. CASE ~\E c \in Clients : OpenSSL!VaultGet(c)
    <3>1. o_wrapped' = o_wrapped
      BY <2>2
         DEF OpenSSL!Next, OpenSSL!VaultImport, OpenSSL!VaultGenerate,
             OpenSSL!VaultSet, OpenSSL!VaultExport, OpenSSL!VaultDelete,
             OpenSSL!CipherCreate, OpenSSL!CipherOperation, OpenSSL!HmacSize,
             OpenSSL!HmacKey, OpenSSL!DhGenerate, OpenSSL!DhGeneratePublic,
             OpenSSL!DhDerive, OpenSSL!DhDerivePeer, OpenSSL!DhDeriveSecret,
             OpenSSL!DeriveKeys, OpenSSL!DeriveKeysPeer, OpenSSL!DeriveKeysKey,
             OpenSSL!DeriveKeysStore, OpenSSL!Others
    <3>. QED
      BY <3>1 DEF OpenSSL!TypeOK
  <2>. QED
    BY <2>1, <2>2
<1>3. o_pair' \in [private : 0..MaxHandle, public : 0..MaxHandle]
  <2>1. CASE \E c \in Clients : OpenSSL!DhGeneratePublic(c)
    <3>1. PICK c \in Clients :
            o_pair' = [private |-> o_op[c].id, public |-> OpenSSL!NextHandle]
      BY <2>1 DEF OpenSSL!DhGeneratePublic
    <3>2. o_op[c].id \in 0..MaxHandle
      BY DEF OpenSSL!TypeOK
    <3>. QED
      BY <3>1, <3>2, VaultContentTypes
  <2>2. CASE ~\E c \in Clients : OpenSSL!DhGeneratePublic(c)
    <3>1. o_pair' = o_pair
      BY <2>2
         DEF OpenSSL!Next, OpenSSL!VaultImport, OpenSSL!VaultGenerate,
             OpenSSL!VaultGet, OpenSSL!VaultSet, OpenSSL!VaultExport,
             OpenSSL!VaultDelete, OpenSSL!CipherCreate, OpenSSL!CipherOperation,
             OpenSSL!HmacSize, OpenSSL!HmacKey, OpenSSL!DhGenerate,
             OpenSSL!DhDerive, OpenSSL!DhDerivePeer, OpenSSL!DhDeriveSecret,
             OpenSSL!DeriveKeys, OpenSSL!DeriveKeysPeer, OpenSSL!DeriveKeysKey,
             OpenSSL!DeriveKeysStore, OpenSSL!Others
    <3>. QED
      BY <3>1 DEF OpenSSL!TypeOK
  <2>. QED
    BY <2>1, <2>2
<1>. QED
  BY <1>1, <1>2, <1>3

\* The operations in progress.
LEMMA VaultOperationTypeStep ==
  ASSUME OpenSSL!HandleAssumption, OpenSSL!TypeOK, OpenSSL!Next
  PROVE  o_op' \in [Clients -> VaultOperation]
<1>. PICK c \in Clients :
       \/ OpenSSL!VaultImport(c) \/ OpenSSL!VaultGenerate(c)
       \/ OpenSSL!VaultGet(c) \/ OpenSSL!VaultSet(c)
       \/ OpenSSL!VaultExport(c) \/ OpenSSL!VaultDelete(c)
       \/ OpenSSL!CipherCreate(c) \/ OpenSSL!CipherOperation(c)
       \/ OpenSSL!HmacSize(c) \/ OpenSSL!HmacKey(c)
       \/ OpenSSL!DhGenerate(c) \/ OpenSSL!DhGeneratePublic(c)
       \/ OpenSSL!DhDerive(c) \/ OpenSSL!DhDerivePeer(c)
       \/ OpenSSL!DhDeriveSecret(c)
       \/ OpenSSL!DeriveKeys(c) \/ OpenSSL!DeriveKeysPeer(c)
       \/ OpenSSL!DeriveKeysKey(c) \/ OpenSSL!DeriveKeysStore(c)
  BY DEF OpenSSL!Next
<1>a. /\ o_op \in [Clients -> VaultOperation] /\ o_op[c] \in VaultOperation
      /\ OpenSSL!NoOp \in VaultOperation
      /\ 0 \in 0..MaxHandle
  BY DEF OpenSSL!TypeOK, VaultOperation, OpenSSL!HandleAssumption, OpenSSL!NoOp,
         OpenSSL!Steps
<1>1. CASE \/ OpenSSL!VaultImport(c) \/ OpenSSL!VaultGenerate(c)
           \/ OpenSSL!VaultGet(c) \/ OpenSSL!VaultSet(c)
           \/ OpenSSL!VaultExport(c) \/ OpenSSL!VaultDelete(c)
           \/ OpenSSL!CipherCreate(c) \/ OpenSSL!CipherOperation(c)
  BY <1>1, <1>a
     DEF OpenSSL!VaultImport, OpenSSL!VaultGenerate, OpenSSL!VaultGet,
         OpenSSL!VaultSet, OpenSSL!VaultExport, OpenSSL!VaultDelete,
         OpenSSL!CipherCreate, OpenSSL!CipherOperation, OpenSSL!Others
<1>2. CASE OpenSSL!HmacSize(c)
  <2>1. PICK id \in Targets :
          o_op' = [o_op EXCEPT ![c] = [next |-> "key", id |-> id, ok |-> TRUE]]
    BY <1>2 DEF OpenSSL!HmacSize
  <2>2. [next |-> "key", id |-> id, ok |-> TRUE] \in VaultOperation
    BY DEF VaultOperation, OpenSSL!Steps, OpenSSL!HandleAssumption
  <2>. QED
    BY <2>1, <2>2, VaultStepType
<1>3. CASE \/ OpenSSL!HmacKey(c) \/ OpenSSL!DhGeneratePublic(c)
           \/ OpenSSL!DhDeriveSecret(c)
  BY <1>3, <1>a
     DEF OpenSSL!HmacKey, OpenSSL!DhGeneratePublic, OpenSSL!DhDeriveSecret
<1>4. CASE OpenSSL!DhGenerate(c)
  <2>1. [next |-> "public", id |-> OpenSSL!NextHandle, ok |-> TRUE]
          \in VaultOperation
    BY VaultContentTypes DEF VaultOperation, OpenSSL!Steps
  <2>. QED
    BY <1>4, <2>1, VaultStepType DEF OpenSSL!DhGenerate, OpenSSL!Step
<1>5. CASE OpenSSL!DhDerive(c) \/ OpenSSL!DeriveKeys(c)
  <2>1. PICK next \in {"peer", "authPeer"}, ok \in BOOLEAN :
          o_op' = [o_op EXCEPT ![c] = [next |-> next, id |-> 0, ok |-> ok]]
    BY <1>5
       DEF OpenSSL!DhDerive, OpenSSL!DeriveKeys, OpenSSL!Step, OpenSSL!Loads
  <2>2. [next |-> next, id |-> 0, ok |-> ok] \in VaultOperation
    BY <1>a DEF VaultOperation, OpenSSL!Steps
  <2>. QED
    BY <2>1, <2>2, VaultStepType
<1>6. CASE \/ OpenSSL!DhDerivePeer(c) \/ OpenSSL!DeriveKeysPeer(c)
           \/ OpenSSL!DeriveKeysKey(c)
  <2>1. \/ o_op' = [o_op EXCEPT ![c] = OpenSSL!NoOp]
        \/ \E next \in {"secret", "authKey", "encryption"}, ok \in BOOLEAN :
             o_op' = [o_op EXCEPT ![c] = [next |-> next, id |-> 0, ok |-> ok]]
    <3>1. o_op[c].ok \in BOOLEAN
      BY <1>a DEF VaultOperation
    <3>. QED
      BY <1>6, <3>1
         DEF OpenSSL!DhDerivePeer, OpenSSL!DeriveKeysPeer,
             OpenSSL!DeriveKeysKey, OpenSSL!Step, OpenSSL!Loads
  <2>2. \A next \in {"secret", "authKey", "encryption"}, ok \in BOOLEAN :
          [next |-> next, id |-> 0, ok |-> ok] \in VaultOperation
    BY <1>a DEF VaultOperation, OpenSSL!Steps
  <2>. QED
    BY <2>1, <2>2, <1>a, VaultStepType
<1>7. CASE OpenSSL!DeriveKeysStore(c)
  <2>1. /\ [o_op[c] EXCEPT !.next = "hmac"] \in VaultOperation
        /\ [o_op[c] EXCEPT !.next = "wrapping"] \in VaultOperation
    BY <1>a DEF VaultOperation, OpenSSL!Steps
  <2>2. \/ o_op' = [o_op EXCEPT ![c] = OpenSSL!NoOp]
        \/ o_op' = [o_op EXCEPT ![c] = [o_op[c] EXCEPT !.next = "hmac"]]
        \/ o_op' = [o_op EXCEPT ![c] = [o_op[c] EXCEPT !.next = "wrapping"]]
    BY <1>7, <1>a DEF OpenSSL!DeriveKeysStore, VaultOperation
  <2>. QED
    BY <2>1, <2>2, <1>a, VaultStepType
<1>. QED
  BY <1>1, <1>2, <1>3, <1>4, <1>5, <1>6, <1>7

\* The object made last.
LEMMA VaultObjectTypeStep ==
  ASSUME OpenSSL!HandleAssumption, OpenSSL!TypeOK, OpenSSL!Next
  PROVE  o_object' \in [kind : {"none", "aes", "hmac"}, id : 0..MaxHandle,
                      length : Int, used : OpenSSL!Content]
<1>1. CASE \E c \in Clients : OpenSSL!CipherCreate(c)
  <2>1. PICK id \in Targets : o_object' = [kind |-> "aes", id |-> id,
                                         length |-> OpenSSL!Size(id, TRUE),
                                           used |-> OpenSSL!Nothing]
    BY <1>1 DEF OpenSSL!CipherCreate
  <2>2. id \in 0..MaxHandle
    BY DEF OpenSSL!HandleAssumption
  <2>. QED
    BY <2>1, <2>2, VaultLookupTypes, VaultContentTypes
<1>2. CASE \E c \in Clients : OpenSSL!CipherOperation(c)
  <2>1. PICK key \in {OpenSSL!Export(o_object.id, TRUE), OpenSSL!Nothing} :
          o_object' = [o_object EXCEPT !.used = key]
    BY <1>2 DEF OpenSSL!CipherOperation
  <2>. QED
    BY <2>1, VaultLookupTypes, VaultContentTypes DEF OpenSSL!TypeOK
<1>3. CASE \E c \in Clients : OpenSSL!HmacKey(c)
  <2>1. \E c \in Clients :
          o_object' = [kind |-> "hmac", id |-> o_op[c].id, length |-> 0,
                                      used |-> OpenSSL!Export(o_op[c].id, TRUE)]
    BY <1>3 DEF OpenSSL!HmacKey
  <2>2. \A c \in Clients : o_op[c].id \in 0..MaxHandle
    BY DEF OpenSSL!TypeOK
  <2>3. \A id : OpenSSL!Export(id, TRUE) \in OpenSSL!Content
    BY VaultLookupTypes
  <2>4. \E id \in 0..MaxHandle, used \in OpenSSL!Content :
          o_object' = [kind |-> "hmac", id |-> id, length |-> 0, used |-> used]
    BY <2>1, <2>2, <2>3
  <2>. QED
    BY <2>4
<1>4. CASE \A c \in Clients : ~OpenSSL!CipherCreate(c)
             /\ ~OpenSSL!CipherOperation(c) /\ ~OpenSSL!HmacKey(c)
  <2>1. o_object' = o_object
    BY <1>4
       DEF OpenSSL!Next, OpenSSL!VaultImport, OpenSSL!VaultGenerate,
           OpenSSL!VaultGet, OpenSSL!VaultSet, OpenSSL!VaultExport,
           OpenSSL!VaultDelete, OpenSSL!HmacSize, OpenSSL!DhGenerate,
           OpenSSL!DhGeneratePublic, OpenSSL!DhDerive, OpenSSL!DhDerivePeer,
           OpenSSL!DhDeriveSecret, OpenSSL!DeriveKeys, OpenSSL!DeriveKeysPeer,
           OpenSSL!DeriveKeysKey, OpenSSL!DeriveKeysStore, OpenSSL!Others
  <2>. QED
    BY <2>1 DEF OpenSSL!TypeOK
<1>. QED
  BY <1>1, <1>2, <1>3, <1>4

-----------------------------------------------------------------------------
(* Sealed blobs. *)

\* What makes SealedIsNotExported inductive: what is exportable is clear or public.
VaultSealInv ==
  /\ OpenSSL!TypeOK
  /\ \A h \in OpenSSL!Handle : o_items[h].exportable
       => o_items[h].key.kind \in {"clear", "public"}
  /\ OpenSSL!SealedIsNotExported

LEMMA VaultSealInit ==
  ASSUME OpenSSL!HandleAssumption, OpenSSL!Init
  PROVE  VaultSealInv
<1>1. OpenSSL!TypeOK
  BY VaultTypeInit
<1>2. \A h \in OpenSSL!Handle : OpenSSL!BuiltIn(h).exportable
        => OpenSSL!BuiltIn(h).key.kind \in {"clear", "public"}
  BY DEF OpenSSL!BuiltIn, OpenSSL!Absent, OpenSSL!Secret, OpenSSL!Public,
         OpenSSL!KPE, OpenSSL!KPH, OpenSSL!KPW, OpenSSL!ESN
<1>3. \A h \in OpenSSL!Handle : o_items[h].exportable
        => o_items[h].key.kind \in {"clear", "public"}
  BY <1>2 DEF OpenSSL!Init, OpenSSL!Absent
<1>4. OpenSSL!SealedIsNotExported
  BY DEF OpenSSL!Init, OpenSSL!Data, OpenSSL!SealedIsNotExported
<1>. QED
  BY <1>1, <1>3, <1>4 DEF VaultSealInv

\* Every step keeps the types.
LEMMA VaultNextTypeStep ==
  ASSUME OpenSSL!HandleAssumption, VaultSealInv, [OpenSSL!Next]_(OpenSSL!vars)
  PROVE  OpenSSL!TypeOK'
<1>1. CASE OpenSSL!Next
  <2>1. OpenSSL!TypeOK /\ OpenSSL!SealedIsNotExported
    BY DEF VaultSealInv
  <2>2. o_op'
          \in [Clients -> [next : OpenSSL!Steps, id : 0..MaxHandle, ok :
            BOOLEAN]]
    BY <1>1, <2>1, VaultOperationTypeStep DEF VaultOperation
  <2>. QED
    BY <1>1, <2>1, <2>2, VaultTypeStep, VaultClientTypeStep, VaultObjectTypeStep
       DEF OpenSSL!TypeOK
<1>2. CASE UNCHANGED OpenSSL!vars
  BY <1>2
     DEF OpenSSL!vars, VaultSealInv, OpenSSL!TypeOK, OpenSSL!Blob,
         OpenSSL!Bytes, OpenSSL!Content
<1>. QED
  BY <1>1, <1>2

\* Every step keeps the secrets in.
LEMMA VaultSealStep ==
  ASSUME OpenSSL!HandleAssumption, VaultSealInv, [OpenSSL!Next]_(OpenSSL!vars)
  PROVE  VaultSealInv'
<1>. DEFINE Closed == \A h \in OpenSSL!Handle : o_items[h].exportable
       => o_items[h].key.kind \in {"clear", "public"}
<1>1. OpenSSL!TypeOK'
  BY VaultNextTypeStep
<1>2. OpenSSL!TypeOK /\ Closed /\ OpenSSL!SealedIsNotExported
  BY DEF VaultSealInv
<1>3. CASE VaultStores
  <2>1. PICK key \in OpenSSL!Content, size \in Nat, exportable \in BOOLEAN :
          /\ exportable => key.kind \in {"clear", "public"}
          /\ OpenSSL!Store(key, size, exportable)
    BY <1>3 DEF VaultStores
  <2>2. Closed'
    BY <1>2, <2>1 DEF OpenSSL!Store, OpenSSL!TypeOK
  <2>3. OpenSSL!SealedIsNotExported'
    BY <1>2, <1>3 DEF VaultStores, OpenSSL!SealedIsNotExported
  <2>. QED
    BY <1>1, <2>2, <2>3 DEF VaultSealInv
<1>4. CASE VaultKeeps \/ VaultUses
  BY <1>1, <1>2, <1>4
     DEF VaultKeeps, VaultUses, VaultSealInv, OpenSSL!SealedIsNotExported
<1>5. CASE \E c \in Clients : OpenSSL!VaultExport(c)
  <2>1. PICK id \in Targets :
          OpenSSL!Export(id, FALSE) # OpenSSL!Nothing
            /\ o_known' = o_known \cup {OpenSSL!Export(id, FALSE)}
    BY <1>5 DEF OpenSSL!VaultExport
  <2>2. OpenSSL!Export(id, FALSE).kind \in {"clear", "public"}
    BY <1>2, <2>1, VaultLookupTypes
  <2>3. o_items' = o_items
    BY <1>5 DEF OpenSSL!VaultExport
  <2>. QED
    BY <1>1, <1>2, <2>1, <2>2, <2>3 DEF VaultSealInv, OpenSSL!SealedIsNotExported
<1>6. CASE \E c \in Clients : OpenSSL!VaultDelete(c)
  <2>1. PICK id \in Targets : o_items' = [o_items EXCEPT ![id] = OpenSSL!Absent]
    BY <1>6 DEF OpenSSL!VaultDelete
  <2>2. o_known' = o_known
    BY <1>6 DEF OpenSSL!VaultDelete, OpenSSL!Others
  <2>3. Closed'
    BY <1>2, <2>1 DEF OpenSSL!TypeOK, OpenSSL!Absent
  <2>. QED
    BY <1>1, <1>2, <2>2, <2>3 DEF VaultSealInv, OpenSSL!SealedIsNotExported
<1>7. CASE UNCHANGED OpenSSL!vars
  BY <1>1, <1>2, <1>7 DEF OpenSSL!vars, VaultSealInv, OpenSSL!SealedIsNotExported
<1>. QED
  BY <1>2, <1>3, <1>4, <1>5, <1>6, <1>7, VaultKindsOfSteps

LEMMA VaultSealAlways ==
  ASSUME OpenSSL!HandleAssumption
  PROVE  OpenSSL!Spec => []VaultSealInv
<1>1. OpenSSL!Init => VaultSealInv
  BY VaultSealInit
<1>2. VaultSealInv /\ [OpenSSL!Next]_(OpenSSL!vars) => VaultSealInv'
  BY VaultSealStep
<1>. QED
  BY <1>1, <1>2, PTL DEF OpenSSL!Spec

\* Type correctness, for any number of clients and handles.
THEOREM VaultTypes ==
  ASSUME OpenSSL!HandleAssumption
  PROVE  OpenSSL!Spec => []OpenSSL!TypeOK
<1>1. VaultSealInv => OpenSSL!TypeOK
  BY DEF VaultSealInv
<1>. QED
  BY <1>1, VaultSealAlways, PTL

\* No sequence of calls of any number of clients, blobs that are cut or made by
\* the client among them, makes vault_export() hand out what is sealed.
THEOREM VaultSealedIsNotExported ==
  ASSUME OpenSSL!HandleAssumption
  PROVE  OpenSSL!Spec => []OpenSSL!SealedIsNotExported
<1>1. VaultSealInv => OpenSSL!SealedIsNotExported
  BY DEF VaultSealInv
<1>. QED
  BY <1>1, VaultSealAlways, PTL

-----------------------------------------------------------------------------
(* Handles. *)

\* What makes ObjectsKeepTheirKey inductive: handles after the last were never
\* used, so a new blob cannot get the handle of an older one.
VaultKeysInv ==
  /\ \A h \in OpenSSL!Handle : o_items[h].size > 0
       => o_items[h].key = o_first[h]
  /\ \A h \in OpenSSL!Handle : h > o_lastHandle => o_first[h] = OpenSSL!Nothing
  /\ o_object.used # OpenSSL!Nothing
       => /\ o_object.id \in OpenSSL!Handle
          /\ o_object.used = o_first[o_object.id]

LEMMA VaultKeysInit ==
  ASSUME OpenSSL!HandleAssumption, OpenSSL!Init
  PROVE  VaultKeysInv
<1>1. \A h \in OpenSSL!Handle : h > UserBase
        => OpenSSL!BuiltIn(h) = OpenSSL!Absent
  BY DEF OpenSSL!HandleAssumption, OpenSSL!Handle, OpenSSL!BuiltIn, OpenSSL!KPE,
         OpenSSL!KPH, OpenSSL!KPW, OpenSSL!ESN
<1>2. \A h \in OpenSSL!Handle : h > o_lastHandle => o_first[h] = OpenSSL!Nothing
  BY <1>1 DEF OpenSSL!Init, OpenSSL!Absent
<1>. QED
  BY <1>2 DEF OpenSSL!Init, VaultKeysInv, OpenSSL!NoObject

LEMMA VaultKeysStep ==
  ASSUME OpenSSL!HandleAssumption, VaultSealInv, VaultKeysInv,
         [OpenSSL!Next]_(OpenSSL!vars)
  PROVE  VaultKeysInv'
<1>1. OpenSSL!TypeOK /\ OpenSSL!SealedIsNotExported
  BY DEF VaultSealInv
<1>2. CASE VaultStores
  <2>1. PICK key \in OpenSSL!Content, size \in Nat, exportable \in BOOLEAN :
          OpenSSL!Store(key, size, exportable)
    BY <1>2 DEF VaultStores
  <2>2. o_object' = o_object
    BY <1>2 DEF VaultStores
  <2>3. CASE OpenSSL!NextHandle = 0
    BY <2>1, <2>2, <2>3 DEF OpenSSL!Store, VaultKeysInv
  <2>4. CASE OpenSSL!NextHandle # 0
    <3>. DEFINE n == OpenSSL!NextHandle
    <3>1. /\ n \in OpenSSL!Handle /\ n > o_lastHandle /\ n \in Int
          /\ o_lastHandle \in Int
      BY <1>1, <2>4, VaultContentTypes DEF OpenSSL!TypeOK, OpenSSL!Handle
    <3>2. o_first[n] = OpenSSL!Nothing
      BY <3>1 DEF VaultKeysInv
    <3>3. /\ o_lastHandle' = n
          /\ o_items'[n].key = key
          /\ o_first'[n] = key
          /\ \A h \in OpenSSL!Handle \ {n} : /\ o_items'[h] = o_items[h]
                                             /\ o_first'[h] = o_first[h]
      BY <1>1, <2>1, <2>4, <3>1, <3>2 DEF OpenSSL!Store, OpenSSL!TypeOK
    <3>4. \A h \in OpenSSL!Handle : h \in Int
      BY DEF OpenSSL!Handle
    <3>. HIDE DEF n
    <3>5. \A h \in OpenSSL!Handle : o_items'[h].size > 0
            => o_items'[h].key = o_first'[h]
      BY <3>3 DEF VaultKeysInv
    <3>6. \A h \in OpenSSL!Handle : h > o_lastHandle'
            => o_first'[h] = OpenSSL!Nothing
      BY <3>1, <3>3, <3>4 DEF VaultKeysInv
    <3>7. o_object.used # OpenSSL!Nothing => o_object.id # n
      BY <3>2 DEF VaultKeysInv
    <3>8. o_object'.used # OpenSSL!Nothing
            => /\ o_object'.id \in OpenSSL!Handle
               /\ o_object'.used = o_first'[o_object'.id]
      BY <2>2, <3>3, <3>7 DEF VaultKeysInv
    <3>. QED
      BY <3>5, <3>6, <3>8 DEF VaultKeysInv
  <2>. QED
    BY <2>3, <2>4
<1>3. CASE VaultKeeps
  BY <1>3 DEF VaultKeeps, VaultKeysInv
<1>4. CASE VaultUses
  <2>1. UNCHANGED <<o_items, o_lastHandle, o_first>>
    BY <1>4 DEF VaultUses
  <2>2. o_object'.used # OpenSSL!Nothing
          => /\ o_object'.id \in OpenSSL!Handle
             /\ o_object'.used = o_first[o_object'.id]
    BY <1>1, <1>4, VaultLookupTypes DEF VaultUses, VaultKeysInv
  <2>. QED
    BY <2>1, <2>2 DEF VaultKeysInv
<1>5. CASE \E c \in Clients : OpenSSL!VaultExport(c)
  BY <1>5 DEF OpenSSL!VaultExport, VaultKeysInv
<1>6. CASE \E c \in Clients : OpenSSL!VaultDelete(c)
  <2>1. PICK id \in Targets : o_items' = [o_items EXCEPT ![id] = OpenSSL!Absent]
    BY <1>6 DEF OpenSSL!VaultDelete
  <2>2. UNCHANGED <<o_lastHandle, o_first, o_object>>
    BY <1>6 DEF OpenSSL!VaultDelete, OpenSSL!Others
  <2>3. \A h \in OpenSSL!Handle : o_items'[h].size > 0
          => o_items'[h] = o_items[h]
    BY <1>1, <2>1 DEF OpenSSL!TypeOK, OpenSSL!Absent
  <2>4. \A h \in OpenSSL!Handle : o_items'[h].size > 0
          => o_items'[h].key = o_first'[h]
    BY <2>2, <2>3 DEF VaultKeysInv
  <2>. QED
    BY <2>2, <2>4 DEF VaultKeysInv
<1>7. CASE UNCHANGED OpenSSL!vars
  BY <1>7 DEF OpenSSL!vars, VaultKeysInv
<1>. QED
  BY <1>1, <1>2, <1>3, <1>4, <1>5, <1>6, <1>7, VaultKindsOfSteps

\* A handle names one content for ever, whatever is deleted and stored, and an
\* object that uses its key uses that content.
THEOREM VaultHandlesNameOneKey ==
  ASSUME OpenSSL!HandleAssumption
  PROVE  OpenSSL!Spec => []OpenSSL!ObjectsKeepTheirKey
<1>1. OpenSSL!Init => VaultKeysInv
  BY VaultKeysInit
<1>2. VaultSealInv /\ VaultKeysInv /\ [OpenSSL!Next]_(OpenSSL!vars)
        => VaultKeysInv'
  BY VaultKeysStep
<1>3. VaultKeysInv => OpenSSL!ObjectsKeepTheirKey
  BY DEF VaultKeysInv, OpenSSL!ObjectsKeepTheirKey
<1>. QED
  BY <1>1, <1>2, <1>3, VaultSealAlways, PTL DEF OpenSSL!Spec

-----------------------------------------------------------------------------
-----------------------------------------------------------------------------
(* Types. *)

\* The numbers of the bounds.
LEMMA SecApiBounds ==
  ASSUME SecApi!SecApiIds, SecApi!TypeOK
  PROVE  /\ \A h \in SecApi!Handle : h \in Nat /\ h \in 0..MaxItems
         /\ SecApi!CanStore => /\ k_lastHandle + 1 \in SecApi!Handle
                        /\ k_lastHandle + 1 \in 0..MaxItems
                        /\ \A h \in SecApi!Handle : h > k_lastHandle + 1
                             => h > k_lastHandle
BY DEF SecApi!SecApiIds, SecApi!TypeOK, SecApi!Handle, SecApi!CanStore

\* An item that has its type is emplaced under the next handle.
LEMMA SecApiEmplaceEffect ==
  ASSUME SecApi!SecApiIds, SecApi!TypeOK, SecApi!CanStore,
         NEW item \in SecApi!Item, SecApi!Emplace(item)
  PROVE  /\ k_items' \in [SecApi!Handle -> SecApi!Item]
         /\ k_lastHandle' \in 0..MaxItems
         /\ k_lastHandle' = k_lastHandle + 1
         /\ k_items'[k_lastHandle'] = item
         /\ \A h \in SecApi!Handle \ {k_lastHandle'} : k_items'[h] = k_items[h]
<1>1. k_lastHandle + 1 \in SecApi!Handle /\ k_lastHandle + 1 \in 0..MaxItems
  BY SecApiBounds
<1>. QED
  BY <1>1 DEF SecApi!Emplace, SecApi!TypeOK

\* What an import may leave behind: objects the processor refused to delete, or
\* an item that holds what it made.
SecApiImported(key) ==
  \/ /\ \E left \in SUBSET Objects :
          /\ k_objects' = k_objects \cup left
          /\ k_refused' = k_refused \cup left
          /\ left # {} => k_open
     /\ UNCHANGED <<k_items, k_lastHandle>>
  \/ \E item \in SecApi!Item :
       /\ k_open
       /\ item.key = key
       /\ k_objects' = k_objects \cup ({item.hmac, item.aes} \ {0})
       /\ {item.hmac, item.aes} \subseteq {0} \cup Objects
       /\ k_refused' = k_refused
       /\ SecApi!Emplace(item)

\* What the processor answers to one request.
LEMMA SecApiProvisionsAnswer ==
  ASSUME NEW used, NEW answer \in SecApi!Provisions(used)
  PROVE  /\ answer.id \in {0} \cup Objects
         /\ answer.ok \in BOOLEAN
         /\ answer.ok => k_open
<1>1. CASE answer = [id |-> 0, ok |-> FALSE]
  BY <1>1
<1>2. CASE answer # [id |-> 0, ok |-> FALSE]
  <2>1. k_open /\ answer \in [id : Objects \ used, ok : BOOLEAN]
    BY <1>2 DEF SecApi!Provisions
  <2>. QED
    BY <2>1
<1>. QED
  BY <1>1, <1>2

LEMMA SecApiImportEffect ==
  ASSUME SecApi!SecApiIds, SecApi!TypeOK, NEW key \in Keys,
         NEW size \in SecApi!Sizes, SecApi!Import(key, size)
  PROVE  /\ SecApi!CanStore
         /\ SecApiImported(key)
         /\ UNCHANGED <<k_files, k_open, k_computer>>
<1>. DEFINE AesAnswers == CASE size \in {16, 32} -> SecApi!Provisions(k_objects)
                            [] size = 20 -> {[id |-> 0, ok |-> TRUE]}
                            [] OTHER -> {[id |-> 0, ok |-> FALSE]}
            SecApiHmacAnswers(aes) ==
              IF size = 24 THEN {[id |-> 0, ok |-> FALSE]}
              ELSE SecApi!Provisions(k_objects \cup
                  (IF aes.ok THEN {aes.id} ELSE {}))
            SecApiLeaves(aes, hmac) ==
              /\ \E result \in SecApi!Outcome(aes, hmac) :
                   /\ k_objects' = k_objects \cup result.kept
                   /\ k_refused' = k_refused \cup result.refused
              /\ IF aes.ok /\ hmac.ok
                 THEN SecApi!Emplace([kind |-> "key", hmac |-> hmac.id,
                   aes |-> aes.id,
                               length |-> size, exportable |-> TRUE,
                                 key |-> key])
                 ELSE UNCHANGED <<k_items, k_lastHandle>>
<1>1. size \in {16, 20, 24, 32}
  BY DEF SecApi!Sizes
<1>2. PICK aes \in AesAnswers : \E hmac \in SecApiHmacAnswers(aes) :
        SecApiLeaves(aes, hmac)
  BY DEF SecApi!Import
<1>3. PICK hmac \in SecApiHmacAnswers(aes) : SecApiLeaves(aes, hmac)
  BY <1>2
<1>4. /\ aes.id \in {0} \cup Objects /\ aes.ok \in BOOLEAN
      /\ aes.ok => size # 24
      /\ aes.ok /\ aes.id # 0 => k_open
  <2>1. CASE size \in {16, 32}
    BY <2>1, SecApiProvisionsAnswer
  <2>2. CASE size \notin {16, 32}
    <3>1. AesAnswers = IF size = 20 THEN {[id |-> 0, ok |-> TRUE]}
                       ELSE {[id |-> 0, ok |-> FALSE]}
      BY <2>2
    <3>. HIDE DEF AesAnswers
    <3>2. CASE size = 20
      <4>1. aes = [id |-> 0, ok |-> TRUE]
        BY <3>1, <3>2
      <4>. QED
        BY <3>2, <4>1
    <3>3. CASE size # 20
      <4>1. aes = [id |-> 0, ok |-> FALSE]
        BY <3>1, <3>3
      <4>. QED
        BY <4>1
    <3>. QED
      BY <3>2, <3>3
  <2>. QED
    BY <2>1, <2>2
<1>5. hmac.id \in {0} \cup Objects /\ hmac.ok \in BOOLEAN /\ (hmac.ok => k_open)
  <2>1. CASE size = 24
    <3>1. hmac = [id |-> 0, ok |-> FALSE]
      BY <2>1
    <3>. QED
      BY <3>1
  <2>2. CASE size # 24
    BY <2>2, SecApiProvisionsAnswer
  <2>. QED
    BY <2>1, <2>2
<1>6. SecApiImported(key)
  <2>1. CASE ~(aes.ok /\ hmac.ok)
    <3>. DEFINE made == {r.id : r \in {x \in {aes, hmac} : x.ok}} \ {0}
    <3>1. PICK result \in {[kept |-> left, refused |-> left] :
                             left \in SUBSET made} :
            /\ k_objects' = k_objects \cup result.kept
            /\ k_refused' = k_refused \cup result.refused
      BY <1>3, <2>1 DEF SecApi!Outcome
    <3>2. made \subseteq Objects /\ (made # {} => k_open)
      BY <1>4, <1>5
    <3>. HIDE DEF made
    <3>3. PICK left \in SUBSET made : result = [kept |-> left, refused |-> left]
      BY <3>1
    <3>4. /\ left \in SUBSET Objects
          /\ left # {} => k_open
          /\ k_objects' = k_objects \cup left
          /\ k_refused' = k_refused \cup left
      BY <3>1, <3>2, <3>3
    <3>. QED
      BY <1>3, <2>1, <3>4 DEF SecApiImported
  <2>2. CASE aes.ok /\ hmac.ok
    <3>. DEFINE item == [kind |-> "key", hmac |-> hmac.id, aes |-> aes.id,
                         length |-> size, exportable |-> TRUE, key |-> key]
    <3>1. size \in {16, 20, 32}
      BY <1>1, <1>4, <2>2
    <3>2. item \in SecApi!Item
      BY <1>4, <1>5, <3>1 DEF SecApi!Item, SecApi!Id
    <3>3. /\ item.hmac = hmac.id /\ item.aes = aes.id /\ item.key = key
          /\ aes.id \in {0} \cup Objects /\ hmac.id \in {0} \cup Objects
          /\ k_open
      BY <1>4, <1>5, <2>2
    <3>4. /\ k_objects' = k_objects \cup ({item.hmac, item.aes} \ {0})
          /\ k_refused' = k_refused
      <4>1. PICK result \in SecApi!Outcome(aes, hmac) :
              /\ k_objects' = k_objects \cup result.kept
              /\ k_refused' = k_refused \cup result.refused
        BY <1>3
      <4>2. /\ result.kept = {aes.id, hmac.id} \ {0}
            /\ result.refused = {}
        BY <2>2, <4>1 DEF SecApi!Outcome
      <4>. QED
        BY <3>3, <4>1, <4>2
    <3>5. SecApi!Emplace(item)
      BY <1>3, <2>2
    <3>. HIDE DEF item
    <3>. QED
      BY <3>2, <3>3, <3>4, <3>5 DEF SecApiImported
  <2>. QED
    BY <2>1, <2>2
<1>. QED
  BY <1>6 DEF SecApi!Import

\* An import that stored no item.
LEMMA SecApiImportedKeeps ==
  ASSUME SecApi!SecApiIds, SecApi!TypeOK, SecApi!CanStore, NEW key,
         SecApiImported(key), UNCHANGED <<k_items, k_lastHandle>>
  PROVE  \E left \in SUBSET Objects :
           /\ k_objects' = k_objects \cup left
           /\ k_refused' = k_refused \cup left
           /\ left # {} => k_open
<1>1. ASSUME NEW item \in SecApi!Item, SecApi!Emplace(item)
      PROVE  FALSE
  <2>1. k_lastHandle' = k_lastHandle + 1 /\ k_lastHandle \in Nat
    BY <1>1, SecApiEmplaceEffect DEF SecApi!TypeOK
  <2>. QED
    BY <2>1
<1>. QED
  BY <1>1 DEF SecApiImported

\* A named key's item.
LEMMA SecApiNamedItemType ==
  ASSUME SecApi!SecApiIds, NEW name \in KeyNames, NEW type \in {"hmac", "aes"},
         NEW garbage \in SecApi!Id
  PROVE  /\ SecApi!NamedItem(SecApi!NamedIds(name, type, garbage))
              \in SecApi!Item
         /\ name # 0
         /\ name
              \in {SecApi!NamedItem(SecApi!NamedIds(name, type, garbage)).hmac,
                      SecApi!NamedItem(SecApi!NamedIds(name, type,
                        garbage)).aes}
BY DEF SecApi!NamedItem, SecApi!NamedIds, SecApi!Item, SecApi!Id,
       SecApi!SecApiIds

LEMMA SecApiTypeInit == ASSUME SecApi!SecApiIds, SecApi!Init PROVE SecApi!TypeOK
<1>1. SecApi!Absent \in SecApi!Item
  BY DEF SecApi!Absent, SecApi!Item, SecApi!Id
<1>2. SecApi!NoComputer \in SecApi!Computer
  BY DEF SecApi!NoComputer, SecApi!Computer, SecApi!Id, SecApi!SecApiIds
<1>. QED
  BY <1>1, <1>2 DEF SecApi!Init, SecApi!TypeOK, SecApi!SecApiIds

\* The application's cipher or hash: the calls that only use the vault.
SecApiComputes ==
  \/ SecApi!CipherCreate \/ SecApi!CipherOperation \/ SecApi!DigestCreate
  \/ SecApi!HmacCreate \/ SecApi!Calculate \/ SecApi!ComputerDestroy

LEMMA SecApiComputesEffect ==
  ASSUME SecApi!SecApiIds, SecApi!TypeOK, SecApiComputes
  PROVE  /\ UNCHANGED <<k_items, k_lastHandle, k_objects, k_files, k_open,
              k_refused>>
         /\ k_computer' \in SecApi!Computer
<1>1. /\ SecApi!NoComputer \in SecApi!Computer
      /\ \A h \in SecApi!Handle : h \in 0..MaxItems
           /\ k_items[h].hmac \in SecApi!Id /\ k_items[h].aes \in SecApi!Id
      /\ 0 \in SecApi!Id
  BY DEF SecApi!NoComputer, SecApi!Computer, SecApi!Id, SecApi!SecApiIds,
         SecApi!Handle, SecApi!TypeOK, SecApi!Item
<1>2. CASE SecApi!CipherCreate
  BY <1>1, <1>2 DEF SecApi!CipherCreate, SecApi!Computer
<1>3. CASE SecApi!CipherOperation
  <2>1. PICK key \in {0}
          \cup {id \in {k_items[k_computer.id].aes} \cap k_objects :
                                SecApi!Export(k_computer.id) # 0} :
          k_computer' = [k_computer EXCEPT !.key = key]
    BY <1>3 DEF SecApi!CipherOperation
  <2>2. key \in SecApi!Id
    BY DEF SecApi!TypeOK, SecApi!Id
  <2>3. UNCHANGED <<k_items, k_lastHandle, k_objects, k_files, k_open, k_refused>>
    BY <1>3 DEF SecApi!CipherOperation
  <2>. QED
    BY <2>1, <2>2, <2>3 DEF SecApi!TypeOK, SecApi!Computer
<1>4. \A usable : \A i \in SecApi!Instance(usable) :
        i.handle \in {"unset", "open", "used"} /\ i.failed \in BOOLEAN
  <2>. SUFFICES ASSUME NEW usable, NEW i \in SecApi!Instance(usable)
                PROVE  /\ i.handle \in {"unset", "open", "used"}
                       /\ i.failed \in BOOLEAN
    OBVIOUS
  <2>1. \/ i = [handle |-> "open", failed |-> FALSE]
        \/ i = [handle |-> "unset", failed |-> TRUE]
        \/ i = [handle |-> "unset", failed |-> FALSE]
    BY DEF SecApi!Instance
  <2>2. CASE i = [handle |-> "open", failed |-> FALSE]
    BY <2>2
  <2>3. CASE i = [handle |-> "unset", failed |-> TRUE]
    BY <2>3
  <2>4. CASE i = [handle |-> "unset", failed |-> FALSE]
    BY <2>4
  <2>. QED
    BY <2>1, <2>2, <2>3, <2>4
<1>5. CASE SecApi!DigestCreate
  <2>1. \E handle \in {"unset", "open", "used"}, failed \in BOOLEAN :
          k_computer'
            = [SecApi!NoComputer EXCEPT !.kind = "digest", !.handle = handle,
                                         !.failed = failed]
    BY <1>4, <1>5 DEF SecApi!DigestCreate
  <2>2. UNCHANGED <<k_items, k_lastHandle, k_objects, k_files, k_open, k_refused>>
    BY <1>5 DEF SecApi!DigestCreate
  <2>. QED
    BY <1>1, <2>1, <2>2 DEF SecApi!Computer
<1>6. CASE SecApi!HmacCreate
  <2>1. \E h \in SecApi!Handle, handle \in {"unset", "open", "used"},
          failed \in BOOLEAN :
          k_computer' = [kind |-> "hmac", id |-> h, key |-> k_items[h].hmac,
                       handle |-> handle, failed |-> failed]
    BY <1>4, <1>6 DEF SecApi!HmacCreate
  <2>2. UNCHANGED <<k_items, k_lastHandle, k_objects, k_files, k_open, k_refused>>
    BY <1>6 DEF SecApi!HmacCreate
  <2>. QED
    BY <1>1, <2>1, <2>2 DEF SecApi!Computer
<1>7. CASE SecApi!Calculate
  BY <1>7 DEF SecApi!Calculate, SecApi!TypeOK, SecApi!Computer
<1>8. CASE SecApi!ComputerDestroy
  BY <1>1, <1>8 DEF SecApi!ComputerDestroy
<1>. QED
  BY <1>2, <1>3, <1>5, <1>6, <1>7, <1>8 DEF SecApiComputes

LEMMA SecApiTypeStep ==
  ASSUME SecApi!SecApiIds, SecApi!TypeOK, [SecApi!Next]_(SecApi!vars)
  PROVE  SecApi!TypeOK'
<1>1. CASE SecApi!VaultImport
  <2>1. PICK key \in Keys, size \in SecApi!Sizes : SecApi!Import(key, size)
    BY <1>1 DEF SecApi!VaultImport
  <2>2. /\ SecApi!CanStore
        /\ SecApiImported(key)
        /\ UNCHANGED <<k_files, k_open, k_computer>>
    BY <2>1, SecApiImportEffect
  <2>3. CASE UNCHANGED <<k_items, k_lastHandle>>
    <3>1. PICK left \in SUBSET Objects :
            /\ k_objects' = k_objects \cup left
            /\ k_refused' = k_refused \cup left
      BY <2>2, <2>3, SecApiImportedKeeps
    <3>. QED
      BY <2>2, <2>3, <3>1 DEF SecApi!TypeOK
  <2>4. CASE ~UNCHANGED <<k_items, k_lastHandle>>
    <3>1. PICK item \in SecApi!Item :
            /\ k_objects' = k_objects \cup ({item.hmac, item.aes} \ {0})
            /\ {item.hmac, item.aes} \subseteq {0} \cup Objects
            /\ k_refused' = k_refused
            /\ SecApi!Emplace(item)
      BY <2>2, <2>4 DEF SecApiImported
    <3>2. /\ k_items' \in [SecApi!Handle -> SecApi!Item]
          /\ k_lastHandle' \in 0..MaxItems
      BY <2>2, <3>1, SecApiEmplaceEffect
    <3>3. /\ k_objects' \subseteq Objects \cup KeyNames
          /\ k_refused' \subseteq k_objects'
      BY <3>1 DEF SecApi!TypeOK
    <3>. QED
      BY <2>2, <3>2, <3>3 DEF SecApi!TypeOK
  <2>. QED
    BY <2>3, <2>4
<1>2. CASE SecApi!CreateNamedKey \/ SecApi!ImportNamedKey
  <2>1. PICK name \in KeyNames, type \in {"hmac", "aes"},
          garbage \in SecApi!Id :
          SecApi!Emplace(SecApi!NamedItem(SecApi!NamedIds(name, type, garbage)))
    BY <1>2 DEF SecApi!CreateNamedKey, SecApi!ImportNamedKey
  <2>2. SecApi!CanStore
    BY <1>2 DEF SecApi!CreateNamedKey, SecApi!ImportNamedKey
  <2>3. /\ k_items' \in [SecApi!Handle -> SecApi!Item]
        /\ k_lastHandle' \in 0..MaxItems
    BY <2>1, <2>2, SecApiNamedItemType, SecApiEmplaceEffect
  <2>4. /\ k_objects' \subseteq Objects \cup KeyNames
        /\ k_files' \subseteq KeyNames
        /\ k_refused' \subseteq k_objects'
    BY <1>2 DEF SecApi!CreateNamedKey, SecApi!ImportNamedKey, SecApi!TypeOK
  <2>5. UNCHANGED <<k_open, k_computer>>
    BY <1>2 DEF SecApi!CreateNamedKey, SecApi!ImportNamedKey
  <2>. QED
    BY <2>3, <2>4, <2>5 DEF SecApi!TypeOK
<1>3. CASE SecApi!Put
  <2>1. [SecApi!Absent EXCEPT !.kind = "data"] \in SecApi!Item
    BY DEF SecApi!Absent, SecApi!Item, SecApi!Id
  <2>2. /\ k_items' \in [SecApi!Handle -> SecApi!Item]
        /\ k_lastHandle' \in 0..MaxItems
    BY <1>3, <2>1, SecApiEmplaceEffect DEF SecApi!Put
  <2>3. UNCHANGED <<k_objects, k_files, k_open, k_computer, k_refused>>
    BY <1>3 DEF SecApi!Put
  <2>. QED
    BY <2>2, <2>3 DEF SecApi!TypeOK
<1>4. CASE SecApi!VaultDelete
  <2>1. PICK h \in SecApi!Handle : SecApi!Delete(h)
    BY <1>4 DEF SecApi!VaultDelete
  <2>2. SecApi!Absent \in SecApi!Item
    BY DEF SecApi!Absent, SecApi!Item, SecApi!Id
  <2>. QED
    BY <2>1, <2>2 DEF SecApi!Delete, SecApi!TypeOK
<1>5. CASE SecApi!ProcessorRelease
  BY <1>5 DEF SecApi!ProcessorRelease, SecApi!TypeOK
<1>6. CASE SecApiComputes
  BY <1>6, SecApiComputesEffect DEF SecApi!TypeOK
<1>7. CASE UNCHANGED SecApi!vars
  BY <1>7 DEF SecApi!vars, SecApi!TypeOK, SecApi!Computer
<1>. QED
  BY <1>1, <1>2, <1>3, <1>4, <1>5, <1>6, <1>7 DEF SecApi!Next, SecApiComputes

-----------------------------------------------------------------------------
(* Objects. *)

\* What makes OrphansWereRefused inductive: handles after the last hold nothing
\* that could be lost when an item is emplaced there, and a processor that was
\* given back has only the objects of its files.
SecApiOwnedInv ==
  /\ SecApi!OrphansWereRefused
  /\ \A h \in SecApi!Handle : h > k_lastHandle => k_items[h] = SecApi!Absent
  /\ ~k_open => k_objects \subseteq k_files

\* An item under the next handle takes nothing from the others.
LEMMA SecApiEmplaceOwns ==
  ASSUME SecApi!SecApiIds, SecApi!TypeOK, SecApiOwnedInv, SecApi!CanStore,
         NEW item \in SecApi!Item, SecApi!Emplace(item)
  PROVE  /\ \A id : (\E h \in SecApi!Handle : id \in SecApi!Held(h))
              => \E h \in SecApi!Handle : id \in SecApi!Held(h)'
         /\ \A id \in {item.hmac, item.aes} \ {0} : \E h \in SecApi!Handle :
              id \in SecApi!Held(h)'
         /\ \A h \in SecApi!Handle : h > k_lastHandle'
              => k_items'[h] = SecApi!Absent
<1>1. /\ k_lastHandle' = k_lastHandle + 1
      /\ k_items'[k_lastHandle'] = item
      /\ \A h \in SecApi!Handle \ {k_lastHandle'} : k_items'[h] = k_items[h]
      /\ k_lastHandle' \in SecApi!Handle
      /\ k_lastHandle \in Nat
      /\ \A h \in SecApi!Handle : h \in Nat
  BY SecApiEmplaceEffect, SecApiBounds DEF SecApi!TypeOK
<1>2. SecApi!Held(k_lastHandle') = {}
  <2>1. k_items[k_lastHandle'] = SecApi!Absent
    BY <1>1 DEF SecApiOwnedInv
  <2>. QED
    BY <2>1 DEF SecApi!Held, SecApi!Absent
<1>3. \A h \in SecApi!Handle \ {k_lastHandle'} :
        SecApi!Held(h)' = SecApi!Held(h)
  BY <1>1 DEF SecApi!Held
<1>4. \A h \in SecApi!Handle : h = k_lastHandle'
        => SecApi!Held(h)' = {item.hmac, item.aes} \ {0}
  BY <1>1 DEF SecApi!Held
<1>5. \A h \in SecApi!Handle : h > k_lastHandle'
        => h > k_lastHandle /\ h # k_lastHandle'
  BY <1>1
<1>6. \A h \in SecApi!Handle : h > k_lastHandle' => k_items'[h] = SecApi!Absent
  BY <1>1, <1>5 DEF SecApiOwnedInv
<1>. QED
  BY <1>1, <1>2, <1>3, <1>4, <1>6

LEMMA SecApiOwnedStep ==
  ASSUME SecApi!SecApiIds, SecApi!TypeOK, SecApiOwnedInv,
         [SecApi!Next]_(SecApi!vars)
  PROVE  SecApiOwnedInv'
<1>. DEFINE Owned(id) == \E h \in SecApi!Handle : id \in SecApi!Held(h)
<1>a. \A id \in k_objects \ k_files : Owned(id) \/ id \in k_refused
  BY DEF SecApiOwnedInv, SecApi!OrphansWereRefused
<1>1. CASE SecApi!VaultImport
  <2>1. PICK key \in Keys, size \in SecApi!Sizes : SecApi!Import(key, size)
    BY <1>1 DEF SecApi!VaultImport
  <2>2. SecApi!CanStore /\ SecApiImported(key) /\ UNCHANGED <<k_files, k_open>>
    BY <2>1, SecApiImportEffect
  <2>3. CASE UNCHANGED <<k_items, k_lastHandle>>
    <3>1. PICK left \in SUBSET Objects :
            /\ k_objects' = k_objects \cup left
            /\ k_refused' = k_refused \cup left
            /\ left # {} => k_open
      BY <2>2, <2>3, SecApiImportedKeeps
    <3>2. \A h \in SecApi!Handle : SecApi!Held(h)' = SecApi!Held(h)
      BY <2>3 DEF SecApi!Held
    <3>3. SecApi!OrphansWereRefused'
      BY <1>a, <2>2, <3>1, <3>2 DEF SecApi!OrphansWereRefused
    <3>. QED
      BY <2>2, <2>3, <3>1, <3>3 DEF SecApiOwnedInv
  <2>4. CASE ~UNCHANGED <<k_items, k_lastHandle>>
    <3>1. PICK item \in SecApi!Item :
            /\ k_open
            /\ k_refused' = k_refused
            /\ k_objects' = k_objects \cup ({item.hmac, item.aes} \ {0})
            /\ SecApi!Emplace(item)
      BY <2>2, <2>4 DEF SecApiImported
    <3>2. /\ \A id : Owned(id)
               => \E h \in SecApi!Handle : id \in SecApi!Held(h)'
          /\ \A id \in {item.hmac, item.aes} \ {0} : \E h \in SecApi!Handle :
               id \in SecApi!Held(h)'
          /\ \A h \in SecApi!Handle : h > k_lastHandle'
               => k_items'[h] = SecApi!Absent
      BY <2>2, <3>1, SecApiEmplaceOwns
    <3>3. SecApi!OrphansWereRefused'
      BY <1>a, <2>2, <3>1, <3>2 DEF SecApi!OrphansWereRefused
    <3>. QED
      BY <2>2, <3>1, <3>2, <3>3 DEF SecApiOwnedInv
  <2>. QED
    BY <2>3, <2>4
<1>2. CASE SecApi!CreateNamedKey \/ SecApi!ImportNamedKey
  <2>1. PICK name \in KeyNames, type \in {"hmac", "aes"},
          garbage \in SecApi!Id :
          SecApi!Emplace(SecApi!NamedItem(SecApi!NamedIds(name, type, garbage)))
    BY <1>2 DEF SecApi!CreateNamedKey, SecApi!ImportNamedKey
  <2>2. /\ k_open /\ k_open' = k_open /\ SecApi!CanStore
        /\ k_objects' \ k_files' \subseteq k_objects \ k_files
        /\ k_refused' = k_refused
    BY <1>2 DEF SecApi!CreateNamedKey, SecApi!ImportNamedKey
  <2>3. SecApi!NamedItem(SecApi!NamedIds(name, type, garbage)) \in SecApi!Item
    BY SecApiNamedItemType
  <2>4. /\ \A id : Owned(id) => \E h \in SecApi!Handle : id \in SecApi!Held(h)'
        /\ \A h \in SecApi!Handle : h > k_lastHandle'
             => k_items'[h] = SecApi!Absent
    BY <2>1, <2>2, <2>3, SecApiEmplaceOwns
  <2>5. SecApi!OrphansWereRefused'
    BY <1>a, <2>2, <2>4 DEF SecApi!OrphansWereRefused
  <2>. QED
    BY <2>2, <2>4, <2>5 DEF SecApiOwnedInv
<1>3. CASE SecApi!Put
  <2>1. [SecApi!Absent EXCEPT !.kind = "data"] \in SecApi!Item
    BY DEF SecApi!Absent, SecApi!Item, SecApi!Id
  <2>2. /\ k_open /\ SecApi!CanStore
        /\ UNCHANGED <<k_objects, k_files, k_open, k_refused>>
    BY <1>3 DEF SecApi!Put
  <2>3. SecApi!Emplace([SecApi!Absent EXCEPT !.kind = "data"])
    BY <1>3 DEF SecApi!Put
  <2>4. /\ \A id : Owned(id) => \E h \in SecApi!Handle : id \in SecApi!Held(h)'
        /\ \A h \in SecApi!Handle : h > k_lastHandle'
             => k_items'[h] = SecApi!Absent
    BY <2>1, <2>2, <2>3, SecApiEmplaceOwns
  <2>5. SecApi!OrphansWereRefused'
    BY <1>a, <2>2, <2>4 DEF SecApi!OrphansWereRefused
  <2>. QED
    BY <2>2, <2>4, <2>5 DEF SecApiOwnedInv
<1>4. CASE SecApi!VaultDelete
  <2>1. PICK h \in SecApi!Handle : SecApi!Delete(h)
    BY <1>4 DEF SecApi!VaultDelete
  <2>2. PICK gone \in SUBSET (IF k_open THEN SecApi!Held(h) \cap k_objects
                               ELSE {}) :
        /\ k_objects' = k_objects \ gone
        /\ k_refused'
             = (k_refused \cup (SecApi!Held(h) \cap k_objects)) \ gone
        /\ k_files' = k_files \cap k_objects'
        /\ k_items' = [k_items EXCEPT ![h] = SecApi!Absent]
        /\ UNCHANGED <<k_lastHandle, k_open>>
    BY <2>1 DEF SecApi!Delete
  <2>3. \A g \in SecApi!Handle \ {h} : SecApi!Held(g)' = SecApi!Held(g)
    BY <2>2 DEF SecApi!Held, SecApi!TypeOK
  <2>4. \A g \in SecApi!Handle : g > k_lastHandle'
          => k_items'[g] = SecApi!Absent
    BY <2>2 DEF SecApiOwnedInv, SecApi!TypeOK
  <2>5. CASE k_open
    <3>1. \A id \in k_objects' \ k_files' :
            /\ id \in k_objects \ k_files
            /\ id \in SecApi!Held(h) \cup k_refused => id \in k_refused'
      BY <2>2, <2>5
    <3>2. SecApi!OrphansWereRefused'
      BY <1>a, <2>3, <3>1 DEF SecApi!OrphansWereRefused
    <3>. QED
      BY <2>2, <2>4, <2>5, <3>2 DEF SecApiOwnedInv
  <2>6. CASE ~k_open
    <3>1. k_objects' \subseteq k_files'
      BY <2>2, <2>6 DEF SecApiOwnedInv
    <3>. QED
      BY <2>2, <2>4, <3>1 DEF SecApiOwnedInv, SecApi!OrphansWereRefused
  <2>. QED
    BY <2>5, <2>6
<1>5. CASE SecApi!ProcessorRelease
  BY <1>5 DEF SecApi!ProcessorRelease, SecApiOwnedInv, SecApi!OrphansWereRefused
<1>6. CASE SecApiComputes
  <2>1. UNCHANGED <<k_items, k_lastHandle, k_objects, k_files, k_open,
                    k_refused>>
    BY <1>6, SecApiComputesEffect
  <2>. QED
    BY <2>1 DEF SecApiOwnedInv, SecApi!OrphansWereRefused, SecApi!Held
<1>7. CASE UNCHANGED SecApi!vars
  BY <1>7 DEF SecApi!vars, SecApiOwnedInv, SecApi!OrphansWereRefused, SecApi!Held
<1>. QED
  BY <1>1, <1>2, <1>3, <1>4, <1>5, <1>6, <1>7 DEF SecApi!Next, SecApiComputes

\* Type correctness.
THEOREM SecApiTypes ==
  ASSUME SecApi!SecApiIds
  PROVE  SecApi!Spec => []SecApi!TypeOK
<1>1. SecApi!Init => SecApi!TypeOK
  BY SecApiTypeInit
<1>2. SecApi!TypeOK /\ [SecApi!Next]_(SecApi!vars) => SecApi!TypeOK'
  BY SecApiTypeStep
<1>. QED
  BY <1>1, <1>2, PTL DEF SecApi!Spec

\* An object in the processor's memory that no item of the vault names is one the
\* processor refused to delete, whichever calls failed and in whatever order.
THEOREM SecApiOrphansWereRefused ==
  ASSUME SecApi!SecApiIds
  PROVE  SecApi!Spec => []SecApi!OrphansWereRefused
<1>1. SecApi!Init => SecApiOwnedInv
  BY DEF SecApi!Init, SecApiOwnedInv, SecApi!OrphansWereRefused
<1>2. SecApi!TypeOK /\ SecApiOwnedInv /\ [SecApi!Next]_(SecApi!vars)
        => SecApiOwnedInv'
  BY SecApiOwnedStep
<1>3. SecApiOwnedInv => SecApi!OrphansWereRefused
  BY DEF SecApiOwnedInv
<1>. QED
  BY <1>1, <1>2, <1>3, SecApiTypes, PTL DEF SecApi!Spec

-----------------------------------------------------------------------------
\* Netflix counts its free slots with an instance of its own of FiniteSets.
LEMMA NetflixCardinality ==
  ASSUME NEW S PROVE Netflix!Cardinality(S) = Cardinality(S)
BY DEF Netflix!Cardinality, Cardinality

\* The handles a map leaves free.
NetflixFreeOf(keys) == {h \in Netflix!Handle : keys[h] = "none"}

\* Every set of handles has a least member.
LEMMA NetflixLeastHandle ==
  ASSUME Netflix!NetflixBounds, NEW S \in SUBSET Netflix!Handle, S # {}
  PROVE  \E h \in S : \A g \in S : ~(g < h)
<1>. DEFINE R == OpToRel(<, Nat)
<1>1. S \subseteq Nat
  BY DEF Netflix!Handle, Netflix!NetflixBounds
<1>2. IsWellFoundedOn(R, Nat)
  BY NatLessThanWellFounded
<1>3. PICK h \in S : \A g \in S : ~(<<g, h>> \in R)
  <2>. HIDE DEF R
  <2>. QED
    BY <1>1, <1>2, WFMin
<1>4. \A g, h2 \in Nat : g < h2 => <<g, h2>> \in R
  BY DEF OpToRel
<1>. QED
  BY <1>1, <1>3, <1>4

\* GetNewKeyHandle() finds a free handle if there is one.
LEMMA NetflixNewHandle ==
  ASSUME Netflix!NetflixBounds, NEW keys \in [Netflix!Handle -> Netflix!Key],
         NetflixFreeOf(keys) # {}
  PROVE  Netflix!NewKeyHandle(keys) \in NetflixFreeOf(keys)
<1>1. PICK h \in NetflixFreeOf(keys) : \A g \in NetflixFreeOf(keys) : ~(g < h)
  BY NetflixLeastHandle DEF NetflixFreeOf
<1>2. h \in Netflix!Handle /\ keys[h] = "none"
  BY DEF NetflixFreeOf
<1>3. \A g \in 1..(h - 1) : g \in Netflix!Handle /\ g < h
  BY <1>2 DEF Netflix!Handle, Netflix!NetflixBounds
<1>4. \A g \in 1..(h - 1) : keys[g] # "none"
  BY <1>1, <1>3 DEF NetflixFreeOf
<1>5. \E k \in Netflix!Handle : keys[k] = "none"
        /\ \A g \in 1..(k - 1) : keys[g] # "none"
  BY <1>2, <1>4
<1>. QED
  BY <1>5 DEF Netflix!NewKeyHandle, NetflixFreeOf

\* AddKey() takes one free handle and leaves the others as they are.
LEMMA NetflixAddEffect ==
  ASSUME Netflix!NetflixBounds, NEW keys \in [Netflix!Handle -> Netflix!Key],
         NetflixFreeOf(keys) # {},
         NEW key \in Netflix!Key \ {"none"}
  PROVE  /\ Netflix!AddKey(keys, key) \in [Netflix!Handle -> Netflix!Key]
         /\ \E h \in NetflixFreeOf(keys) :
              NetflixFreeOf(Netflix!AddKey(keys, key))
                = NetflixFreeOf(keys) \ {h}
         /\ \A h \in Netflix!Handle : keys[h] # "none"
              => Netflix!AddKey(keys, key)[h] = keys[h]
<1>1. PICK n \in NetflixFreeOf(keys) : n = Netflix!NewKeyHandle(keys)
  BY NetflixNewHandle
<1>2. Netflix!AddKey(keys, key) = [keys EXCEPT ![n] = key]
  BY <1>1 DEF Netflix!AddKey
<1>3. n \in Netflix!Handle /\ keys[n] = "none"
  BY DEF NetflixFreeOf
<1>. QED
  BY <1>2, <1>3 DEF NetflixFreeOf

\* Taking a handle from at least k + 1 free ones leaves k.
LEMMA NetflixFreeCount ==
  ASSUME Netflix!NetflixBounds, NEW S \in SUBSET Netflix!Handle, NEW h \in S
  PROVE  /\ IsFiniteSet(S) /\ Cardinality(S) \in Nat
         /\ Cardinality(S \ {h}) = Cardinality(S) - 1
         /\ Cardinality(S) >= 1
<1>1. IsFiniteSet(Netflix!Handle)
  BY FS_Interval DEF Netflix!Handle, Netflix!NetflixBounds
<1>2. IsFiniteSet(S)
  BY <1>1, FS_Subset
<1>3. Cardinality(S) \in Nat /\ Cardinality(S) # 0
  BY <1>2, FS_CardinalityType, FS_EmptySet
<1>4. Cardinality(S \ {h}) = Cardinality(S) - 1
  BY <1>2, FS_RemoveElement
<1>5. Cardinality(S) >= 1
  BY <1>3
<1>. QED
  BY <1>2, <1>3, <1>4, <1>5

\* A set with a number of members has one.
LEMMA NetflixNotEmpty ==
  ASSUME NEW S, Cardinality(S) >= 1
  PROVE  S # {}
<1>1. Cardinality({}) = 0
  BY FS_EmptySet
<1>. QED
  BY <1>1

\* The encryption key is under the first handle, if it was found.
NetflixFirstInv ==
  /\ n_named["DKE"] \in {0, Netflix!ENC_ID}
  /\ Netflix!EncryptionKeyStays

\* The map after up to three keys were added.
LEMMA NetflixAddTwo ==
  ASSUME Netflix!NetflixBounds, NEW keys \in [Netflix!Handle -> Netflix!Key],
         Cardinality(NetflixFreeOf(keys)) >= 2,
         NEW a \in Netflix!Key \ {"none"}, NEW b \in Netflix!Key \ {"none"}
  PROVE  /\ Netflix!AddKey(Netflix!AddKey(keys, a), b)
              \in [Netflix!Handle -> Netflix!Key]
         /\ \A h \in Netflix!Handle : keys[h] # "none"
              => Netflix!AddKey(Netflix!AddKey(keys, a), b)[h] = keys[h]
         /\ Cardinality(NetflixFreeOf(Netflix!AddKey(Netflix!AddKey(keys, a),
              b))) = Cardinality(NetflixFreeOf(keys)) - 2
<1>. DEFINE one == Netflix!AddKey(keys, a)
            two == Netflix!AddKey(one, b)
<1>1. NetflixFreeOf(keys) # {} /\ NetflixFreeOf(keys) \in SUBSET Netflix!Handle
  <2>1. Cardinality({}) = 0
    BY FS_EmptySet
  <2>. QED
    BY <2>1 DEF NetflixFreeOf
<1>2. PICK h \in NetflixFreeOf(keys) :
        NetflixFreeOf(one) = NetflixFreeOf(keys) \ {h}
  BY <1>1, NetflixAddEffect
<1>3. /\ Cardinality(NetflixFreeOf(keys)) \in Nat
      /\ Cardinality(NetflixFreeOf(one)) = Cardinality(NetflixFreeOf(keys)) - 1
  BY <1>1, <1>2, NetflixFreeCount
<1>4. NetflixFreeOf(one) # {} /\ NetflixFreeOf(one) \in SUBSET Netflix!Handle
  <2>1. Cardinality(NetflixFreeOf(one)) >= 1
    BY <1>3
  <2>. QED
    BY <1>1, <1>2, <2>1, NetflixNotEmpty
<1>5. /\ one \in [Netflix!Handle -> Netflix!Key]
      /\ \A g \in Netflix!Handle : keys[g] # "none" => one[g] = keys[g]
  BY <1>1, NetflixAddEffect
<1>. HIDE DEF one
<1>6. /\ two \in [Netflix!Handle -> Netflix!Key]
      /\ \E g \in NetflixFreeOf(one) :
           NetflixFreeOf(two) = NetflixFreeOf(one) \ {g}
      /\ \A g \in Netflix!Handle : one[g] # "none" => two[g] = one[g]
  BY <1>4, <1>5, NetflixAddEffect
<1>7. Cardinality(NetflixFreeOf(two)) = Cardinality(NetflixFreeOf(keys)) - 2
  <2>1. PICK g \in NetflixFreeOf(one) :
          NetflixFreeOf(two) = NetflixFreeOf(one) \ {g}
    BY <1>6
  <2>2. Cardinality(NetflixFreeOf(two)) = Cardinality(NetflixFreeOf(one)) - 1
    BY <1>4, <2>1, NetflixFreeCount
  <2>. QED
    BY <1>3, <2>2
<1>. QED
  BY <1>5, <1>6, <1>7 DEF one

LEMMA NetflixInit ==
  ASSUME Netflix!NetflixBounds, Netflix!Init
  PROVE  Netflix!TypeOK /\ NetflixFirstInv
<1>1. PICK count \in 0..3 :
        /\ count <= MaxKeys
        /\ n_named = Netflix!Loaded(count)
        /\ n_socKeys = [h \in Netflix!Handle |->
                        IF \E n \in Netflix!Names : n_named[n] = h
                        THEN CHOOSE n \in Netflix!Names : n_named[n] = h
                          ELSE "none"]
        /\ n_peer = FALSE
        /\ n_object = [kind |-> "none", id |-> 0, failed |-> FALSE]
  BY DEF Netflix!Init
<1>2. /\ n_named["DKE"] = IF 1 <= count THEN 1 ELSE 0
      /\ n_named["DKH"] = IF 2 <= count THEN 2 ELSE 0
      /\ n_named["DKW"] = IF 3 <= count THEN 3 ELSE 0
      /\ n_named \in [Netflix!Names -> 0..3]
  BY <1>1 DEF Netflix!Loaded, Netflix!Names
<1>3. n_socKeys \in [Netflix!Handle -> Netflix!Key]
  <2>1. \A h : (\E n \in Netflix!Names : n_named[n] = h)
          => (CHOOSE n \in Netflix!Names : n_named[n] = h) \in Netflix!Names
    OBVIOUS
  <2>. QED
    BY <1>1, <2>1 DEF Netflix!Key
<1>4. Netflix!TypeOK
  <2>1. 0 \in 0..MaxKeys
    BY DEF Netflix!NetflixBounds
  <2>2. n_object \in [kind : {"none", "cipher", "hmac"}, id :
          0..MaxKeys, failed : BOOLEAN]
    BY <1>1, <2>1
  <2>. QED
    BY <1>1, <1>2, <1>3, <2>2 DEF Netflix!TypeOK
<1>5. n_named["DKE"] # 0 => n_socKeys[1] = "DKE" /\ n_named["DKE"] = 1
  <2>1. SUFFICES ASSUME n_named["DKE"] # 0
                 PROVE  n_socKeys[1] = "DKE" /\ n_named["DKE"] = 1
    OBVIOUS
  <2>2. n_named["DKE"] = 1 /\ n_named["DKH"] # 1 /\ n_named["DKW"] # 1
    BY <1>2, <2>1
  <2>3. (CHOOSE n \in Netflix!Names : n_named[n] = 1) = "DKE"
    BY <2>2 DEF Netflix!Names
  <2>4. 1 \in Netflix!Handle /\ \E n \in Netflix!Names : n_named[n] = 1
    BY <2>2 DEF Netflix!Names, Netflix!Handle, Netflix!NetflixBounds
  <2>. QED
    BY <1>1, <2>2, <2>3, <2>4
<1>. QED
  BY <1>4, <1>5 DEF NetflixFirstInv, Netflix!EncryptionKeyStays, Netflix!ENC_ID

\* A map that keeps every key it had keeps the invariants.
LEMMA NetflixKeepsKeys ==
  ASSUME Netflix!TypeOK, NetflixFirstInv,
         UNCHANGED <<n_named, n_peer, n_object>>,
         n_socKeys' \in [Netflix!Handle -> Netflix!Key],
           Netflix!ENC_ID \in Netflix!Handle,
         \A h \in Netflix!Handle : n_socKeys[h] # "none"
           => n_socKeys'[h] = n_socKeys[h]
  PROVE  Netflix!TypeOK' /\ NetflixFirstInv'
BY DEF Netflix!TypeOK, NetflixFirstInv, Netflix!EncryptionKeyStays

LEMMA NetflixStep ==
  ASSUME Netflix!NetflixBounds, Netflix!TypeOK, NetflixFirstInv,
         [Netflix!Next]_(Netflix!vars)
  PROVE  Netflix!TypeOK' /\ NetflixFirstInv'
<1>a. /\ n_socKeys \in [Netflix!Handle -> Netflix!Key]
      /\ NetflixFreeOf(n_socKeys) = Netflix!Free
      /\ {"private", "public", "secret",
           "sealed"} \subseteq Netflix!Key \ {"none"}
      /\ Netflix!ENC_ID \in Netflix!Handle
      /\ Netflix!Free \in SUBSET Netflix!Handle
  BY DEF Netflix!TypeOK, Netflix!Free, NetflixFreeOf, Netflix!Key,
         Netflix!Names, Netflix!Handle, Netflix!ENC_ID, Netflix!NetflixBounds
<1>1. CASE Netflix!Import
  BY <1>1
     DEF Netflix!Import, Netflix!TypeOK, NetflixFirstInv,
         Netflix!EncryptionKeyStays
<1>2. CASE Netflix!Put
  <2>1. /\ Netflix!Free # {} /\ n_socKeys' = Netflix!AddKey(n_socKeys, "sealed")
        /\ UNCHANGED <<n_named, n_peer, n_object>>
    BY <1>2 DEF Netflix!Put
  <2>2. /\ n_socKeys' \in [Netflix!Handle -> Netflix!Key]
        /\ \A h \in Netflix!Handle : n_socKeys[h] # "none"
             => n_socKeys'[h] = n_socKeys[h]
    BY <1>a, <2>1, NetflixAddEffect
  <2>. QED
    BY <1>a, <2>1, <2>2, NetflixKeepsKeys
<1>3. CASE Netflix!DhGenerate
  <2>1. /\ Cardinality(Netflix!Free) >= 2
        /\ n_socKeys'
             = Netflix!AddKey(Netflix!AddKey(n_socKeys, "private"), "public")
        /\ UNCHANGED <<n_named, n_peer, n_object>>
    BY <1>3, NetflixCardinality DEF Netflix!DhGenerate
  <2>2. /\ n_socKeys' \in [Netflix!Handle -> Netflix!Key]
        /\ \A h \in Netflix!Handle : n_socKeys[h] # "none"
             => n_socKeys'[h] = n_socKeys[h]
    BY <1>a, <2>1, NetflixAddTwo
  <2>. QED
    BY <1>a, <2>1, <2>2, NetflixKeepsKeys
<1>4. CASE Netflix!DeriveKeys
  <2>. DEFINE two == Netflix!AddKey(Netflix!AddKey(n_socKeys, "secret"),
         "secret")
  <2>1. /\ Cardinality(Netflix!Free) >= 3
        /\ n_socKeys' = Netflix!AddKey(two, "secret")
        /\ UNCHANGED <<n_named, n_peer, n_object>>
    BY <1>4, NetflixCardinality DEF Netflix!DeriveKeys
  <2>2. Netflix!Free # {}
    BY <2>1, NetflixNotEmpty, FS_EmptySet
  <2>3. Cardinality(Netflix!Free) \in Nat
    BY <1>a, <2>2, NetflixFreeCount
  <2>4. /\ two \in [Netflix!Handle -> Netflix!Key]
        /\ \A h \in Netflix!Handle : n_socKeys[h] # "none"
             => two[h] = n_socKeys[h]
        /\ Cardinality(NetflixFreeOf(two)) = Cardinality(Netflix!Free) - 2
    BY <1>a, <2>1, <2>3, NetflixAddTwo
  <2>5. NetflixFreeOf(two) # {}
    <3>1. Cardinality(NetflixFreeOf(two)) >= 1
      BY <2>1, <2>3, <2>4
    <3>. QED
      BY <3>1, NetflixNotEmpty
  <2>. HIDE DEF two
  <2>6. /\ n_socKeys' \in [Netflix!Handle -> Netflix!Key]
        /\ \A h \in Netflix!Handle : two[h] # "none" => n_socKeys'[h] = two[h]
    BY <1>a, <2>1, <2>4, <2>5, NetflixAddEffect
  <2>7. \A h \in Netflix!Handle : n_socKeys[h] # "none"
          => n_socKeys'[h] = n_socKeys[h]
    BY <2>4, <2>6
  <2>. QED
    BY <1>a, <2>1, <2>6, <2>7, NetflixKeepsKeys
<1>5. CASE Netflix!VaultDelete
  <2>1. PICK id \in Netflix!Handle : Netflix!Delete(id)
    BY <1>5 DEF Netflix!VaultDelete
  <2>2. /\ id # Netflix!ENC_ID
        /\ n_socKeys' = [n_socKeys EXCEPT ![id] = "none"]
        /\ UNCHANGED <<n_named, n_peer, n_object>>
    BY <2>1 DEF Netflix!Delete
  <2>3. Netflix!TypeOK'
    BY <2>2 DEF Netflix!TypeOK, Netflix!Key
  <2>4. n_socKeys'[Netflix!ENC_ID] = n_socKeys[Netflix!ENC_ID]
    BY <1>a, <2>2
  <2>. QED
    BY <2>2, <2>3, <2>4 DEF NetflixFirstInv, Netflix!EncryptionKeyStays
<1>6. CASE Netflix!CipherCreate \/ Netflix!HmacCreate
  <2>1. UNCHANGED <<n_socKeys, n_named, n_peer>>
    BY <1>6 DEF Netflix!CipherCreate, Netflix!HmacCreate
  <2>2. PICK id \in Netflix!Handle, kind \in {"cipher", "hmac"},
          failed \in BOOLEAN :
          n_object' = [kind |-> kind, id |-> id, failed |-> failed]
    BY <1>6 DEF Netflix!CipherCreate, Netflix!HmacCreate, Netflix!Found
  <2>3. id \in 0..MaxKeys
    BY DEF Netflix!Handle, Netflix!NetflixBounds
  <2>. QED
    BY <2>1, <2>2, <2>3
       DEF Netflix!TypeOK, NetflixFirstInv, Netflix!EncryptionKeyStays
<1>7. CASE UNCHANGED Netflix!vars
  BY <1>7
     DEF Netflix!vars, Netflix!TypeOK, NetflixFirstInv,
         Netflix!EncryptionKeyStays
<1>. QED
  BY <1>1, <1>2, <1>3, <1>4, <1>5, <1>6, <1>7 DEF Netflix!Next

LEMMA NetflixAlways ==
  ASSUME Netflix!NetflixBounds
  PROVE  Netflix!Spec => [](Netflix!TypeOK /\ NetflixFirstInv)
<1>1. Netflix!Init => Netflix!TypeOK /\ NetflixFirstInv
  BY NetflixInit
<1>2. Netflix!TypeOK /\ NetflixFirstInv /\ [Netflix!Next]_(Netflix!vars)
        => Netflix!TypeOK' /\ NetflixFirstInv'
  BY NetflixStep
<1>. QED
  BY <1>1, <1>2, PTL DEF Netflix!Spec

\* Type correctness, for any number of handles.
THEOREM NetflixTypes ==
  ASSUME Netflix!NetflixBounds
  PROVE  Netflix!Spec => []Netflix!TypeOK
<1>1. Netflix!TypeOK /\ NetflixFirstInv => Netflix!TypeOK
  OBVIOUS
<1>. QED
  BY <1>1, NetflixAlways, PTL

\* netflix_security_encryption_key() gives out a handle that never comes to name
\* another key, however keys are added, derived and deleted.
THEOREM NetflixEncryptionKeyForEver ==
  ASSUME Netflix!NetflixBounds
  PROVE  Netflix!Spec => []Netflix!EncryptionKeyStays
<1>1. Netflix!TypeOK /\ NetflixFirstInv => Netflix!EncryptionKeyStays
  BY DEF NetflixFirstInv
<1>. QED
  BY <1>1, NetflixAlways, PTL
=============================================================================
