---------------------------- MODULE OpenSSLVault ----------------------------
(***************************************************************************)
(* The vault of the OpenSSL implementation of the cryptography library:    *)
(* blobs under 32 bit handles, the objects made from them (AES ciphers,    *)
(* HMAC calculators) and the Diffie-Hellman operations that load blobs and *)
(* store new ones.  Vault::_lock covers one call of the vault and nothing  *)
(* more: an operation that needs several calls interleaves with those of   *)
(* the other clients, and a blob may be deleted between any two of them.   *)
(*                                                                         *)
(* The content of a blob is symbolic: which secret it holds, all of it or  *)
(* a part, not its bytes.  A stored blob is encrypted but carries no proof *)
(* of where it comes from: vault_get() may be given a buffer that holds    *)
(* only the start of a blob, and vault_set() takes any bytes.  What an     *)
(* object computes with such a blob is outside this module.  OpenSSL       *)
(* itself is taken to succeed.                                             *)
(***************************************************************************)
EXTENDS Integers, Sequences

CONSTANTS
  Clients,    \* threads that use the vault through its C interface
  UserBase,   \* stands for 0x80000000, the last handle of the built-in blobs
  MaxHandle,  \* stands for 2^32 - 1
  Targets,    \* bound: the handles clients name in their calls
  Sizes,      \* sizes of the blobs clients import and generate
  Buffers,    \* bound: the lengths clients give vault_get() and vault_set()
  Provisioned \* TRUE: the Netflix instance found its provisioning data

IVSize == 16
USHRT_MAX == 65535

\* What is assumed of the constants.  Cipher() has no room for a blob whose
\* encrypted form is longer than 65535 bytes (its assertion).
HandleAssumption ==
  /\ UserBase \in Nat /\ MaxHandle \in Nat /\ 16 <= UserBase /\ UserBase <= MaxHandle
  /\ Sizes \subseteq 1..(USHRT_MAX - IVSize)
  /\ Buffers \subseteq 1..USHRT_MAX
  /\ Targets \subseteq 1..MaxHandle

VARIABLES
  items,      \* Vault::_items
  lastHandle, \* Vault::_lastHandle
  first,      \* history: the content first stored under each handle
  known,      \* contents clients hold in clear
  wrapped,    \* the encrypted blob vault_get() returned last
  pair,       \* the ids of the key pair generated last
  op,         \* the operation in progress of each client
  object      \* the cipher or HMAC object made last

vars == <<items, lastHandle, first, known, wrapped, pair, op, object>>

KPE == 1
KPH == 2
KPW == 3
ESN == 16
DhSize == 256   \* a Diffie-Hellman blob: larger than any AES key

Handle == 1..MaxHandle
Content == [kind : {"none", "clear", "public", "secret", "part", "made"},
            at : 0..MaxHandle]
Nothing == [kind |-> "none", at |-> 0]
Data == [kind |-> "clear", at |-> 0]
Secret(h) == [kind |-> "secret", at |-> h]
Public(h) == [kind |-> "public", at |-> h]
Made == [kind |-> "made", at |-> 0]   \* whatever the bytes of a client decrypt to

\* Vault::Element; size 0 stands for no element, which the code never stores.
Blob == [key : Content, size : Nat, exportable : BOOLEAN]
Absent == [key |-> Nothing, size |-> 0, exportable |-> FALSE]
Bytes == [key : Content, size : Nat]
Steps == {"idle", "public", "peer", "secret", "authPeer", "authKey",
          "encryption", "hmac", "wrapping", "key"}
NoOp == [next |-> "idle", id |-> 0, ok |-> TRUE]
NoObject == [kind |-> "none", id |-> 0, length |-> 0, used |-> Nothing]

\* Every variable keeps its type.
TypeOK ==
  /\ items \in [Handle -> Blob]
  /\ lastHandle \in UserBase..MaxHandle
  /\ first \in [Handle -> Content]
  /\ known \subseteq Content
  /\ wrapped \in Bytes
  /\ pair \in [private : 0..MaxHandle, public : 0..MaxHandle]
  /\ op \in [Clients -> [next : Steps, id : 0..MaxHandle, ok : BOOLEAN]]
  /\ object \in [kind : {"none", "aes", "hmac"}, id : 0..MaxHandle,
                 length : Int, used : Content]

\* NetflixInstance(): the constructor imports the three sealed keys under 1..3
\* and the ESN, exportable, under 16; then user handles start.
BuiltIn(h) ==
  CASE h \in {KPE, KPW} -> [key |-> Secret(h), size |-> 16 + IVSize, exportable |-> FALSE]
    [] h = KPH -> [key |-> Secret(h), size |-> 32 + IVSize, exportable |-> FALSE]
    [] h = ESN -> [key |-> Public(h), size |-> 20 + IVSize, exportable |-> TRUE]
    [] OTHER -> Absent

Init ==
  /\ items = [h \in Handle |-> IF Provisioned THEN BuiltIn(h) ELSE Absent]
  /\ lastHandle = UserBase
  /\ first = [h \in Handle |-> items[h].key]
  /\ known = {Data}
  /\ wrapped = [key |-> Nothing, size |-> 0]
  /\ pair = [private |-> 0, public |-> 0]
  /\ op = [c \in Clients |-> NoOp]
  /\ object = NoObject

-----------------------------------------------------------------------------
\* The calls of Vault, each atomic under _lock.

Lookup(id) == IF id \in Handle THEN items[id] ELSE Absent
Present(id) == Lookup(id).size > 0

\* Vault::Size(): what is left of the stored blob without its IV, in 16 bits: a
\* blob shorter than an IV counts as a very long one.
Size(id, allowSealed) ==
  IF ~Present(id) THEN 0
  ELSE IF allowSealed \/ Lookup(id).exportable THEN (Lookup(id).size - IVSize) % (USHRT_MAX + 1)
       ELSE USHRT_MAX

\* Mutant: the lowest free user handle.
NextHandle_Reused ==
  LET free == {h \in (UserBase + 1)..MaxHandle : items[h].size = 0} IN
  IF free = {} THEN 0 ELSE CHOOSE h \in free : \A g \in free : h <= g

\* _lastHandle + 1, in 32 bits.
NextHandle == IF lastHandle = MaxHandle THEN 0 ELSE lastHandle + 1

\* Import() and Put(): emplace under the next handle, nothing if that is 0.
Store(key, size, exportable) ==
  LET h == NextHandle IN
  IF h = 0 THEN UNCHANGED <<items, lastHandle, first>>
  ELSE /\ items' = [items EXCEPT ![h] =
                      [key |-> key, size |-> size, exportable |-> exportable]]
       /\ lastHandle' = h
       /\ first' = [first EXCEPT ![h] = IF @ = Nothing THEN key ELSE @]

Import(key, size, exportable) == Store(key, size + IVSize, exportable)

\* Vault::Export(): the content in clear, if the caller may have it.
Export(id, allowSealed) ==
  IF Present(id) /\ (allowSealed \/ Lookup(id).exportable)
  THEN Lookup(id).key ELSE Nothing

-----------------------------------------------------------------------------
\* The C interface: calls that need the vault's lock once.

Idle(c) == op[c].next = "idle"
Others == <<known, wrapped, pair, op, object>>

\* vault_import(): what is imported in clear can be exported.
VaultImport(c) ==
  /\ Idle(c)
  /\ \E key \in known, size \in Sizes : Import(key, size, TRUE)
  /\ UNCHANGED Others

\* Mutant: what was generated can be exported.
VaultGenerate_Exportable(c) ==
  /\ Idle(c)
  /\ \E size \in Sizes : Import(Secret(NextHandle), size, TRUE)
  /\ UNCHANGED Others

\* vault_generate(): random bytes, imported sealed.
VaultGenerate(c) ==
  /\ Idle(c)
  /\ \E size \in Sizes : Import(Secret(NextHandle), size, FALSE)
  /\ UNCHANGED Others

\* What the first bytes of a blob decrypt to: with no more than the IV, nothing
\* of its content.
Start(key, length) ==
  IF length <= IVSize THEN Made
  ELSE IF key.kind = "secret" THEN [kind |-> "part", at |-> key.at] ELSE key

Cut(blob, length) ==
  IF length >= blob.size THEN [key |-> blob.key, size |-> blob.size]
  ELSE [key |-> Start(blob.key, length), size |-> length]

\* vault_get(): any blob, still encrypted, as much of it as the buffer holds.
VaultGet(c) ==
  /\ Idle(c)
  /\ \E id \in Targets, length \in Buffers :
       Present(id) /\ wrapped' = Cut(items[id], length)
  /\ UNCHANGED <<items, lastHandle, first, known, pair, op, object>>

\* vault_set(): what vault_get() returned, or any bytes at all, stored as they
\* are and sealed whatever they were before.
VaultSet(c) ==
  /\ Idle(c)
  /\ \/ wrapped.size > 0 /\ Store(wrapped.key, wrapped.size, FALSE)
     \/ \E length \in Buffers : Store(Made, length, FALSE)
  /\ UNCHANGED Others

\* vault_export() and netflix_security_esn(): in clear, if not sealed.
VaultExport(c) ==
  /\ Idle(c)
  /\ \E id \in Targets :
       /\ Export(id, FALSE) # Nothing
       /\ known' = known \cup {Export(id, FALSE)}
  /\ UNCHANGED <<items, lastHandle, first, wrapped, pair, op, object>>

VaultDelete(c) ==
  /\ Idle(c)
  /\ \E id \in Targets : Present(id) /\ items' = [items EXCEPT ![id] = Absent]
  /\ UNCHANGED <<lastHandle, first, Others>>

\* netflix_security_encryption_key(), _hmac_key(), _wrapping_key().
NetflixKey(id) == IF Size(id, FALSE) # 0 THEN id ELSE 0

-----------------------------------------------------------------------------
\* Objects that keep a key by its id.

\* cipher_create_aes(): the table of AESCipher() has three key lengths.
CipherCreate(c) ==
  /\ Idle(c)
  /\ \E id \in Targets :
       LET length == Size(id, TRUE) IN
       /\ length \in {16, 24, 32}
       /\ object' = [kind |-> "aes", id |-> id, length |-> length, used |-> Nothing]
  /\ UNCHANGED <<items, lastHandle, first, known, wrapped, pair, op>>

\* Cipher::Operation(): the key is exported anew by every operation, and its
\* length must be what it was when the cipher was created.
CipherOperation(c) ==
  /\ Idle(c)
  /\ object.kind = "aes"
  /\ LET id == object.id
         fits == Size(id, TRUE) = object.length
     IN object' = [object EXCEPT !.used = IF fits THEN Export(id, TRUE) ELSE Nothing]
  /\ UNCHANGED <<items, lastHandle, first, known, wrapped, pair, op>>

\* hash_create_hmac(): the size of the secret ...
HmacSize(c) ==
  /\ Idle(c)
  /\ \E id \in Targets :
       /\ Size(id, TRUE) # 0
       /\ op' = [op EXCEPT ![c] = [next |-> "key", id |-> id, ok |-> TRUE]]
  /\ UNCHANGED <<items, lastHandle, first, known, wrapped, pair, object>>

\* ... and, in the constructor of HashType, the secret; an object whose secret
\* was deleted in between is made all the same, without a key.
HmacKey(c) ==
  /\ op[c].next = "key"
  /\ object' = [kind |-> "hmac", id |-> op[c].id, length |-> 0,
                used |-> Export(op[c].id, TRUE)]
  /\ op' = [op EXCEPT ![c] = NoOp]
  /\ UNCHANGED <<items, lastHandle, first, known, wrapped, pair>>

-----------------------------------------------------------------------------
\* Diffie-Hellman: one vault call per step.

Step(c, next, id, ok) == op' = [op EXCEPT ![c] = [next |-> next, id |-> id, ok |-> ok]]

\* diffiehellman_generate(): the private key, sealed; then the public one.
DhGenerate(c) ==
  /\ Idle(c)
  /\ Import(Secret(NextHandle), DhSize, FALSE)
  /\ Step(c, "public", NextHandle, TRUE)
  /\ UNCHANGED <<known, wrapped, pair, object>>

DhGeneratePublic(c) ==
  /\ op[c].next = "public"
  /\ Import(Public(NextHandle), DhSize, TRUE)
  /\ pair' = [private |-> op[c].id, public |-> NextHandle]
  /\ op' = [op EXCEPT ![c] = NoOp]
  /\ UNCHANGED <<known, wrapped, object>>

\* KeyStore::Deserialize(): Size() and Export(), which no reuse of the handle
\* can separate, so the second alone decides.
Loads(id) == Export(id, TRUE) # Nothing

\* diffiehellman_derive() with the pair generated last (the peer's key is one of
\* this vault here).  Both are loaded even if the first is gone.
DhDerive(c) ==
  /\ Idle(c)
  /\ pair.private # 0
  /\ Step(c, "peer", 0, Loads(pair.private))
  /\ UNCHANGED <<items, lastHandle, first, known, wrapped, pair, object>>

DhDerivePeer(c) ==
  /\ op[c].next = "peer"
  /\ IF op[c].ok /\ Loads(pair.public)
     THEN Step(c, "secret", 0, TRUE) ELSE op' = [op EXCEPT ![c] = NoOp]
  /\ UNCHANGED <<items, lastHandle, first, known, wrapped, pair, object>>

DhDeriveSecret(c) ==
  /\ op[c].next = "secret"
  /\ Import(Secret(NextHandle), DhSize, FALSE)
  /\ op' = [op EXCEPT ![c] = NoOp]
  /\ UNCHANGED <<known, wrapped, pair, object>>

\* netflix_security_derive_keys(): the same two loads, the derivation key, and
\* three imports.
DeriveKeys(c) ==
  /\ Idle(c)
  /\ pair.private # 0
  /\ NetflixKey(KPW) # 0
  /\ Step(c, "authPeer", 0, Loads(pair.private))
  /\ UNCHANGED <<items, lastHandle, first, known, wrapped, pair, object>>

DeriveKeysPeer(c) ==
  /\ op[c].next = "authPeer"
  /\ Step(c, "authKey", 0, op[c].ok /\ Loads(pair.public))
  /\ UNCHANGED <<items, lastHandle, first, known, wrapped, pair, object>>

DeriveKeysKey(c) ==
  /\ op[c].next = "authKey"
  /\ IF op[c].ok /\ Loads(KPW)
     THEN Step(c, "encryption", 0, TRUE) ELSE op' = [op EXCEPT ![c] = NoOp]
  /\ UNCHANGED <<items, lastHandle, first, known, wrapped, pair, object>>

\* Each import goes ahead whatever became of the one before.
DeriveKeysStore(c) ==
  /\ op[c].next \in {"encryption", "hmac", "wrapping"}
  /\ Import(Secret(NextHandle), IF op[c].next = "hmac" THEN 32 ELSE 16, FALSE)
  /\ op' = [op EXCEPT ![c] = IF op[c].next = "wrapping" THEN NoOp ELSE
              [@ EXCEPT !.next = IF @ = "encryption" THEN "hmac" ELSE "wrapping"]]
  /\ UNCHANGED <<known, wrapped, pair, object>>

-----------------------------------------------------------------------------
Next == \E c \in Clients :
  \/ VaultImport(c) \/ VaultGenerate(c) \/ VaultGet(c) \/ VaultSet(c)
  \/ VaultExport(c) \/ VaultDelete(c)
  \/ CipherCreate(c) \/ CipherOperation(c) \/ HmacSize(c) \/ HmacKey(c)
  \/ DhGenerate(c) \/ DhGeneratePublic(c)
  \/ DhDerive(c) \/ DhDerivePeer(c) \/ DhDeriveSecret(c)
  \/ DeriveKeys(c) \/ DeriveKeysPeer(c) \/ DeriveKeysKey(c) \/ DeriveKeysStore(c)

Spec == Init /\ [][Next]_vars

\* What vault_export() and netflix_security_esn() hand out was imported in clear
\* or made as a public key or name.  It is never a secret that was generated,
\* derived or provisioned inside the vault, nor a part of one, nor anything that
\* came in by vault_set(): a blob that went out encrypted and came back, whole
\* or cut, stays sealed.  (Nothing is said of what ciphers and HMACs that use
\* such a blob as their key give away.)
SealedIsNotExported == \A key \in known : key.kind \in {"clear", "public"}

\* A handle names one content for ever.  A cipher or HMAC object looks its key
\* up by the handle it was created with, after others may have deleted that
\* blob and stored new ones: it finds that key or none, never another.
ObjectsKeepTheirKey ==
  /\ \A h \in Handle : items[h].size > 0 => items[h].key = first[h]
  /\ object.used # Nothing => object.used = first[object.id]
=============================================================================
