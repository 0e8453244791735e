---------------------------- MODULE SecApiVault -----------------------------
(***************************************************************************)
(* The default vault of the SecApi implementation.  A blob that is a key   *)
(* is provisioned into the security processor as up to two objects, an AES *)
(* and an HMAC key, and the vault keeps their object ids (IdStore); other  *)
(* data is kept encrypted in the item itself.  Named keys are objects in   *)
(* the processor's files.  Every call holds Vault::_lock from end to end;  *)
(* what makes it hard is that each call of the processor may fail, the     *)
(* deletions too, whose results the vault does not look at, and that       *)
(* object ids are used again once they are free.  The ciphers and hashes   *)
(* an application makes are looked at one at a time; the IdStore they copy *)
(* is used in the call that copied it, before its item is erased.          *)
(***************************************************************************)
EXTENDS Integers, FiniteSets

CONSTANTS
  MaxHandle,  \* bound: handles are 1..MaxHandle (from 0x80000001 in the code)
  Objects,    \* object ids in the user range of the security processor
  Names,      \* object ids that name persistent keys, read from a file name
  Keys        \* contents a client imports

\* What is assumed of the constants.
SecApiIds ==
  /\ MaxHandle \in Nat
  /\ Objects \subseteq Nat \ {0} /\ Names \subseteq Nat \ {0}
  /\ Objects \cap Names = {}

VARIABLES
  items,      \* Vault::_items
  lastHandle, \* Vault::_lastHandle
  objects,    \* the ids of the objects the security processor holds
  files,      \* those of them that are in its files
  open,       \* _secProcHandle is not NULL
  computer,   \* the Cipher or HashType of the application
  refused     \* history: the objects the processor refused to delete

vars == <<items, lastHandle, objects, files, open, computer, refused>>

Handle == 1..MaxHandle
Sizes == {16, 20, 24, 32}
Id == {0} \cup Objects \cup Names
Item == [kind : {"none", "key", "data"}, hmac : Id, aes : Id,
         length : {0, 16, 20, 32}, exportable : BOOLEAN, key : Keys \cup {"none"}]
Absent == [kind |-> "none", hmac |-> 0, aes |-> 0, length |-> 0,
           exportable |-> FALSE, key |-> "none"]

Computer == [kind : {"none", "cipher", "digest", "hmac"}, id : 0..MaxHandle,
             key : Id, handle : {"unset", "open", "used"}, failed : BOOLEAN]
NoComputer == [kind |-> "none", id |-> 0, key |-> 0, handle |-> "unset",
               failed |-> FALSE]

\* Every variable keeps its type.
TypeOK ==
  /\ items \in [Handle -> Item]
  /\ lastHandle \in 0..MaxHandle
  /\ objects \subseteq Objects \cup Names
  /\ files \subseteq Names
  /\ open \in BOOLEAN
  /\ computer \in Computer
  /\ refused \subseteq objects

\* Vault::Vault(): the processor may refuse its instance.
Init ==
  /\ items = [h \in Handle |-> Absent]
  /\ lastHandle = 0
  /\ objects = {}
  /\ files = {}
  /\ open \in BOOLEAN
  /\ computer = NoComputer
  /\ refused = {}

Stored(h) == items[h].kind # "none"
Held(h) == {items[h].hmac, items[h].aes} \ {0}
CanStore == lastHandle < MaxHandle

Emplace(item) ==
  /\ items' = [items EXCEPT ![lastHandle + 1] = item]
  /\ lastHandle' = lastHandle + 1

\* SecKey_ObtainFreeObjectId() and SecKey_Provision(): the id that was obtained
\* and whether there is an object now.  Any of the two may fail.
Provisions(used) ==
  {[id |-> 0, ok |-> FALSE]} \cup
  (IF open THEN [id : Objects \ used, ok : BOOLEAN] ELSE {})

\* Mutant: an AES object is not deleted if the HMAC object fails.
Outcome_Orphan(aes, hmac) ==
  LET made == {r.id : r \in {x \in {aes, hmac} : x.ok}} \ {0} IN
  {[kept |-> IF aes.ok THEN made ELSE {}, refused |-> {}]}

\* What Import() leaves in the processor: both objects or, after it asked to
\* delete the one that did not fail, that one if the processor refused.
Outcome(aes, hmac) ==
  LET made == {r.id : r \in {x \in {aes, hmac} : x.ok}} \ {0} IN
  IF aes.ok /\ hmac.ok THEN {[kept |-> made, refused |-> {}]}
  ELSE {[kept |-> left, refused |-> left] : left \in SUBSET made}

\* Vault::Import().  The id is returned whether or not anything is stored
\* under it; only a stored one moves _lastHandle.
Import(key, size) ==
  /\ CanStore
  /\ \E aes \in (CASE size \in {16, 32} -> Provisions(objects)
                  [] size = 20 -> {[id |-> 0, ok |-> TRUE]}
                  [] OTHER -> {[id |-> 0, ok |-> FALSE]}) :
     \E hmac \in (IF size = 24 THEN {[id |-> 0, ok |-> FALSE]}
                  ELSE Provisions(objects \cup (IF aes.ok THEN {aes.id} ELSE {}))) :
       /\ \E result \in Outcome(aes, hmac) :
            /\ objects' = objects \cup result.kept
            /\ refused' = refused \cup result.refused
       /\ IF aes.ok /\ hmac.ok
          THEN Emplace([kind |-> "key", hmac |-> hmac.id, aes |-> aes.id,
                        length |-> size, exportable |-> TRUE, key |-> key])
          ELSE UNCHANGED <<items, lastHandle>>
  /\ UNCHANGED <<files, open, computer>>

VaultImport == \E key \in Keys, size \in Sizes : Import(key, size)

\* The IdStore of a named key: the member that is not its own is never set, and
\* may hold anything, the id of another key's object too.
NamedIds(name, type, garbage) ==
  IF type = "hmac" THEN [hmac |-> name, aes |-> garbage]
  ELSE [hmac |-> garbage, aes |-> name]

NamedItem(ids) == [kind |-> "key", hmac |-> ids.hmac, aes |-> ids.aes,
                   length |-> 16, exportable |-> FALSE, key |-> "none"]

\* Vault::CreateNamedKey(): the processor refuses a name it already has.
CreateNamedKey ==
  /\ open /\ CanStore
  /\ \E name \in Names \ objects, type \in {"hmac", "aes"}, garbage \in Id :
       /\ objects' = objects \cup {name}
       /\ files' = files \cup {name}
       /\ Emplace(NamedItem(NamedIds(name, type, garbage)))
  /\ UNCHANGED <<open, computer, refused>>

\* Vault::ImportNamedKey(): a new handle each time the name is loaded.
ImportNamedKey ==
  /\ open /\ CanStore
  /\ \E name \in Names \cap objects, type \in {"hmac", "aes"}, garbage \in Id :
       Emplace(NamedItem(NamedIds(name, type, garbage)))
  /\ UNCHANGED <<objects, files, open, computer, refused>>

\* Vault::CheckNamedKey().
NameExists(name) == open /\ name \in objects

\* Vault::Put(): the data itself, if SecStore_StoreData() works.
Put ==
  /\ open /\ CanStore
  /\ Emplace([Absent EXCEPT !.kind = "data"])
  /\ UNCHANGED <<objects, files, open, computer, refused>>

\* Vault::Delete(): those of the objects that the processor does delete, and the
\* item whatever became of them.
Delete(h) ==
  /\ Stored(h)
  /\ \E gone \in SUBSET (IF open THEN Held(h) \cap objects ELSE {}) :
       /\ objects' = objects \ gone
       /\ refused' = (refused \cup (Held(h) \cap objects)) \ gone
  /\ files' = files \cap objects'
  /\ items' = [items EXCEPT ![h] = Absent]
  /\ UNCHANGED <<lastHandle, open, computer>>

VaultDelete == \E h \in Handle : Delete(h)

\* persistent_flush(): the instance of the processor is given back, and with it
\* the objects in its memory; those in its files stay.
ProcessorRelease ==
  /\ open
  /\ open' = FALSE
  /\ objects' = files
  /\ refused' = refused \cap files
  /\ UNCHANGED <<items, lastHandle, files, computer>>

\* Vault::Size() and Export(): the length of a key, while the processor has one
\* of its objects.  Data has no objects and counts as no key.
Size(h) == IF open /\ Held(h) \cap objects # {} THEN items[h].length ELSE 0
Export(h) == IF items[h].length # 0 THEN Size(h) ELSE 0

\* cipher_create_aes().
CipherCreate ==
  /\ computer = NoComputer
  /\ \E h \in Handle :
       /\ Size(h) # 0
       /\ computer' = [NoComputer EXCEPT !.kind = "cipher", !.id = h]
  /\ UNCHANGED <<items, lastHandle, objects, files, open, refused>>

\* Cipher::Operation(): the AES object it computed with, 0 if a check of its
\* lengths or a call of the processor failed.
CipherOperation ==
  /\ computer.kind = "cipher"
  /\ \E key \in {0} \cup {id \in {items[computer.id].aes} \cap objects :
                            Export(computer.id) # 0} :
       computer' = [computer EXCEPT !.key = key]
  /\ UNCHANGED <<items, lastHandle, objects, files, open, refused>>

\* What a constructor of HashType makes of the instance it asks for.
Instance(usable) ==
  IF usable THEN {[handle |-> "open", failed |-> FALSE],
                  [handle |-> "unset", failed |-> TRUE]}
  ELSE {[handle |-> "unset", failed |-> FALSE]}

\* hash_create(): a digest has a Vault, and an instance of the processor, of its
\* own.
DigestCreate ==
  /\ computer = NoComputer
  /\ \E usable \in BOOLEAN : \E i \in Instance(usable) :
       computer' = [NoComputer EXCEPT !.kind = "digest", !.handle = i.handle,
                                      !.failed = i.failed]
  /\ UNCHANGED <<items, lastHandle, objects, files, open, refused>>

\* hash_create_hmac(): without an HMAC object there is no handle, and no failure
\* is noted either.
HmacCreate ==
  /\ computer = NoComputer
  /\ \E h \in Handle :
       /\ Size(h) # 0
       /\ \E i \in Instance(Export(h) # 0 /\ items[h].hmac \in objects) :
            computer' = [kind |-> "hmac", id |-> h, key |-> items[h].hmac,
                         handle |-> i.handle, failed |-> i.failed]
  /\ UNCHANGED <<items, lastHandle, objects, files, open, refused>>

\* HashType::Calculate(): Final() ends the handle.  The application calculates
\* once, and only if there is a handle.
Calculate ==
  /\ computer.handle = "open" /\ ~computer.failed
  /\ \E failed \in BOOLEAN :
       computer' = [computer EXCEPT !.handle = "used", !.failed = failed]
  /\ UNCHANGED <<items, lastHandle, objects, files, open, refused>>

\* cipher_destroy() and hash_destroy().
ComputerDestroy ==
  /\ computer.kind # "none"
  /\ computer' = NoComputer
  /\ UNCHANGED <<items, lastHandle, objects, files, open, refused>>

Next == VaultImport \/ CreateNamedKey \/ ImportNamedKey \/ Put \/ VaultDelete
        \/ ProcessorRelease \/ CipherCreate \/ CipherOperation \/ DigestCreate
        \/ HmacCreate \/ Calculate \/ ComputerDestroy

Spec == Init /\ [][Next]_vars

\* Whatever fails halfway through an import, and whatever is deleted when, an
\* object in the memory of the security processor that no item of the vault names
\* is one the processor refused to delete when it was asked: the vault forgets
\* none by itself.  (Those it refused nobody can delete any more, and the user
\* range is small.)
OrphansWereRefused ==
  \A id \in objects \ files :
    (\E h \in Handle : id \in Held(h)) \/ id \in refused
=============================================================================
