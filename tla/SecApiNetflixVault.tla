------------------------ MODULE SecApiNetflixVault --------------------------
(***************************************************************************)
(* The Netflix vault of the SecApi implementation: a map from small        *)
(* handles to keys of the security processor, the three named keys found   *)
(* at start, and one slot for a peer's public key.  Nothing is locked, so  *)
(* one thread uses it.  A handle is the lowest that is free: unlike those  *)
(* of the other vaults it is used again after a deletion, by whichever key *)
(* comes next.                                                             *)
(***************************************************************************)
EXTENDS Integers, FiniteSets

CONSTANTS
  MaxKeys     \* bound: handles are 1..MaxKeys, and no key is added beyond it

\* What is assumed of the constants.
NetflixBounds == MaxKeys \in Nat \ {0}

VARIABLES
  socKeys,    \* VaultNetflix::_socKeyMap
  named,      \* VaultNetflix::_namedKeys, 0 where a name is missing
  peer,       \* _pubKeyStore holds a peer's public key
  object      \* the object made last, a CipherNetflix or a HashTypeNetflix

vars == <<socKeys, named, peer, object>>

Handle == 1..MaxKeys
Names == {"DKE", "DKH", "DKW"}
Key == Names \cup {"none", "private", "public", "secret", "sealed"}
ENC_ID == 1

\* Every variable keeps its type.
TypeOK ==
  /\ socKeys \in [Handle -> Key]
  /\ named \in [Names -> 0..3]
  /\ peer \in BOOLEAN
  /\ object \in [kind : {"none", "cipher", "hmac"}, id : 0..MaxKeys, failed : BOOLEAN]

\* namedKeys(): the names in this order, until one is missing; none at all if
\* SecNetflix_LoadBoundKeys() fails.
Loaded(count) ==
  [n \in Names |-> LET place == CASE n = "DKE" -> 1 [] n = "DKH" -> 2 [] OTHER -> 3
                   IN IF place <= count THEN place ELSE 0]

Init ==
  \E count \in {k \in 0..3 : k <= MaxKeys} :
    /\ named = Loaded(count)
    /\ socKeys = [h \in Handle |->
                    IF \E n \in Names : named[n] = h
                    THEN CHOOSE n \in Names : named[n] = h ELSE "none"]
    /\ peer = FALSE
    /\ object = [kind |-> "none", id |-> 0, failed |-> FALSE]

\* FindKey().
Found(id) == id \in Handle /\ socKeys[id] # "none"
Free == {h \in Handle : socKeys[h] = "none"}

\* GetNewKeyHandle(): the lowest handle the map does not have.
NewKeyHandle(keys) ==
  CHOOSE h \in Handle : keys[h] = "none" /\ \A g \in 1..(h - 1) : keys[g] # "none"

\* AddKey().
AddKey(keys, key) == [keys EXCEPT ![NewKeyHandle(keys)] = key]

\* Import(): a public key replaces the one in the slot; the id is always 1.
Import ==
  /\ peer' = TRUE
  /\ UNCHANGED <<socKeys, named, object>>

\* Put(): a sealed key, if the processor accepts it.
Put ==
  /\ Free # {}
  /\ socKeys' = AddKey(socKeys, "sealed")
  /\ UNCHANGED <<named, peer, object>>

\* GenerateDiffieHellmanKeys().
DhGenerate ==
  /\ Cardinality(Free) >= 2
  /\ socKeys' = AddKey(AddKey(socKeys, "private"), "public")
  /\ UNCHANGED <<named, peer, object>>

\* DiffieHellmanAuthenticatedDeriveSecret(): the peer's key is the one in the
\* slot, whatever id the caller gives; the processor needs both other keys.
DeriveKeys ==
  /\ Cardinality(Free) >= 3
  /\ peer
  /\ \E base, derivation \in Handle :
       Found(base) /\ socKeys[base] = "private" /\ Found(derivation)
  /\ socKeys' = AddKey(AddKey(AddKey(socKeys, "secret"), "secret"), "secret")
  /\ UNCHANGED <<named, peer, object>>

\* Delete(), deleteKey(), DeleteKeyFromMap(): never the first handle, though
\* the caller is told that it was deleted.
Delete(id) ==
  /\ Found(id)
  /\ id # ENC_ID
  /\ socKeys' = [socKeys EXCEPT ![id] = "none"]
  /\ UNCHANGED <<named, peer, object>>

VaultDelete == \E id \in Handle : Delete(id)

\* cipher_create_aes(): Size() tells the length of a public key only, and a
\* value that is not 0 for any other.
CipherCreate ==
  /\ \E id \in Handle :
       Found(id) /\ object' = [kind |-> "cipher", id |-> id, failed |-> FALSE]
  /\ UNCHANGED <<socKeys, named, peer>>

\* HashTypeNetflix(): a missing key makes the object fail for good.
HmacCreate ==
  /\ \E id \in Handle :
       object' = [kind |-> "hmac", id |-> id, failed |-> ~Found(id)]
  /\ UNCHANGED <<socKeys, named, peer>>

Next == Import \/ Put \/ DhGenerate \/ DeriveKeys \/ VaultDelete
        \/ CipherCreate \/ HmacCreate

Spec == Init /\ [][Next]_vars

\* netflix_security_encryption_key() answers from _namedKeys for ever.  However
\* keys come and go, the handle it gives is that of the key that was found
\* under this name, not of a key that took a freed handle.
EncryptionKeyStays == named["DKE"] # 0 => socKeys[named["DKE"]] = "DKE"
=============================================================================
