---------------------------- MODULE Cryptography ----------------------------
(***************************************************************************)
(* The reference counted objects the cryptography library gives out.       *)
(*                                                                         *)
(* With a connection point they are proxies: each holds a reference to an  *)
(* object in the Svalbard plugin (its _accessor) and is in the list of the *)
(* CryptographyLink, which unlinks all of them when the plugin goes down.  *)
(* A call goes through under the proxy's _adminLock; a call that yields an *)
(* object holds that lock while it registers a proxy for it.               *)
(*                                                                         *)
(* Without one they are local: an HMAC, cipher or Diffie-Hellman object    *)
(* keeps the VaultImpl it was made from.                                   *)
(*                                                                         *)
(* The proxy list of Thunder is external: Clear() empties the list and     *)
(* calls Unlink() of every element; an element leaves the list, unlinked,  *)
(* when the application gives up its last reference.                       *)
(***************************************************************************)
EXTENDS Integers, FiniteSets

CONSTANTS
  Clients,    \* application threads
  MaxProxies, \* bound: proxies (each with a remote object) ever made
  MaxLocal    \* bound: local objects ever made from the vault

\* What is assumed of the constants.
CryptographyBounds == MaxProxies \in Nat /\ MaxLocal \in Nat

VARIABLES
  kind,       \* what each proxy is, "none" before it is made
  accessor,   \* the proxy has its _accessor
  listed,     \* the proxies in _interfaces
  clearing,   \* the proxies Clear() has still to unlink
  held,       \* references of the application to each proxy
  refs,       \* references this process has to each remote object
  made,       \* proxies made so far
  pc,         \* the call in progress of each client
  up,         \* the plugin is there
  vaultRefs,  \* references to the local VaultImpl; 0: not there
  vaultHeld,  \* ... the application's share of them
  locals      \* local objects made from it: their number alive, and ever made

proxyVars == <<kind, accessor, listed, clearing, held, refs, made, pc, up>>
localVars == <<vaultRefs, vaultHeld, locals>>
vars == <<proxyVars, localVars>>

Proxy == 1..MaxProxies
Kinds == {"cryptography", "vault", "random", "hash", "cipher", "dh"}
Idle == [step |-> "idle", parent |-> 0, new |-> 0, kind |-> "none"]

\* Every variable keeps its type.
TypeOK ==
  /\ kind \in [Proxy -> Kinds \cup {"none"}]
  /\ accessor \in [Proxy -> BOOLEAN]
  /\ listed \subseteq Proxy
  /\ clearing \subseteq Proxy
  /\ held \in [Proxy -> Nat]
  /\ refs \in [Proxy -> Nat]
  /\ made \in 0..MaxProxies
  /\ pc \in [Clients -> [step : {"idle", "register", "release", "query"},
                         parent : 0..MaxProxies, new : 0..MaxProxies,
                         kind : Kinds \cup {"none"}]]
  /\ up \in BOOLEAN
  /\ vaultRefs \in Nat
  /\ vaultHeld \in Nat
  /\ locals \in [alive : Nat, made : Nat]

Init ==
  /\ kind = [p \in Proxy |-> "none"]
  /\ accessor = [p \in Proxy |-> FALSE]
  /\ listed = {}
  /\ clearing = {}
  /\ held = [p \in Proxy |-> 0]
  /\ refs = [p \in Proxy |-> 0]
  /\ made = 0
  /\ pc = [c \in Clients |-> Idle]
  /\ up = TRUE
  /\ vaultRefs = 0
  /\ vaultHeld = 0
  /\ locals = [alive |-> 0, made |-> 0]

-----------------------------------------------------------------------------
\* Proxies.

\* _adminLock of proxy p is taken by a client that makes an object from it.
Locked(p) == \E c \in Clients : pc[c].step # "idle" /\ pc[c].parent = p

\* The remote call returned an interface: one reference, for a proxy to come.
Obtain(c, parent, what) ==
  /\ made < MaxProxies
  /\ made' = made + 1
  /\ refs' = [refs EXCEPT ![made + 1] = 1]
  /\ pc' = [pc EXCEPT ![c] = [step |-> "register", parent |-> parent,
                              new |-> made + 1, kind |-> what]]
  /\ UNCHANGED <<kind, accessor, listed, clearing, held, up>>

\* CryptographyLink::Cryptography(): no lock, and an Acquire() of its own.
Acquire(c) == pc[c].step = "idle" /\ up /\ Obtain(c, 0, "cryptography")

\* RPCCryptographyImpl::Random(), Hash() and Vault().
AskCryptography(c) ==
  /\ pc[c].step = "idle"
  /\ \E p \in Proxy, what \in {"random", "hash", "vault"} :
       /\ kind[p] = "cryptography" /\ held[p] > 0 /\ ~Locked(p)
       /\ accessor[p]
       /\ Obtain(c, p, what)

\* RPCVaultImpl::HMAC(), AES() and DiffieHellman().
AskVault(c) ==
  /\ pc[c].step = "idle"
  /\ \E p \in Proxy, what \in {"hash", "cipher", "dh"} :
       /\ kind[p] = "vault" /\ held[p] > 0 /\ ~Locked(p)
       /\ accessor[p]
       /\ Obtain(c, p, what)

\* Register(): the constructor of the proxy takes a reference of its own.
Register(c) ==
  /\ pc[c].step = "register"
  /\ LET n == pc[c].new IN
       /\ kind' = [kind EXCEPT ![n] = pc[c].kind]
       /\ accessor' = [accessor EXCEPT ![n] = TRUE]
       /\ refs' = [refs EXCEPT ![n] = @ + 1]
       /\ listed' = listed \cup {n}
  /\ pc' = [pc EXCEPT ![c].step = "release"]
  /\ UNCHANGED <<clearing, held, made, up>>

\* Mutant: the reference the remote call gave is kept.
ReleaseRemote_Kept(c) ==
  /\ pc[c].step = "release"
  /\ pc' = [pc EXCEPT ![c].step = "query"]
  /\ UNCHANGED <<kind, accessor, listed, clearing, held, refs, made, up>>

\* iface->Release().
ReleaseRemote(c) ==
  /\ pc[c].step = "release"
  /\ refs' = [refs EXCEPT ![pc[c].new] = @ - 1]
  /\ pc' = [pc EXCEPT ![c].step = "query"]
  /\ UNCHANGED <<kind, accessor, listed, clearing, held, made, up>>

\* QueryInterface() on the proxy, and the lock of the parent is free again.
Query(c) ==
  /\ pc[c].step = "query"
  /\ held' = [held EXCEPT ![pc[c].new] = @ + 1]
  /\ pc' = [pc EXCEPT ![c] = Idle]
  /\ UNCHANGED <<kind, accessor, listed, clearing, refs, made, up>>

\* Unlink(): under the proxy's lock, the reference goes and so does _accessor.
Unlink(p) ==
  /\ ~Locked(p)
  /\ refs' = [refs EXCEPT ![p] = IF accessor[p] THEN @ - 1 ELSE @]
  /\ accessor' = [accessor EXCEPT ![p] = FALSE]

\* The application's last Release(): out of the list, unlinked, and destroyed.
ReleaseProxy ==
  /\ \E p \in Proxy :
       /\ held[p] > 0
       /\ held' = [held EXCEPT ![p] = @ - 1]
       /\ IF p \in listed /\ held[p] = 1
          THEN Unlink(p) /\ listed' = listed \ {p}
          ELSE UNCHANGED <<accessor, refs, listed>>
  /\ UNCHANGED <<kind, clearing, made, pc, up>>

\* Operational(false): Clear() takes the whole list ...
OperationalDown ==
  /\ up
  /\ up' = FALSE
  /\ clearing' = clearing \cup listed
  /\ listed' = {}
  /\ UNCHANGED <<kind, accessor, held, refs, made, pc>>

\* ... and unlinks one proxy after the other.
ClearOne ==
  /\ \E p \in clearing : Unlink(p) /\ clearing' = clearing \ {p}
  /\ UNCHANGED <<kind, listed, held, made, pc, up>>

OperationalUp ==
  /\ ~up /\ clearing = {}
  /\ up' = TRUE
  /\ UNCHANGED <<kind, accessor, listed, clearing, held, refs, made, pc>>

ProxyNext ==
  /\ \/ \E c \in Clients : Acquire(c) \/ AskCryptography(c) \/ AskVault(c)
                           \/ Register(c) \/ ReleaseRemote(c) \/ Query(c)
     \/ ReleaseProxy \/ OperationalDown \/ ClearOne \/ OperationalUp
  /\ UNCHANGED localVars

-----------------------------------------------------------------------------
\* Local objects.

\* CryptographyImpl::Vault(): a VaultImpl around the one vault of its kind.
LocalVault ==
  /\ vaultRefs = 0 /\ locals.made < MaxLocal
  /\ vaultRefs' = 1
  /\ vaultHeld' = 1
  /\ UNCHANGED locals

\* Mutant: the object does not keep its vault.
LocalObject_Borrowed ==
  /\ vaultHeld > 0 /\ locals.made < MaxLocal
  /\ locals' = [alive |-> locals.alive + 1, made |-> locals.made + 1]
  /\ UNCHANGED <<vaultRefs, vaultHeld>>

\* VaultImpl::HMAC(), AES() and DiffieHellman(): the object takes a reference
\* to the vault it was made from.
LocalObject ==
  /\ vaultHeld > 0 /\ locals.made < MaxLocal
  /\ locals' = [alive |-> locals.alive + 1, made |-> locals.made + 1]
  /\ vaultRefs' = vaultRefs + 1
  /\ UNCHANGED vaultHeld

\* ~HMACImpl(), ~CipherImpl() and ~DiffieHellmanImpl().
LocalObjectRelease ==
  /\ locals.alive > 0
  /\ locals' = [locals EXCEPT !.alive = @ - 1]
  /\ vaultRefs' = vaultRefs - 1
  /\ UNCHANGED vaultHeld

\* The application's references to the vault itself.
LocalVaultRelease ==
  /\ vaultHeld > 0
  /\ vaultHeld' = vaultHeld - 1
  /\ vaultRefs' = vaultRefs - 1
  /\ UNCHANGED locals

LocalNext ==
  /\ LocalVault \/ LocalObject \/ LocalObjectRelease \/ LocalVaultRelease
  /\ UNCHANGED proxyVars

Next == ProxyNext \/ LocalNext

Spec == Init /\ [][Next]_vars

-----------------------------------------------------------------------------
\* References this process has to a remote object: one per proxy that has its
\* _accessor, and one while a client is between the call and its Release().
\* However the plugin's end, the client's Release() and a call in progress
\* interleave, none is lost and none is given back twice.
RemoteReferencesBalance ==
  \A p \in Proxy :
    refs[p] = (IF accessor[p] THEN 1 ELSE 0)
              + Cardinality({c \in Clients : pc[c].step \in {"register", "release"}
                                             /\ pc[c].new = p})

\* A local object that is alive has its vault, whatever the application
\* released before it.
LocalVaultOutlives == vaultRefs = vaultHeld + locals.alive
=============================================================================
