------------------------------ MODULE KeyPool ------------------------------
(***************************************************************************)
(* The key pool of the wallet: keys generated in advance, each under an    *)
(* index in the wallet file, and the reservations (CReserveKey) of the     *)
(* threads that may or may not use the key they were given.                *)
(*                                                                         *)
(* A critical section of cs_wallet is one action.  KeepKey takes no lock   *)
(* and is one too: it erases one record.                                   *)
(*                                                                         *)
(* Keys are numbered in the order they are generated.  An operation of the *)
(* wallet that fails to generate or to write a key throws                  *)
(* (TopUpKeyPoolFails); the other writes of the wallet file succeed.       *)
(***************************************************************************)
EXTENDS Integers, FiniteSets

CONSTANTS
  User,       \* the reservations, one CReserveKey each
  nKeypool,   \* the option -keypool
  MaxKeys     \* bound: keys generated

ASSUME KeyPoolAssumption == nKeypool \in Nat /\ MaxKeys \in Nat

VARIABLES
  setKeyPool,   \* the indices that may be given out
  dbPool,       \* the wallet file: the key under each index
  nKeys,        \* how many keys were generated
  fCrypted,
  fLocked,
  nIndex,       \* CReserveKey: the index reserved, or -1
  vchPubKey,    \* CReserveKey: the key
  used,         \* history: the pool keys somebody took for good
  fDrained      \* history: since start-up the indices began again, or the
                \* pool was empty, while an index was reserved

vars == <<setKeyPool, dbPool, nKeys, fCrypted, fLocked, nIndex, vchPubKey,
          used, fDrained>>

wallet == <<fCrypted, fLocked>>
reservations == <<nIndex, vchPubKey>>

Invalid == -1      \* CPubKey()
vchDefaultKey == 0

Holds(u) == nIndex[u] # -1

Reserved == {nIndex[u] : u \in {v \in User : Holds(v)}}

DrainedNext == fDrained \/ (setKeyPool' = {} /\ Reserved' # {})

Without(f, i) == [j \in DOMAIN f \ {i} |-> f[j]]

----------------------------------------------------------------------------
(* TopUpKeyPool *)

\* The index after which new ones are added.
Ends == setKeyPool \cup {0}

IsEnd(nEnd) ==
  /\ \A i \in setKeyPool : i <= nEnd
  /\ setKeyPool = {} => nEnd = 0

Shortage == nKeypool + 1 - Cardinality(setKeyPool)

Added(nEnd) == IF fLocked THEN {} ELSE nEnd + 1 .. nEnd + Shortage

\* The records after the indices in added were written, the first with the
\* key that follows nKeys.
Written(nEnd, added) ==
  [i \in DOMAIN dbPool \cup added |->
     IF i \in added THEN nKeys + i - nEnd ELSE dbPool[i]]

\* AddKey fails, as it does once the wallet is locked from another thread, or
\* WritePool does; keys written before stay in the pool.
TopUpKeyPoolFails ==
  /\ ~fLocked
  /\ \E nEnd \in Ends :
       /\ IsEnd(nEnd)
       /\ \E n \in 0 .. Shortage - 1 :
            LET added == nEnd + 1 .. nEnd + n
            IN /\ nKeys + n <= MaxKeys
               /\ setKeyPool' = setKeyPool \cup added
               /\ dbPool' = Written(nEnd, added)
               /\ nKeys' = nKeys + n
  /\ UNCHANGED <<wallet, reservations, used, fDrained>>

----------------------------------------------------------------------------
(* ReserveKeyFromKeyPool and its callers *)

\* Mutant: the newest key is given out.
IsNewest(i, pool) == i \in pool /\ \A j \in pool : i >= j

IsOldest(i, pool) == i \in pool /\ \A j \in pool : i <= j

\* The pool is empty and, because the wallet is locked, stays so.
NoKey == fLocked /\ setKeyPool = {}

\* ReserveKeyFromKeyPool gives index i after the pool was topped up from nEnd.
Reserves(i, nEnd) ==
  LET added == Added(nEnd)
  IN /\ IsEnd(nEnd)
     /\ IsOldest(i, setKeyPool \cup added)
     /\ nKeys + Cardinality(added) <= MaxKeys
     /\ setKeyPool' = (setKeyPool \cup added) \ {i}
     /\ nKeys' = nKeys + Cardinality(added)

\* A locked wallet has no key: the default key is used, without an index.  If
\* the record is missing, ReserveKeyFromKeyPool throws with the index already
\* taken from the pool: the reservation has it, and no key to be used.
GetReservedKey(u) ==
  /\ ~Holds(u)
  /\ \/ /\ NoKey
        /\ vchPubKey' = [vchPubKey EXCEPT ![u] = vchDefaultKey]
        /\ UNCHANGED <<setKeyPool, dbPool, nKeys, nIndex>>
     \/ \E nEnd \in Ends : \E i \in setKeyPool \cup Added(nEnd) :
          LET records == Written(nEnd, Added(nEnd))
          IN /\ Reserves(i, nEnd)
             /\ dbPool' = records
             /\ nIndex' = [nIndex EXCEPT ![u] = i]
             /\ vchPubKey' = [vchPubKey EXCEPT ![u] =
                                IF i \in DOMAIN records THEN records[i] ELSE Invalid]
  /\ fDrained' = DrainedNext
  /\ UNCHANGED <<wallet, used>>

\* A key taken for good, in one critical section.  If the record is missing the
\* index is lost to the pool.  Nothing changes when there is no key: the caller
\* gets the default key, or none.
GetKeyFromPool ==
  /\ UNCHANGED <<wallet, reservations>>
  /\ \E nEnd \in Ends : \E i \in setKeyPool \cup Added(nEnd) :
       LET records == Written(nEnd, Added(nEnd))
       IN /\ Reserves(i, nEnd)
          /\ dbPool' = Without(records, i)
          /\ used' = IF i \in DOMAIN records THEN used \cup {records[i]} ELSE used
  /\ fDrained' = DrainedNext

----------------------------------------------------------------------------
(* The end of a reservation *)

Forget(u) ==
  /\ nIndex' = [nIndex EXCEPT ![u] = -1]
  /\ vchPubKey' = [vchPubKey EXCEPT ![u] = Invalid]

\* Mutant: the record stays in the wallet file.
KeepKeyRecord(u) ==
  /\ vchPubKey[u] # Invalid
  /\ Forget(u)
  /\ used' = IF Holds(u) THEN used \cup {vchPubKey[u]} ELSE used
  /\ UNCHANGED <<setKeyPool, dbPool, nKeys, wallet, fDrained>>

\* After an exception the key is not kept: the destructor returns it.
KeepKey(u) ==
  /\ vchPubKey[u] # Invalid
  /\ Forget(u)
  /\ dbPool' = IF Holds(u) THEN Without(dbPool, nIndex[u]) ELSE dbPool
  /\ used' = IF Holds(u) THEN used \cup {vchPubKey[u]} ELSE used
  /\ UNCHANGED <<setKeyPool, nKeys, wallet, fDrained>>

\* Also the destructor of CReserveKey.
ReturnKey(u) ==
  /\ Holds(u) \/ vchPubKey[u] # Invalid
  /\ Forget(u)
  /\ setKeyPool' = IF Holds(u) THEN setKeyPool \cup {nIndex[u]} ELSE setKeyPool
  /\ UNCHANGED <<dbPool, nKeys, wallet, used, fDrained>>

----------------------------------------------------------------------------
(* The wallet *)

\* EncryptWallet ends with Unlock, NewKeyPool, Lock, all under cs_wallet.
EncryptWallet ==
  LET new == 1 .. nKeypool
  IN /\ ~fCrypted
     /\ nKeys + nKeypool <= MaxKeys
     /\ setKeyPool' = new
     /\ dbPool' = [i \in (DOMAIN dbPool \ setKeyPool) \cup new |->
                     IF i \in new THEN nKeys + i ELSE dbPool[i]]
     /\ nKeys' = nKeys + nKeypool
     /\ fCrypted' = TRUE
     /\ fLocked' = TRUE
     /\ fDrained' = (fDrained \/ Reserved # {})
     /\ UNCHANGED <<reservations, used>>

Lock ==
  /\ fCrypted
  /\ fLocked' = TRUE
  /\ UNCHANGED <<setKeyPool, dbPool, nKeys, fCrypted, reservations, used, fDrained>>

Unlock ==
  /\ fCrypted
  /\ fLocked' = FALSE
  /\ UNCHANGED <<setKeyPool, dbPool, nKeys, fCrypted, reservations, used, fDrained>>

\* The process ends and starts again: the reservations are gone, the pool is
\* what CWalletDB::LoadWallet finds, and an encrypted wallet is locked.
Restart ==
  /\ setKeyPool' = DOMAIN dbPool
  /\ nIndex' = [u \in User |-> -1]
  /\ vchPubKey' = [u \in User |-> Invalid]
  /\ fLocked' = fCrypted
  /\ fDrained' = FALSE
  /\ UNCHANGED <<dbPool, nKeys, fCrypted, used>>

----------------------------------------------------------------------------

Init ==
  /\ setKeyPool = {}
  /\ dbPool = [i \in {} |-> Invalid]
  /\ nKeys = 0
  /\ fCrypted = FALSE
  /\ fLocked = FALSE
  /\ nIndex = [u \in User |-> -1]
  /\ vchPubKey = [u \in User |-> Invalid]
  /\ used = {}
  /\ fDrained = FALSE

Next ==
  \/ \E u \in User : GetReservedKey(u) \/ KeepKey(u) \/ ReturnKey(u)
  \/ GetKeyFromPool
  \/ TopUpKeyPoolFails
  \/ EncryptWallet \/ Lock \/ Unlock
  \/ Restart

Spec == Init /\ [][Next]_vars

----------------------------------------------------------------------------
(* Properties *)

\* The pool is a finite set of indices from one on, and a key is one that was
\* generated: TopUpKeyPool never numbers from before the first index
\* (wallet.cpp:1510), and nobody holds a key the wallet has not got.
KeyTypeOK ==
  /\ setKeyPool \subseteq Nat \ {0} /\ IsFiniteSet(setKeyPool)
  /\ nKeys \in Nat
  /\ DOMAIN dbPool \subseteq Nat \ {0} /\ IsFiniteSet(DOMAIN dbPool)
  /\ dbPool \in [DOMAIN dbPool -> 1 .. nKeys]
  /\ fCrypted \in BOOLEAN /\ fLocked \in BOOLEAN
  /\ fLocked => fCrypted
  /\ nIndex \in [User -> {-1} \cup (Nat \ {0})]
  /\ vchPubKey \in [User -> -1 .. nKeys]
  /\ \A u \in User : Holds(u) => vchPubKey[u] # vchDefaultKey
  /\ used \subseteq 1 .. nKeys
  /\ fDrained \in BOOLEAN

\* A key that somebody took for good is not in the wallet file's pool: it is
\* not given out after a restart, however the pool was drained, renewed and
\* its reservations kept or returned before (KeepKey, wallet.cpp:1564).
PoolKeysUnused == \A i \in DOMAIN dbPool : dbPool[i] \notin used

\* As long as the pool was not drained, every record is either in the pool or
\* reserved, once, by one thread, which holds the key it says; so nobody
\* shares a key, no key is lost, and no reservation throws
\* (ReserveKeyFromKeyPool, ReturnKey).
KeysAccounted ==
  ~fDrained =>
    /\ DOMAIN dbPool = setKeyPool \cup Reserved
    /\ setKeyPool \cap Reserved = {}
    /\ \A u, v \in User : Holds(u) /\ Holds(v) /\ u # v => nIndex[u] # nIndex[v]
    /\ \A u \in User : Holds(u) => vchPubKey[u] = dbPool[nIndex[u]]
    /\ \A u \in User : Holds(u) => vchPubKey[u] \notin used

\* A wallet that is not encrypted, with a target of at least one key, is never
\* drained, however many threads reserve: TopUpKeyPool keeps one key more than
\* the target (wallet.cpp:1508), so the indices go on from the last.
PlainPoolNotDrained == ~fCrypted /\ nKeypool > 0 => ~fDrained

\* "Take key pair from key pool so it won't be used again" (wallet.cpp:1285):
\* who holds a reserved key can use it as nobody else has.
WontBeUsedAgain == \A u \in User : Holds(u) => vchPubKey[u] \notin used
=============================================================================
