---------------------------- MODULE WalletProofs ----------------------------
(***************************************************************************)
(* Theorems about the wallet: its pool of keys, the coins of its payments, *)
(* and its transactions in memory, in wallet.dat and after a crash.        *)
(***************************************************************************)
EXTENDS KeyPool, Wallet, Recursion

----------------------------------------------------------------------------
(* The key pool, for every set of reservations, every size of the pool and *)
(* any number of keys.                                                     *)
(*                                                                         *)
(* A reservation is one topping up followed by taking the oldest index.    *)
(* Typed, Unused and Accounted therefore say what the invariants say of a  *)
(* pool S with records P and n keys, which is the one in between.          *)

Typed(S, P, n) ==
  /\ S \subseteq Nat \ {0} /\ IsFiniteSet(S)
  /\ n \in Nat
  /\ DOMAIN P \subseteq Nat \ {0} /\ IsFiniteSet(DOMAIN P)
  /\ P \in [DOMAIN P -> 1 .. n]

\* A key is under one index, and who holds a key reserved that one.
Unused(P) ==
  /\ \A i \in DOMAIN P : P[i] \notin used
  /\ \A i, j \in DOMAIN P : P[i] = P[j] => i = j
  /\ \A u \in User : \A i \in DOMAIN P :
       Holds(u) /\ P[i] = vchPubKey[u] => i = nIndex[u]

\* The last conjunct is why topping up, which goes on from the last index of
\* the pool, does not meet a reserved one.
Accounted(S, P) ==
  /\ DOMAIN P = S \cup Reserved
  /\ S \cap Reserved = {}
  /\ \A u, v \in User : Holds(u) /\ Holds(v) /\ u # v => nIndex[u] # nIndex[v]
  /\ \A u \in User : Holds(u) => vchPubKey[u] = P[nIndex[u]]
  /\ \A r \in Reserved : \E j \in S : r < j

UnusedInv == Unused(dbPool)

AccountedInv == ~fDrained => Accounted(setKeyPool, dbPool)

KeyInv == KeyTypeOK /\ UnusedInv /\ AccountedInv

LEMMA TypedIsType == KeyTypeOK => Typed(setKeyPool, dbPool, nKeys)
BY DEF KeyTypeOK, Typed

----------------------------------------------------------------------------
(* Topping up *)

IsWritten(P, nEnd, n, added) ==
  /\ DOMAIN P = DOMAIN dbPool \cup added
  /\ P = [i \in DOMAIN P |-> P[i]]
  /\ \A i \in added : P[i] = nKeys + i - nEnd /\ P[i] > nKeys /\ P[i] <= nKeys + n
  /\ \A i \in DOMAIN dbPool \ added : P[i] = dbPool[i]
  /\ \A i \in added : i \in Nat /\ i > nEnd
  /\ IsFiniteSet(added) /\ Cardinality(added) = n

\* The records after topping up with n keys.
LEMMA WrittenRecords ==
  ASSUME KeyTypeOK, NEW nEnd \in Nat, NEW n \in Nat, NEW added,
         added = nEnd + 1 .. nEnd + n
  PROVE  IsWritten(Written(nEnd, added), nEnd, n, added)
<1>1. IsFiniteSet(added) /\ Cardinality(added) = n
  BY FS_Interval
<1>2. \A i \in added : i \in Nat /\ i > nEnd /\ i <= nEnd + n
  OBVIOUS
<1>3. nKeys \in Nat
  BY DEF KeyTypeOK
<1>4. \A i \in added : Written(nEnd, added)[i] = nKeys + i - nEnd
  BY DEF Written
<1>5. \A i \in added : nKeys + i - nEnd > nKeys /\ nKeys + i - nEnd <= nKeys + n
  BY <1>2, <1>3
<1> QED
  BY <1>1, <1>2, <1>4, <1>5 DEF Written, IsWritten

\* Topping up keeps what the invariants say of the pool.
LEMMA ToppedUp ==
  ASSUME KeyInv, NEW nEnd \in Ends, IsEnd(nEnd), NEW n \in Nat, NEW added,
         added = nEnd + 1 .. nEnd + n
  PROVE  LET S == setKeyPool \cup added
             P == Written(nEnd, added)
         IN /\ Typed(S, P, nKeys + n)
            /\ Unused(P)
            /\ ~fDrained => Accounted(S, P)
<1> DEFINE S == setKeyPool \cup added
           P == Written(nEnd, added)
<1>1. nEnd \in Nat
  BY DEF Ends, KeyInv, KeyTypeOK
<1>2. /\ DOMAIN P = DOMAIN dbPool \cup added
      /\ P = [i \in DOMAIN P |-> P[i]]
      /\ \A i \in added : P[i] = nKeys + i - nEnd /\ P[i] > nKeys /\ P[i] <= nKeys + n
      /\ \A i \in DOMAIN dbPool \ added : P[i] = dbPool[i]
      /\ \A i \in added : i \in Nat /\ i > nEnd
      /\ IsFiniteSet(added) /\ Cardinality(added) = n
  <2>1. KeyTypeOK
    BY DEF KeyInv
  <2>2. IsWritten(P, nEnd, n, added)
    BY <1>1, <2>1, WrittenRecords
  <2> QED
    BY <2>2 DEF IsWritten
<1> HIDE DEF P
<1>3. Typed(S, P, nKeys + n)
  <2>1. IsFiniteSet(S) /\ IsFiniteSet(DOMAIN P)
    <3>1. IsFiniteSet(setKeyPool) /\ IsFiniteSet(DOMAIN dbPool)
      BY DEF KeyInv, KeyTypeOK
    <3>2. IsFiniteSet(S)
      BY <1>2, <3>1, FS_Union
    <3>3. IsFiniteSet(DOMAIN dbPool \cup added)
      BY <1>2, <3>1, FS_Union
    <3> QED
      BY <1>2, <3>2, <3>3
  <2>2. nKeys \in Nat /\ nKeys + n \in Nat
    BY DEF KeyInv, KeyTypeOK
  <2>3. \A i \in DOMAIN P : P[i] \in 1 .. nKeys + n
    <3> SUFFICES ASSUME NEW i \in DOMAIN P PROVE P[i] \in 1 .. nKeys + n
      OBVIOUS
    <3>1. CASE i \in added
      BY <1>1, <1>2, <2>2, <3>1
    <3>2. CASE i \notin added
      <4>1. i \in DOMAIN dbPool /\ P[i] = dbPool[i]
        BY <1>2, <3>2
      <4>2. dbPool[i] \in 1 .. nKeys
        BY <4>1 DEF KeyInv, KeyTypeOK
      <4> QED
        BY <4>1, <4>2, <2>2
    <3> QED
      BY <3>1, <3>2
  <2>4. P \in [DOMAIN P -> 1 .. nKeys + n]
    BY <1>2, <2>3
  <2>5. S \subseteq Nat \ {0} /\ DOMAIN P \subseteq Nat \ {0}
    BY <1>1, <1>2 DEF KeyInv, KeyTypeOK
  <2> QED
    BY <2>1, <2>2, <2>4, <2>5 DEF Typed
<1>4. Unused(P)
  <2>1. nKeys \in Nat
    BY DEF KeyInv, KeyTypeOK
  <2>2. \A i \in DOMAIN dbPool : dbPool[i] \in 1 .. nKeys
    BY DEF KeyInv, KeyTypeOK
  <2>3. \A i \in DOMAIN P : P[i] \notin used
    <3>1. used \subseteq 1 .. nKeys
      BY DEF KeyInv, KeyTypeOK
    <3>2. \A i \in added : P[i] \notin 1 .. nKeys
      BY <1>2, <2>1
    <3> QED
      BY <1>2, <3>1, <3>2 DEF KeyInv, UnusedInv, Unused
  <2>4. \A i, j \in DOMAIN P : P[i] = P[j] => i = j
    <3> SUFFICES ASSUME NEW i \in DOMAIN P, NEW j \in DOMAIN P, P[i] = P[j]
                 PROVE  i = j
      OBVIOUS
    <3>1. CASE i \in added /\ j \in added
      BY <1>1, <1>2, <2>1, <3>1
    <3>2. CASE i \notin added /\ j \notin added
      BY <1>2, <3>2 DEF KeyInv, UnusedInv, Unused
    <3>3. ASSUME NEW k \in added, NEW l \in DOMAIN dbPool \ added PROVE P[k] # P[l]
      BY <1>2, <2>1, <2>2
    <3> QED
      BY <1>2, <3>1, <3>2, <3>3
  <2>5. ASSUME NEW u \in User, NEW i \in DOMAIN P, Holds(u), P[i] = vchPubKey[u]
        PROVE  i = nIndex[u]
    <3>1. vchPubKey[u] \in -1 .. nKeys
      BY DEF KeyInv, KeyTypeOK
    <3>2. i \notin added
      BY <1>2, <2>1, <2>5, <3>1
    <3> QED
      BY <1>2, <2>5, <3>2 DEF KeyInv, UnusedInv, Unused
  <2> QED
    BY <2>3, <2>4, <2>5 DEF Unused
<1>5. ASSUME ~fDrained PROVE Accounted(S, P)
  <2>1. Accounted(setKeyPool, dbPool)
    BY <1>5 DEF KeyInv, AccountedInv
  <2>2. Reserved \cap added = {}
    <3> SUFFICES ASSUME NEW r \in Reserved PROVE r \notin added
      OBVIOUS
    <3>1. PICK j \in setKeyPool : r < j
      BY <2>1 DEF Accounted
    <3>2. j <= nEnd /\ j \in Nat
      BY DEF IsEnd, KeyInv, KeyTypeOK
    <3>3. r \in Nat
      BY <2>1 DEF Accounted, KeyInv, KeyTypeOK
    <3> QED
      BY <1>1, <1>2, <3>1, <3>2, <3>3
  <2>3. \A u \in User : Holds(u) => nIndex[u] \in DOMAIN dbPool \ added
    BY <2>1, <2>2 DEF Accounted, Reserved
  <2>4. DOMAIN P = S \cup Reserved /\ S \cap Reserved = {}
    BY <1>2, <2>1, <2>2 DEF Accounted
  <2>5. \A u \in User : Holds(u) => vchPubKey[u] = P[nIndex[u]]
    BY <1>2, <2>1, <2>3 DEF Accounted
  <2> QED
    BY <2>1, <2>4, <2>5 DEF Accounted
<1> QED
  BY <1>3, <1>4, <1>5 DEF P

\* What a top-up adds in a reservation is such an interval.
LEMMA AddedIsInterval ==
  ASSUME KeyTypeOK, NEW nEnd \in Ends
  PROVE  \E n \in Nat : /\ Added(nEnd) = nEnd + 1 .. nEnd + n
                        /\ ~fLocked /\ Shortage > 0 => n = Shortage
<1>1. Shortage \in Int
  BY FS_CardinalityType, KeyPoolAssumption DEF Shortage, KeyTypeOK
<1>2. nEnd \in Nat
  BY DEF Ends, KeyTypeOK
<1>3. CASE ~fLocked /\ Shortage > 0
  BY <1>1, <1>3 DEF Added
<1>4. CASE fLocked \/ Shortage <= 0
  <2>1. Added(nEnd) = {}
    BY <1>1, <1>2, <1>4 DEF Added
  <2>2. nEnd + 1 .. nEnd + 0 = {}
    BY <1>2
  <2> QED
    BY <1>1, <1>4, <2>1, <2>2
<1> QED
  BY <1>1, <1>3, <1>4

----------------------------------------------------------------------------
(* The pool and the records after a reservation has topped up and taken i. *)

LEMMA TakenFrom ==
  ASSUME KeyInv, NEW nEnd \in Ends, NEW i \in setKeyPool \cup Added(nEnd), Reserves(i, nEnd)
  PROVE  \E S : /\ i \in S /\ \A j \in S : i <= j
                /\ setKeyPool' = S \ {i}
                /\ Typed(S, Written(nEnd, Added(nEnd)), nKeys')
                /\ nKeys <= nKeys'
                /\ Unused(Written(nEnd, Added(nEnd)))
                /\ ~fDrained => Accounted(S, Written(nEnd, Added(nEnd)))
<1>1. KeyTypeOK /\ nEnd \in Nat
  BY DEF KeyInv, KeyTypeOK, Ends
<1>2. PICK n \in Nat : Added(nEnd) = nEnd + 1 .. nEnd + n
  BY <1>1, AddedIsInterval
<1>3. Cardinality(Added(nEnd)) = n
  BY <1>1, <1>2, FS_Interval
<1>4. nKeys' = nKeys + n /\ nKeys \in Nat
  BY <1>1, <1>3 DEF Reserves, KeyTypeOK
<1>5. LET S == setKeyPool \cup Added(nEnd)
          P == Written(nEnd, Added(nEnd))
      IN /\ Typed(S, P, nKeys + n)
         /\ Unused(P)
         /\ ~fDrained => Accounted(S, P)
  BY <1>2, ToppedUp DEF Reserves
<1> WITNESS setKeyPool \cup Added(nEnd)
<1> QED
  BY <1>4, <1>5 DEF Reserves, IsOldest

LEMMA GetReservedKeyInv ==
  ASSUME KeyInv, NEW u \in User, GetReservedKey(u)
  PROVE  KeyInv'
<1>1. CASE NoKey /\ UNCHANGED <<setKeyPool, dbPool, nKeys, nIndex>>
           /\ vchPubKey' = [vchPubKey EXCEPT ![u] = vchDefaultKey]
  <2>1. KeyTypeOK'
    <3>1. KeyTypeOK /\ ~Holds(u) /\ fDrained' = DrainedNext /\ UNCHANGED <<fCrypted, fLocked, used>>
      BY DEF KeyInv, GetReservedKey, wallet
    <3>2. fDrained' \in BOOLEAN
      BY <3>1 DEF KeyTypeOK, DrainedNext
    <3>3. vchPubKey' \in [User -> -1 .. nKeys']
      BY <1>1, <3>1 DEF KeyTypeOK, vchDefaultKey
    <3>4. \A v \in User : Holds(v)' => Holds(v) /\ vchPubKey'[v] = vchPubKey[v]
      BY <1>1, <3>1 DEF Holds, KeyTypeOK
    <3> QED
      BY <1>1, <3>1, <3>2, <3>3, <3>4 DEF KeyTypeOK
  <2>2. UnusedInv'
    BY <1>1 DEF KeyInv, UnusedInv, Unused, KeyTypeOK, GetReservedKey, Holds
  <2>3. AccountedInv'
    BY <1>1 DEF KeyInv, AccountedInv, Accounted, KeyTypeOK, GetReservedKey, DrainedNext, Holds, Reserved
  <2> QED
    BY <2>1, <2>2, <2>3 DEF KeyInv
<1>2. ASSUME NEW nEnd \in Ends, NEW i \in setKeyPool \cup Added(nEnd), Reserves(i, nEnd),
             NEW P, P = Written(nEnd, Added(nEnd)), dbPool' = P,
             nIndex' = [nIndex EXCEPT ![u] = i],
             vchPubKey' = [vchPubKey EXCEPT ![u] = IF i \in DOMAIN P THEN P[i] ELSE Invalid]
      PROVE  KeyInv'
  <2>1. PICK S : /\ i \in S /\ \A j \in S : i <= j
                 /\ setKeyPool' = S \ {i}
                 /\ Typed(S, P, nKeys')
                 /\ nKeys <= nKeys'
                 /\ Unused(P)
                 /\ ~fDrained => Accounted(S, P)
    BY <1>2, TakenFrom
  <2>2. KeyTypeOK
    BY DEF KeyInv
  <2>3. ~Holds(u) /\ fDrained' = DrainedNext /\ UNCHANGED <<fCrypted, fLocked, used>>
    BY DEF GetReservedKey, wallet
  <2>4. i \in Nat \ {0} /\ (i \in DOMAIN P => P[i] \in 1 .. nKeys')
    BY <2>1 DEF Typed
  <2>5. \A v \in User : /\ nIndex'[v] = IF v = u THEN i ELSE nIndex[v]
                        /\ v # u => vchPubKey'[v] = vchPubKey[v]
                        /\ Holds(v)' <=> (v = u \/ Holds(v))
    BY <1>2, <2>2, <2>4 DEF Holds, KeyTypeOK
  <2>6. vchPubKey'[u] = IF i \in DOMAIN P THEN P[i] ELSE Invalid
    BY <1>2, <2>2 DEF KeyTypeOK
  <2>7. Reserved' = Reserved \cup {i}
    BY <2>3, <2>5 DEF Reserved
  <2>8. KeyTypeOK'
    <3>1. IsFiniteSet(S \ {i})
      BY <2>1, FS_RemoveElement DEF Typed
    <3>2. nKeys \in Nat /\ nKeys' \in Nat
      BY <2>1, <2>2 DEF KeyTypeOK, Typed
    <3>3. vchPubKey' \in [User -> -1 .. nKeys']
      BY <1>2, <2>1, <2>2, <2>4, <3>2 DEF KeyTypeOK, Invalid
    <3>4. nIndex' \in [User -> {-1} \cup (Nat \ {0})]
      BY <1>2, <2>2, <2>4 DEF KeyTypeOK
    <3>5. used' \subseteq 1 .. nKeys'
      BY <2>1, <2>2, <2>3, <3>2 DEF KeyTypeOK
    <3>6. fDrained' \in BOOLEAN
      BY <2>2, <2>3 DEF KeyTypeOK, DrainedNext
    <3>7. \A v \in User : Holds(v)' => vchPubKey'[v] # vchDefaultKey
      BY <2>2, <2>4, <2>5, <2>6 DEF KeyTypeOK, Invalid, vchDefaultKey
    <3> QED
      BY <1>2, <2>1, <2>2, <2>3, <3>1, <3>3, <3>4, <3>5, <3>6, <3>7 DEF KeyTypeOK, Typed
  <2>9. UnusedInv'
    <3>1. \A j \in DOMAIN P : P[j] # Invalid
      BY <2>1 DEF Typed, Invalid
    <3>2. ASSUME NEW v \in User, NEW j \in DOMAIN P, Holds(v)', P[j] = vchPubKey'[v]
          PROVE  j = nIndex'[v]
      BY <2>1, <2>5, <2>6, <3>1, <3>2 DEF Unused
    <3> QED
      BY <1>2, <2>1, <2>3, <3>2 DEF UnusedInv, Unused
  <2>10. AccountedInv'
    <3> SUFFICES ASSUME ~fDrained' PROVE Accounted(setKeyPool, dbPool)'
      BY DEF AccountedInv
    <3>1. ~fDrained /\ S \ {i} # {} /\ Accounted(S, P)
      BY <2>1, <2>3, <2>7 DEF DrainedNext
    <3>2. S \subseteq Nat /\ Reserved \subseteq Nat
      BY <2>1, <3>1 DEF Typed, Accounted
    <3>3. PICK k \in S : k # i
      BY <3>1
    <3>4. i < k
      BY <2>1, <3>2, <3>3
    <3>8. ASSUME NEW r \in Reserved PROVE \E j \in S \ {i} : r < j
      <4>1. PICK j \in S : r < j
        BY <3>1 DEF Accounted
      <4>2. CASE j = i
        BY <3>2, <3>3, <3>4, <4>1, <4>2
      <4> QED
        BY <4>1, <4>2
    <3>5. \A v, w \in User : Holds(v)' /\ Holds(w)' /\ v # w => nIndex'[v] # nIndex'[w]
      <4>1. \A v \in User : Holds(v) => nIndex[v] # i
        BY <2>1, <3>1 DEF Accounted, Reserved
      <4> QED
        BY <2>3, <2>5, <3>1, <4>1 DEF Accounted
    <3>6. \A v \in User : Holds(v)' => vchPubKey'[v] = P[nIndex'[v]]
      <4>1. i \in DOMAIN P
        BY <2>1, <3>1 DEF Accounted
      <4> QED
        BY <2>5, <2>6, <3>1, <4>1 DEF Accounted
    <3>7. /\ DOMAIN P = (S \ {i}) \cup (Reserved \cup {i})
          /\ (S \ {i}) \cap (Reserved \cup {i}) = {}
      BY <2>1, <3>1 DEF Accounted
    <3> QED
      BY <1>2, <2>1, <2>7, <3>3, <3>4, <3>5, <3>6, <3>7, <3>8 DEF Accounted
  <2> QED
    BY <2>8, <2>9, <2>10 DEF KeyInv
<1> QED
  BY <1>1, <1>2 DEF GetReservedKey

LEMMA GetKeyFromPoolInv ==
  ASSUME KeyInv, GetKeyFromPool
  PROVE  KeyInv'
<1> SUFFICES ASSUME NEW nEnd \in Ends, NEW i \in setKeyPool \cup Added(nEnd),
                    Reserves(i, nEnd), NEW P, P = Written(nEnd, Added(nEnd)),
                    dbPool' = Without(P, i),
                    used' = IF i \in DOMAIN P THEN used \cup {P[i]} ELSE used,
                    fDrained' = DrainedNext,
                    UNCHANGED <<fCrypted, fLocked, nIndex, vchPubKey>>
             PROVE  KeyInv'
  BY DEF GetKeyFromPool, wallet, reservations
<1>1. PICK S : /\ i \in S /\ \A j \in S : i <= j
               /\ setKeyPool' = S \ {i}
               /\ Typed(S, P, nKeys')
               /\ nKeys <= nKeys'
               /\ Unused(P)
               /\ ~fDrained => Accounted(S, P)
  BY TakenFrom
<1>2. KeyTypeOK
  BY DEF KeyInv
<1>3. DOMAIN dbPool' = DOMAIN P \ {i} /\ \A j \in DOMAIN P \ {i} : dbPool'[j] = P[j]
  BY DEF Without
<1>4. Reserved' = Reserved /\ \A v \in User : Holds(v)' <=> Holds(v)
  BY DEF Reserved, Holds
<1>5. nKeys \in Nat /\ nKeys' \in Nat
  BY <1>1, <1>2 DEF KeyTypeOK, Typed
<1>6. KeyTypeOK'
  <2>1. IsFiniteSet(S \ {i}) /\ IsFiniteSet(DOMAIN P \ {i})
    BY <1>1, FS_RemoveElement DEF Typed
  <2>2. dbPool' \in [DOMAIN dbPool' -> 1 .. nKeys']
    BY <1>1, <1>3 DEF Typed, Without
  <2>3. used' \subseteq 1 .. nKeys' /\ vchPubKey' \in [User -> -1 .. nKeys']
    BY <1>1, <1>2, <1>5 DEF KeyTypeOK, Typed
  <2>4. fDrained' \in BOOLEAN
    BY <1>2 DEF KeyTypeOK, DrainedNext
  <2> QED
    BY <1>1, <1>2, <1>3, <1>4, <1>5, <2>1, <2>2, <2>3, <2>4 DEF KeyTypeOK, Typed
<1>7. UnusedInv'
  BY <1>1, <1>3, <1>4 DEF UnusedInv, Unused
<1>8. AccountedInv'
  <2> SUFFICES ASSUME ~fDrained' PROVE Accounted(setKeyPool, dbPool)'
    BY DEF AccountedInv
  <2>1. ~fDrained /\ Accounted(S, P) /\ (S \ {i} = {} => Reserved = {})
    BY <1>1, <1>4 DEF DrainedNext
  <2>2. S \subseteq Nat /\ Reserved \subseteq Nat
    BY <1>1, <2>1 DEF Typed, Accounted
  <2>3. ASSUME NEW r \in Reserved PROVE \E j \in S \ {i} : r < j
    <3>1. PICK j \in S : r < j
      BY <2>1 DEF Accounted
    <3>2. PICK k \in S : k # i
      BY <2>1
    <3>3. i < k
      BY <1>1, <2>2, <3>2
    <3>4. CASE j = i
      BY <2>2, <3>1, <3>2, <3>3, <3>4
    <3> QED
      BY <3>1, <3>4
  <2>4. \A v \in User : Holds(v) => nIndex[v] \in DOMAIN P \ {i}
    BY <1>1, <2>1 DEF Accounted, Reserved
  <2>5. DOMAIN P \ {i} = (S \ {i}) \cup Reserved /\ (S \ {i}) \cap Reserved = {}
    BY <1>1, <2>1 DEF Accounted
  <2> QED
    BY <1>1, <1>3, <1>4, <2>1, <2>3, <2>4, <2>5 DEF Accounted
<1> QED
  BY <1>6, <1>7, <1>8 DEF KeyInv

LEMMA TopUpKeyPoolFailsInv ==
  ASSUME KeyInv, TopUpKeyPoolFails
  PROVE  KeyInv'
<1> SUFFICES ASSUME NEW nEnd \in Ends, IsEnd(nEnd), NEW n \in Nat,
                    NEW added, added = nEnd + 1 .. nEnd + n,
                    setKeyPool' = setKeyPool \cup added,
                    dbPool' = Written(nEnd, added),
                    nKeys' = nKeys + n,
                    UNCHANGED <<fCrypted, fLocked, nIndex, vchPubKey, used, fDrained>>
             PROVE  KeyInv'
  <2>1. Shortage \in Int
    BY FS_CardinalityType, KeyPoolAssumption DEF Shortage, KeyInv, KeyTypeOK
  <2>2. \A n \in 0 .. Shortage - 1 : n \in Nat
    BY <2>1
  <2> QED
    BY <2>2 DEF TopUpKeyPoolFails, Ends, wallet, reservations
<1>1. /\ Typed(setKeyPool, dbPool, nKeys)'
      /\ Unused(dbPool')
      /\ ~fDrained => Accounted(setKeyPool', dbPool')
  BY ToppedUp DEF Typed
<1>2. Reserved' = Reserved /\ \A v \in User : Holds(v)' <=> Holds(v)
  BY DEF Reserved, Holds
<1>3. KeyTypeOK'
  <2>1. nKeys \in Nat /\ nKeys' \in Nat /\ nKeys <= nKeys'
    BY DEF KeyInv, KeyTypeOK
  <2>2. used' \subseteq 1 .. nKeys' /\ vchPubKey' \in [User -> -1 .. nKeys']
    BY <2>1 DEF KeyInv, KeyTypeOK
  <2> QED
    BY <1>1, <1>2, <2>2 DEF Typed, KeyInv, KeyTypeOK
<1>4. UnusedInv'
  BY <1>1, <1>2 DEF UnusedInv, Unused
<1>5. AccountedInv'
  BY <1>1, <1>2 DEF AccountedInv, Accounted
<1> QED
  BY <1>3, <1>4, <1>5 DEF KeyInv

----------------------------------------------------------------------------
(* The other actions *)

LEMMA KeepKeyInv ==
  ASSUME KeyInv, NEW u \in User, KeepKey(u)
  PROVE  KeyInv'
<1>1. KeyTypeOK
  BY DEF KeyInv
<1>2. /\ UNCHANGED <<setKeyPool, nKeys, fCrypted, fLocked, fDrained>>
      /\ nIndex' = [nIndex EXCEPT ![u] = -1]
      /\ vchPubKey' = [vchPubKey EXCEPT ![u] = Invalid]
  BY DEF KeepKey, Forget, wallet
<1>3. \A v \in User : /\ Holds(v)' <=> (v # u /\ Holds(v))
                      /\ v # u => nIndex'[v] = nIndex[v] /\ vchPubKey'[v] = vchPubKey[v]
  BY <1>1, <1>2 DEF Holds, KeyTypeOK
<1>4. CASE ~Holds(u)
  <2>1. UNCHANGED <<dbPool, used>>
    BY <1>4 DEF KeepKey
  <2>2. Reserved' = Reserved
    BY <1>3, <1>4 DEF Reserved
  <2>3. KeyTypeOK'
    BY <1>1, <1>2, <1>3, <2>1 DEF KeyTypeOK, Invalid
  <2>4. UnusedInv'
    BY <1>3, <2>1 DEF KeyInv, UnusedInv, Unused
  <2>5. AccountedInv'
    BY <1>2, <1>3, <2>1, <2>2 DEF KeyInv, AccountedInv, Accounted
  <2> QED
    BY <2>3, <2>4, <2>5 DEF KeyInv
<1>5. CASE Holds(u)
  <2>1. dbPool' = Without(dbPool, nIndex[u]) /\ used' = used \cup {vchPubKey[u]}
    BY <1>5 DEF KeepKey
  <2>2. /\ DOMAIN dbPool' = DOMAIN dbPool \ {nIndex[u]}
        /\ \A j \in DOMAIN dbPool' : dbPool'[j] = dbPool[j]
    BY <2>1 DEF Without
  <2>3. KeyTypeOK /\ vchPubKey[u] # Invalid
    BY <1>1 DEF KeepKey
  <2>4. KeyTypeOK'
    <3>1. IsFiniteSet(DOMAIN dbPool \ {nIndex[u]})
      BY <1>1, FS_RemoveElement DEF KeyTypeOK
    <3>2. dbPool' \in [DOMAIN dbPool' -> 1 .. nKeys']
      BY <1>1, <1>2, <2>1, <2>2 DEF KeyTypeOK, Without
    <3>3. nIndex' \in [User -> {-1} \cup (Nat \ {0})] /\ vchPubKey' \in [User -> -1 .. nKeys']
      BY <1>1, <1>2 DEF KeyTypeOK, Invalid
    <3>4. vchPubKey[u] \in 1 .. nKeys
      BY <1>1, <1>5, <2>3 DEF KeyTypeOK, Invalid, vchDefaultKey
    <3> QED
      BY <1>1, <1>2, <1>3, <2>1, <2>2, <3>1, <3>2, <3>3, <3>4 DEF KeyTypeOK
  <2>5. UnusedInv'
    BY <1>3, <1>5, <2>1, <2>2 DEF KeyInv, UnusedInv, Unused
  <2>6. AccountedInv'
    <3> SUFFICES ASSUME ~fDrained' PROVE Accounted(setKeyPool, dbPool)'
      BY DEF AccountedInv
    <3>1. Accounted(setKeyPool, dbPool)
      BY <1>2 DEF KeyInv, AccountedInv
    <3>2. Reserved' = Reserved \ {nIndex[u]}
      BY <1>3, <1>5, <3>1 DEF Reserved, Accounted
    <3>3. nIndex[u] \in Reserved
      BY <1>5 DEF Reserved
    <3>4. \A v \in User : Holds(v)' => nIndex'[v] \in DOMAIN dbPool'
      BY <1>3, <1>5, <2>2, <3>1 DEF Accounted, Reserved
    <3> QED
      BY <1>2, <1>3, <2>2, <3>1, <3>2, <3>3, <3>4 DEF Accounted
  <2> QED
    BY <2>4, <2>5, <2>6 DEF KeyInv
<1> QED
  BY <1>4, <1>5

LEMMA ReturnKeyInv ==
  ASSUME KeyInv, NEW u \in User, ReturnKey(u)
  PROVE  KeyInv'
<1>1. KeyTypeOK
  BY DEF KeyInv
<1>2. /\ UNCHANGED <<dbPool, nKeys, fCrypted, fLocked, used, fDrained>>
      /\ nIndex' = [nIndex EXCEPT ![u] = -1]
      /\ vchPubKey' = [vchPubKey EXCEPT ![u] = Invalid]
      /\ setKeyPool' = IF Holds(u) THEN setKeyPool \cup {nIndex[u]} ELSE setKeyPool
  BY DEF ReturnKey, Forget, wallet
<1>3. \A v \in User : /\ Holds(v)' <=> (v # u /\ Holds(v))
                      /\ v # u => nIndex'[v] = nIndex[v] /\ vchPubKey'[v] = vchPubKey[v]
  BY <1>1, <1>2 DEF Holds, KeyTypeOK
<1>4. KeyTypeOK'
  <2>1. IsFiniteSet(setKeyPool \cup {nIndex[u]})
    BY <1>1, FS_AddElement DEF KeyTypeOK
  <2>2. Holds(u) => nIndex[u] \in Nat \ {0}
    BY <1>1 DEF KeyTypeOK, Holds
  <2> QED
    BY <1>1, <1>2, <1>3, <2>1, <2>2 DEF KeyTypeOK, Invalid
<1>5. UnusedInv'
  BY <1>2, <1>3 DEF KeyInv, UnusedInv, Unused
<1>6. AccountedInv'
  <2> SUFFICES ASSUME ~fDrained' PROVE Accounted(setKeyPool, dbPool)'
    BY DEF AccountedInv
  <2>1. Accounted(setKeyPool, dbPool)
    BY <1>2 DEF KeyInv, AccountedInv
  <2>2. CASE Holds(u)
    <3>1. Reserved' = Reserved \ {nIndex[u]}
      BY <1>3, <2>1, <2>2 DEF Reserved, Accounted
    <3>2. nIndex[u] \in Reserved
      BY <2>2 DEF Reserved
    <3> QED
      BY <1>2, <1>3, <2>1, <2>2, <3>1, <3>2 DEF Accounted
  <2>3. CASE ~Holds(u)
    <3>1. Reserved' = Reserved
      BY <1>3, <2>3 DEF Reserved
    <3> QED
      BY <1>2, <1>3, <2>1, <2>3, <3>1 DEF Accounted
  <2> QED
    BY <2>2, <2>3
<1> QED
  BY <1>4, <1>5, <1>6 DEF KeyInv

LEMMA EncryptWalletInv ==
  ASSUME KeyInv, EncryptWallet
  PROVE  KeyInv'
<1> DEFINE new == 1 .. nKeypool
<1>1. KeyTypeOK
  BY DEF KeyInv
<1>2. /\ setKeyPool' = new
      /\ nKeys' = nKeys + nKeypool
      /\ fCrypted' = TRUE /\ fLocked' = TRUE
      /\ fDrained' = (fDrained \/ Reserved # {})
      /\ UNCHANGED <<nIndex, vchPubKey, used>>
  BY DEF EncryptWallet, reservations
<1>3. /\ DOMAIN dbPool' = (DOMAIN dbPool \ setKeyPool) \cup new
      /\ dbPool' = [i \in DOMAIN dbPool' |-> dbPool'[i]]
      /\ \A i \in new : dbPool'[i] = nKeys + i
      /\ \A i \in DOMAIN dbPool' \ new : i \in DOMAIN dbPool /\ dbPool'[i] = dbPool[i]
  BY DEF EncryptWallet
<1>4. nKeys \in Nat /\ nKeypool \in Nat
  BY <1>1, KeyPoolAssumption DEF KeyTypeOK
<1>5. \A i \in new : i \in Nat \ {0} /\ dbPool'[i] > nKeys /\ dbPool'[i] \in 1 .. nKeys'
  BY <1>2, <1>3, <1>4
<1>6. Reserved' = Reserved /\ \A v \in User : Holds(v)' <=> Holds(v)
  BY <1>2 DEF Reserved, Holds
<1>7. \A i \in DOMAIN dbPool : dbPool[i] \in 1 .. nKeys
  BY <1>1 DEF KeyTypeOK
<1>8. KeyTypeOK'
  <2>1. IsFiniteSet(new)
    BY <1>4, FS_Interval
  <2>2. IsFiniteSet(DOMAIN dbPool \ setKeyPool)
    BY <1>1, FS_Subset DEF KeyTypeOK
  <2>3. IsFiniteSet((DOMAIN dbPool \ setKeyPool) \cup new)
    BY <2>1, <2>2, FS_Union
  <2>4. \A i \in DOMAIN dbPool' : dbPool'[i] \in 1 .. nKeys'
    BY <1>2, <1>3, <1>4, <1>5, <1>7
  <2>5. dbPool' \in [DOMAIN dbPool' -> 1 .. nKeys']
    BY <1>3, <2>4
  <2>6. used' \subseteq 1 .. nKeys' /\ vchPubKey' \in [User -> -1 .. nKeys']
    BY <1>1, <1>2, <1>4 DEF KeyTypeOK
  <2>7. setKeyPool' \subseteq Nat \ {0} /\ DOMAIN dbPool' \subseteq Nat \ {0}
    BY <1>1, <1>2, <1>3, <1>5 DEF KeyTypeOK
  <2> QED
    BY <1>1, <1>2, <1>3, <1>4, <1>6, <2>1, <2>3, <2>5, <2>6, <2>7 DEF KeyTypeOK
<1>9. UnusedInv'
  <2>1. used \subseteq 1 .. nKeys /\ vchPubKey \in [User -> -1 .. nKeys]
    BY <1>1 DEF KeyTypeOK
  <2>2. \A i \in DOMAIN dbPool' : dbPool'[i] \notin used'
    BY <1>2, <1>3, <1>4, <1>5, <2>1 DEF KeyInv, UnusedInv, Unused
  <2>3. \A i, j \in DOMAIN dbPool' : dbPool'[i] = dbPool'[j] => i = j
    <3> SUFFICES ASSUME NEW i \in DOMAIN dbPool', NEW j \in DOMAIN dbPool', dbPool'[i] = dbPool'[j]
                 PROVE  i = j
      OBVIOUS
    <3>1. CASE i \in new /\ j \in new
      BY <1>3, <1>4, <3>1
    <3>2. CASE i \notin new /\ j \notin new
      BY <1>3, <3>2 DEF KeyInv, UnusedInv, Unused
    <3>3. ASSUME NEW k \in new, NEW l \in DOMAIN dbPool' \ new PROVE dbPool'[k] # dbPool'[l]
      BY <1>3, <1>4, <1>5, <1>7
    <3> QED
      BY <3>1, <3>2, <3>3
  <2>4. ASSUME NEW v \in User, NEW i \in DOMAIN dbPool', Holds(v)', dbPool'[i] = vchPubKey'[v]
        PROVE  i = nIndex'[v]
    <3>1. vchPubKey[v] \in -1 .. nKeys
      BY <2>1
    <3>2. i \notin new
      BY <1>2, <1>4, <1>5, <2>4, <3>1
    <3> QED
      BY <1>2, <1>3, <1>6, <2>4, <3>2 DEF KeyInv, UnusedInv, Unused
  <2> QED
    BY <2>2, <2>3, <2>4 DEF UnusedInv, Unused
<1>10. AccountedInv'
  <2> SUFFICES ASSUME ~fDrained' PROVE Accounted(setKeyPool, dbPool)'
    BY DEF AccountedInv
  <2>1. Reserved = {} /\ Accounted(setKeyPool, dbPool)
    BY <1>2 DEF KeyInv, AccountedInv
  <2>2. \A v \in User : ~Holds(v)
    BY <2>1 DEF Reserved
  <2> QED
    BY <1>2, <1>3, <1>6, <2>1, <2>2 DEF Accounted
<1> QED
  BY <1>8, <1>9, <1>10 DEF KeyInv

LEMMA RestartInv ==
  ASSUME KeyInv, Restart
  PROVE  KeyInv'
<1>1. \A v \in User : ~Holds(v)'
  BY DEF Restart, Holds
<1>2. Reserved' = {}
  BY <1>1 DEF Reserved
<1>3. KeyTypeOK'
  <2>1. nIndex' \in [User -> {-1} \cup (Nat \ {0})] /\ vchPubKey' \in [User -> -1 .. nKeys']
    BY DEF KeyInv, KeyTypeOK, Restart, Invalid
  <2>2. UNCHANGED <<dbPool, nKeys, fCrypted, used>> /\ setKeyPool' = DOMAIN dbPool
    BY DEF Restart
  <2>3. fLocked' = fCrypted /\ fCrypted' = fCrypted /\ fDrained' = FALSE
    BY DEF Restart
  <2>4. KeyTypeOK
    BY DEF KeyInv
  <2>5. fLocked' \in BOOLEAN /\ fCrypted' \in BOOLEAN /\ (fLocked' => fCrypted')
    BY <2>3, <2>4 DEF KeyTypeOK
  <2> QED
    BY <1>1, <2>1, <2>2, <2>3, <2>4, <2>5 DEF KeyTypeOK
<1>4. UnusedInv'
  BY <1>1 DEF KeyInv, UnusedInv, Unused, Restart
<1>5. AccountedInv'
  BY <1>1, <1>2 DEF AccountedInv, Accounted, Restart
<1> QED
  BY <1>3, <1>4, <1>5 DEF KeyInv

----------------------------------------------------------------------------
(* Theorems *)

LEMMA KeyInit == Init => KeyInv
<1> SUFFICES ASSUME Init PROVE KeyInv
  OBVIOUS
<1>1. \A v \in User : ~Holds(v)
  BY DEF Init, Holds
<1>2. Reserved = {}
  BY <1>1 DEF Reserved
<1>3. KeyTypeOK
  <2>1. IsFiniteSet(setKeyPool) /\ DOMAIN dbPool = {} /\ IsFiniteSet(DOMAIN dbPool)
    BY FS_EmptySet DEF Init
  <2>2. dbPool \in [DOMAIN dbPool -> 1 .. nKeys]
    BY <2>1 DEF Init
  <2>3. nIndex \in [User -> {-1} \cup (Nat \ {0})] /\ vchPubKey \in [User -> -1 .. nKeys]
    BY DEF Init, Invalid
  <2>4. used \subseteq 1 .. nKeys /\ nKeys \in Nat /\ setKeyPool = {}
    BY DEF Init
  <2>5. fCrypted = FALSE /\ fLocked = FALSE /\ fDrained = FALSE
    BY DEF Init
  <2> QED
    BY <1>1, <2>1, <2>2, <2>3, <2>4, <2>5 DEF KeyTypeOK
<1> QED
  BY <1>1, <1>2, <1>3 DEF KeyInv, UnusedInv, Unused, AccountedInv, Accounted, Init

LEMMA KeyStep == KeyInv /\ [Next]_vars => KeyInv'
<1> SUFFICES ASSUME KeyInv, [Next]_vars PROVE KeyInv'
  OBVIOUS
<1>1. ASSUME NEW u \in User, GetReservedKey(u) PROVE KeyInv'
  BY <1>1, GetReservedKeyInv
<1>2. ASSUME NEW u \in User, KeepKey(u) PROVE KeyInv'
  BY <1>2, KeepKeyInv
<1>3. ASSUME NEW u \in User, ReturnKey(u) PROVE KeyInv'
  BY <1>3, ReturnKeyInv
<1>4. CASE GetKeyFromPool
  BY <1>4, GetKeyFromPoolInv
<1>5. CASE TopUpKeyPoolFails
  BY <1>5, TopUpKeyPoolFailsInv
<1>6. CASE EncryptWallet
  BY <1>6, EncryptWalletInv
<1>7. CASE Lock \/ Unlock \/ UNCHANGED vars
  <2>1. UNCHANGED <<setKeyPool, dbPool, nKeys, fCrypted, nIndex, vchPubKey, used, fDrained>>
    BY <1>7 DEF Lock, Unlock, vars, reservations
  <2>6. fLocked' \in BOOLEAN /\ (fLocked' => fCrypted')
    <3>1. CASE Lock
      BY <3>1 DEF Lock
    <3>3. CASE Unlock
      BY <3>3 DEF Unlock
    <3>2. CASE UNCHANGED vars
      BY <3>2 DEF vars, KeyInv, KeyTypeOK
    <3> QED
      BY <1>7, <3>1, <3>2, <3>3
  <2>2. Reserved' = Reserved /\ \A v \in User : Holds(v)' <=> Holds(v)
    BY <2>1 DEF Reserved, Holds
  <2>3. KeyTypeOK'
    BY <2>1, <2>2, <2>6 DEF KeyInv, KeyTypeOK
  <2>4. UnusedInv'
    BY <2>1, <2>2 DEF KeyInv, UnusedInv, Unused
  <2>5. AccountedInv'
    BY <2>1, <2>2 DEF KeyInv, AccountedInv, Accounted
  <2> QED
    BY <2>3, <2>4, <2>5 DEF KeyInv
<1>8. CASE Restart
  BY <1>8, RestartInv
<1> QED
  BY <1>1, <1>2, <1>3, <1>4, <1>5, <1>6, <1>7, <1>8 DEF Next

LEMMA KeyInvariant == Spec => []KeyInv
<1> QED
  BY KeyInit, KeyStep, PTL DEF Spec

\* Indices and keys stay in range: no index before the first, no key that was
\* never generated, whatever the order of the threads.
THEOREM KeyTypeCorrect == Spec => []KeyTypeOK
<1>1. KeyInv => KeyTypeOK
  BY DEF KeyInv
<1> QED
  BY <1>1, KeyInvariant, PTL

\* A key that was taken for good has left the wallet file's pool.
THEOREM UsedKeysLeavePool == Spec => []PoolKeysUnused
<1>1. KeyInv => PoolKeysUnused
  BY DEF KeyInv, UnusedInv, Unused, PoolKeysUnused
<1> QED
  BY <1>1, KeyInvariant, PTL

\* Until the pool is drained every key is in the pool, or reserved by one
\* thread that has it to itself.
THEOREM KeysStayAccounted == Spec => []KeysAccounted
<1>1. KeyInv => KeysAccounted
  <2> SUFFICES ASSUME KeyInv, ~fDrained PROVE KeysAccounted
    BY DEF KeysAccounted
  <2>1. Accounted(setKeyPool, dbPool)
    BY DEF KeyInv, AccountedInv
  <2>2. \A u \in User : Holds(u) => nIndex[u] \in DOMAIN dbPool
    BY <2>1 DEF Accounted, Reserved
  <2>3. \A u \in User : Holds(u) => vchPubKey[u] \notin used
    BY <2>1, <2>2 DEF Accounted, KeyInv, UnusedInv, Unused
  <2> QED
    BY <2>1, <2>3 DEF Accounted, KeysAccounted
<1> QED
  BY <1>1, KeyInvariant, PTL

\* A reservation from a wallet that is not locked leaves an index in the pool:
\* either two were there, or the added ones end beyond the one taken.
LEMMA PoolOutlasts ==
  ASSUME KeyTypeOK, nKeypool > 0, ~fLocked,
         NEW nEnd \in Ends, NEW i \in setKeyPool \cup Added(nEnd), Reserves(i, nEnd)
  PROVE  setKeyPool' # {}
<1>1. Cardinality(setKeyPool) \in Nat /\ nKeypool \in Nat /\ nEnd \in Nat
  BY FS_CardinalityType, KeyPoolAssumption DEF KeyTypeOK, Ends
<1>2. PICK n \in Nat : /\ Added(nEnd) = nEnd + 1 .. nEnd + n
                       /\ Shortage > 0 => n = Shortage
  BY AddedIsInterval
<1>3. setKeyPool' = (setKeyPool \cup Added(nEnd)) \ {i} /\ IsOldest(i, setKeyPool \cup Added(nEnd))
  BY DEF Reserves
<1>4. CASE Cardinality(setKeyPool) > 1
  <2>1. Cardinality(setKeyPool \ {i}) > 0
    <3>1. IsFiniteSet(setKeyPool)
      BY DEF KeyTypeOK
    <3>2. \/ Cardinality(setKeyPool \ {i}) = Cardinality(setKeyPool) - 1
          \/ Cardinality(setKeyPool \ {i}) = Cardinality(setKeyPool)
      BY <3>1, FS_RemoveElement
    <3> QED
      BY <1>1, <1>4, <3>2
  <2>2. setKeyPool \ {i} # {}
    BY <2>1, FS_EmptySet
  <2> QED
    BY <1>3, <2>2
<1>5. CASE Cardinality(setKeyPool) = 1
  <2>1. n >= 1 /\ nEnd + n \in Added(nEnd)
    BY <1>1, <1>2, <1>5 DEF Shortage
  <2>2. PICK j \in setKeyPool : j <= nEnd
    BY <1>5, FS_EmptySet DEF Reserves, IsEnd
  <2>3. i <= j /\ j \in Nat /\ i \in Nat
    BY <1>1, <1>2, <1>3 DEF IsOldest, KeyTypeOK
  <2>4. nEnd + n # i
    BY <1>1, <2>1, <2>2, <2>3
  <2> QED
    BY <1>3, <2>1, <2>4
<1>6. CASE Cardinality(setKeyPool) = 0
  <2>1. n >= 2 /\ nEnd + 1 \in Added(nEnd) /\ nEnd + 2 \in Added(nEnd)
    BY <1>1, <1>2, <1>6 DEF Shortage
  <2> QED
    BY <1>1, <1>3, <2>1
<1> QED
  BY <1>1, <1>4, <1>5, <1>6

\* With a target of one key or more, an unencrypted wallet is never drained,
\* however many threads hold reservations: KeysStayAccounted then says that
\* they never share a key.
THEOREM PlainPoolKeepsKeys == Spec => []PlainPoolNotDrained
<1>1. Init => PlainPoolNotDrained
  BY DEF Init, PlainPoolNotDrained
<1>2. KeyInv /\ PlainPoolNotDrained /\ [Next]_vars => PlainPoolNotDrained'
  <2> SUFFICES ASSUME KeyInv, PlainPoolNotDrained, [Next]_vars, ~fCrypted', nKeypool > 0
               PROVE  ~fDrained'
    BY DEF PlainPoolNotDrained
  <2>1. KeyTypeOK
    BY DEF KeyInv
  <2>2. CASE EncryptWallet \/ Lock \/ Unlock
    BY <2>2 DEF EncryptWallet, Lock, Unlock
  <2>3. CASE Restart
    BY <2>3 DEF Restart
  <2>4. CASE (\E u \in User : KeepKey(u) \/ ReturnKey(u)) \/ TopUpKeyPoolFails \/ UNCHANGED vars
    <3>1. fDrained' = fDrained /\ fCrypted' = fCrypted
      BY <2>4 DEF KeepKey, ReturnKey, TopUpKeyPoolFails, vars, wallet
    <3> QED
      BY <3>1 DEF PlainPoolNotDrained
  <2>5. CASE (\E u \in User : GetReservedKey(u)) \/ GetKeyFromPool
    <3>1. fCrypted' = fCrypted /\ fDrained' = DrainedNext
      BY <2>5 DEF GetReservedKey, GetKeyFromPool, wallet
    <3>2. ~fDrained /\ ~fLocked
      BY <2>1, <3>1 DEF PlainPoolNotDrained, KeyTypeOK
    <3>3. ~NoKey
      BY <3>2 DEF NoKey
    <3>4. \E nEnd \in Ends : \E i \in setKeyPool \cup Added(nEnd) : Reserves(i, nEnd)
      BY <2>5, <3>3 DEF GetReservedKey, GetKeyFromPool
    <3>5. setKeyPool' # {}
      BY <2>1, <3>2, <3>4, PoolOutlasts
    <3> QED
      BY <3>1, <3>2, <3>5 DEF DrainedNext
  <2> QED
    BY <2>2, <2>3, <2>4, <2>5 DEF Next
<1> QED
  BY <1>1, <1>2, KeyInvariant, PTL DEF Spec
----------------------------------------------------------------------------
(* The value of coins.                                                     *)

\* A set of coins.
IsCoins(coins) == IsFiniteSet(coins) /\ \A c \in coins : c.value \in Nat

\* The value of coins, whichever of them is counted first.
LEMMA ValueIs ==
  ASSUME NEW S, IsCoins(S)
  PROVE  /\ Value({}) = 0
         /\ \A s \in SUBSET S : Value(s) \in Nat
         /\ \A s \in SUBSET S : \A x \in s : Value(s) = x.value + Value(s \ {x})
         /\ \A s \in SUBSET S : \A t \in SUBSET s : Value(t) <= Value(s)
<1> DEFINE val == [c \in S |-> c.value]
<1>1. IsFiniteSet(S) /\ val \in [S -> Nat]
  BY DEF IsCoins
<1>2. PICK f \in [SUBSET S -> Nat] : IsSum(f, S, val)
  <2> HIDE DEF val
  <2> QED
    BY <1>1, SumExists
<1>3. ASSUME NEW T \in SUBSET S PROVE Value(T) = f[T]
  <2> DEFINE g == [s \in SUBSET T |-> f[s]]
             Step(h, s) == IF s = {} THEN 0 ELSE (CHOOSE x \in s : TRUE).value + h[s \ {CHOOSE x \in s : TRUE}]
             iter == CHOOSE h : h = [s \in SUBSET T |-> Step(h, s)]
  <2>1. ASSUME NEW s \in SUBSET T PROVE g[s] = Step(g, s)
    <3>1. s \in SUBSET S /\ g[s] = f[s]
      OBVIOUS
    <3>2. f[s] = IF s = {} THEN 0 ELSE val[OneOf(s)] + f[s \ {OneOf(s)}]
      BY <1>2, <3>1 DEF IsSum
    <3>3. CASE s # {}
      <4>1. OneOf(s) \in s /\ s \ {OneOf(s)} \in SUBSET T
        BY <3>3 DEF OneOf
      <4>2. val[OneOf(s)] = OneOf(s).value /\ g[s \ {OneOf(s)}] = f[s \ {OneOf(s)}]
        BY <4>1
      <4> HIDE DEF val, g
      <4> QED
        BY <3>1, <3>2, <3>3, <4>2 DEF OneOf
    <3>4. CASE s = {}
      BY <3>1, <3>2, <3>4
    <3> QED
      BY <3>3, <3>4
  <2>2. g = [s \in SUBSET T |-> Step(g, s)]
    <3> HIDE DEF Step
    <3> QED
      BY <2>1
  <2>3. iter = [s \in SUBSET T |-> Step(iter, s)]
    <3> HIDE DEF Step, g
    <3> QED
      BY <2>2
  <2>4. \A s \in SUBSET T : iter[s] = Step(iter, s)
    <3> HIDE DEF Step, iter
    <3> QED
      BY <2>3
  <2>5. IsSum(iter, T, val)
    <3> SUFFICES ASSUME NEW s \in SUBSET T
                 PROVE  iter[s] = IF s = {} THEN 0 ELSE val[OneOf(s)] + iter[s \ {OneOf(s)}]
      BY DEF IsSum
    <3>1. s # {} => OneOf(s) \in S /\ val[OneOf(s)] = OneOf(s).value
      BY DEF OneOf
    <3> HIDE DEF iter, val
    <3> QED
      BY <2>4, <3>1 DEF OneOf
  <2>6. f[T] = iter[T]
    <3> HIDE DEF iter, val
    <3> QED
      BY <1>1, <1>2, <2>5, SumAgrees
  <2>7. Value(T) = iter[T]
    BY DEF Value, MapThenSumSet, MapThenFoldSet
  <2> HIDE DEF iter
  <2> QED
    BY <2>6, <2>7
<1>4. f[{}] = 0
  BY <1>2 DEF IsSum
<1>9. AddsUp(f, S, val)
  <2> HIDE DEF val
  <2> QED
    BY <1>1, <1>2, SumStep
<1>5. \A s \in SUBSET S : \A t \in SUBSET s : f[t] <= f[s]
  <2> HIDE DEF val
  <2> QED
    BY <1>1, <1>2, SumGrows
<1>6. ASSUME NEW s \in SUBSET S, NEW x \in s PROVE Value(s) = x.value + Value(s \ {x})
  <2>1. Value(s) = f[s] /\ Value(s \ {x}) = f[s \ {x}]
    BY <1>3
  <2>2. f[s] = val[x] + f[s \ {x}] /\ val[x] = x.value
    BY <1>9 DEF AddsUp
  <2> QED
    BY <2>1, <2>2
<1>7. Value({}) = 0
  BY <1>3, <1>4
<1>8. \A s \in SUBSET S : \A t \in SUBSET s : Value(t) <= Value(s)
  BY <1>3, <1>5
<1> QED
  BY <1>3, <1>6, <1>7, <1>8

----------------------------------------------------------------------------
(* Records of the wallet, whatever their amounts, blocks and copies are: A   *)
(* has all of them, K the hashes.                                            *)

Wtxs(A) == [block: A, spent: SUBSET A, prev: A, nDebit: A, nAvailableCredit: A]
Wallets(K, A) == UNION {[D -> Wtxs(A)] : D \in SUBSET K}

LEMMA WalletsAre ==
  ASSUME NEW K, NEW A, NEW w
  PROVE  w \in Wallets(K, A) <=> DOMAIN w \subseteq K /\ w \in [DOMAIN w -> Wtxs(A)]
  BY DEF Wallets

LEMMA RecordsChange ==
  ASSUME NEW A, -1 \in A, NEW r \in Wtxs(A)
  PROVE  /\ MarkDirty(r) \in Wtxs(A) /\ MarkDirty(r).spent = r.spent /\ MarkDirty(r).block = r.block
         /\ Record(r) = MarkDirty(r)
         /\ \A n \in A : /\ MarkSpent(r, n) \in Wtxs(A) /\ MarkSpent(r, n).spent = r.spent \cup {n}
                         /\ MarkSpent(r, n).block = r.block
         /\ \A block, prev \in A : WalletTx(block, prev) \in Wtxs(A)
<1>1. MarkDirty(r) \in Wtxs(A) /\ MarkDirty(r).spent = r.spent /\ MarkDirty(r).block = r.block
  BY DEF MarkDirty, Wtxs
<1>2. Record(r) = MarkDirty(r)
  BY DEF Record
<1>3. ASSUME NEW n \in A
      PROVE  /\ MarkSpent(r, n) \in Wtxs(A) /\ MarkSpent(r, n).spent = r.spent \cup {n}
             /\ MarkSpent(r, n).block = r.block
  <2>1. CASE n \in r.spent
    <3>1. MarkSpent(r, n) = r
      BY <2>1 DEF MarkSpent
    <3>2. r.spent = r.spent \cup {n}
      BY <2>1 DEF Wtxs
    <3> QED
      BY <3>1, <3>2
  <2>2. CASE n \notin r.spent
    <3>1. MarkSpent(r, n) = [r EXCEPT !.spent = @ \cup {n}, !.nAvailableCredit = -1]
      BY <2>2 DEF MarkSpent
    <3> QED
      BY <3>1 DEF Wtxs
  <2> QED
    BY <2>1, <2>2
<1>4. ASSUME NEW block \in A, NEW prev \in A PROVE WalletTx(block, prev) \in Wtxs(A)
  BY DEF WalletTx, Wtxs
<1> QED
  BY <1>1, <1>2, <1>3, <1>4

\* Hashes a wallet has, coins it has as spent, and the blocks of transactions that
\* are in those blocks as far as it has them: a set of pairs.
Marked(w, coins) == \A p \in coins : p[1] \in DOMAIN w /\ p[2] \in w[p[1]].spent
Placed(w, at) == \A p \in at : p[1] \in DOMAIN w => w[p[1]].block = p[2]
Has(w, hashes, coins, at) == hashes \subseteq DOMAIN w /\ Marked(w, coins) /\ Placed(w, at)
NoPlaces == {}

\* What becomes of a wallet that loses nothing, when these transactions may be put
\* into these blocks, pairs again.
Grows(w, v, T) ==
  /\ DOMAIN w \subseteq DOMAIN v
  /\ \A u \in DOMAIN w : w[u].spent \subseteq v[u].spent
  /\ \A u \in DOMAIN v : (u \in DOMAIN w /\ v[u].block = w[u].block) \/ <<u, v[u].block>> \in T

\* The pairs are about the same blocks.
Settles(T, at) == \A q \in T : \A p \in at : p[1] = q[1] => p[2] = q[2]

LEMMA GrowsOn ==
  ASSUME NEW w, NEW v, NEW x, NEW T, Grows(w, v, T), Grows(v, x, T)
  PROVE  Grows(w, x, T)
<1>1. DOMAIN w \subseteq DOMAIN x /\ \A u \in DOMAIN w : w[u].spent \subseteq x[u].spent
  BY DEF Grows
<1>2. ASSUME NEW u \in DOMAIN x
      PROVE  (u \in DOMAIN w /\ x[u].block = w[u].block) \/ <<u, x[u].block>> \in T
  <2>1. CASE <<u, x[u].block>> \in T
    BY <2>1
  <2>2. CASE u \in DOMAIN v /\ x[u].block = v[u].block
    <3>1. (u \in DOMAIN w /\ v[u].block = w[u].block) \/ <<u, v[u].block>> \in T
      BY <2>2 DEF Grows
    <3> QED
      BY <2>2, <3>1
  <2> QED
    BY <2>1, <2>2 DEF Grows
<1> QED
  BY <1>1, <1>2 DEF Grows

LEMMA GrownHas ==
  ASSUME NEW w, NEW v, NEW T, Grows(w, v, T),
         NEW hashes, NEW coins, NEW at, Has(w, hashes, coins, at), Settles(T, at)
  PROVE  Has(v, hashes, coins, at)
<1>1. hashes \subseteq DOMAIN v /\ Marked(v, coins)
  BY DEF Has, Marked, Grows
<1>2. ASSUME NEW p \in at, p[1] \in DOMAIN v PROVE v[p[1]].block = p[2]
  <2> DEFINE u == p[1]
             q == <<u, v[u].block>>
  <2>1. CASE u \in DOMAIN w /\ v[u].block = w[u].block
    BY <2>1 DEF Has, Placed
  <2>2. CASE q \in T
    <3>1. q[1] = u /\ q[2] = v[u].block
      OBVIOUS
    <3> HIDE DEF q
    <3> QED
      BY <2>2, <3>1 DEF Settles
  <2> QED
    BY <1>2, <2>1, <2>2 DEF Grows
<1>3. Placed(v, at)
  BY <1>2 DEF Placed
<1> QED
  BY <1>1, <1>3 DEF Has

\* A wallet with one record put into it, new or in place of the old one.
IsPut(v, w, t, r) == DOMAIN v = DOMAIN w \cup {t} /\ v[t] = r /\ \A u \in DOMAIN w \ {t} : v[u] = w[u]

LEMMA RecordIsPut ==
  ASSUME NEW K, NEW A, NEW w \in Wallets(K, A), NEW t \in K, NEW r \in Wtxs(A)
  PROVE  Put(w, t, r) \in Wallets(K, A) /\ IsPut(Put(w, t, r), w, t, r)
<1> DEFINE v == Put(w, t, r)
<1>1. DOMAIN w \subseteq K /\ w \in [DOMAIN w -> Wtxs(A)]
  BY WalletsAre
<1>2. v = [x \in DOMAIN w \cup {t} |-> IF x = t THEN r ELSE w[x]]
  BY DEF Put
<1>3. DOMAIN v = DOMAIN w \cup {t} /\ v[t] = r /\ \A u \in DOMAIN w \ {t} : v[u] = w[u]
  BY <1>2
<1>4. v \in [DOMAIN v -> Wtxs(A)] /\ DOMAIN v \subseteq K
  BY <1>1, <1>2
<1>5. v \in Wallets(K, A)
  <2> HIDE DEF v
  <2> QED
    BY <1>4, WalletsAre
<1> QED
  BY <1>3, <1>5 DEF IsPut

LEMMA RecordIsChanged ==
  ASSUME NEW K, NEW A, NEW w \in Wallets(K, A), NEW t \in DOMAIN w, NEW r \in Wtxs(A)
  PROVE  [w EXCEPT ![t] = r] \in Wallets(K, A) /\ IsPut([w EXCEPT ![t] = r], w, t, r)
<1> DEFINE v == [w EXCEPT ![t] = r]
<1>1. DOMAIN w \subseteq K /\ w \in [DOMAIN w -> Wtxs(A)]
  BY WalletsAre
<1>2. v \in [DOMAIN w -> Wtxs(A)] /\ DOMAIN v = DOMAIN w
  BY <1>1
<1>3. v \in Wallets(K, A)
  <2> HIDE DEF v
  <2> QED
    BY <1>1, <1>2, WalletsAre
<1> QED
  BY <1>1, <1>2, <1>3 DEF IsPut

\* Nothing is lost if the record has no fewer outputs spent.
LEMMA PutGrows ==
  ASSUME NEW w, NEW v, NEW t, NEW r, IsPut(v, w, t, r), NEW T,
         t \in DOMAIN w => w[t].spent \subseteq r.spent,
         (t \in DOMAIN w /\ r.block = w[t].block) \/ <<t, r.block>> \in T
  PROVE  Grows(w, v, T)
<1>1. DOMAIN v = DOMAIN w \cup {t} /\ v[t] = r /\ \A u \in DOMAIN w \ {t} : v[u] = w[u]
  BY DEF IsPut
<1>2. ASSUME NEW u \in DOMAIN v
      PROVE  /\ (u \in DOMAIN w /\ v[u].block = w[u].block) \/ <<u, v[u].block>> \in T
             /\ u \in DOMAIN w => w[u].spent \subseteq v[u].spent
  <2>1. CASE u = t
    BY <1>1, <2>1
  <2>2. CASE u # t
    BY <1>1, <2>2
  <2> QED
    BY <2>1, <2>2
<1> QED
  BY <1>1, <1>2 DEF Grows

\* Two wallets that know the same but for the amounts.
Same(w, x) ==
  DOMAIN w = DOMAIN x /\ \A t \in DOMAIN w : w[t].spent = x[t].spent /\ w[t].block = x[t].block

LEMMA PutSame ==
  ASSUME NEW w, NEW x, Same(w, x), NEW t, NEW r, NEW q, r.spent = q.spent, r.block = q.block,
         NEW v, IsPut(v, w, t, r), NEW y, IsPut(y, x, t, q)
  PROVE  Same(v, y)
  BY DEF Same, IsPut

\* An update on its way: the wallet in memory and every state of the file it
\* goes through have these hashes, coins and places, X the best blocks it may name.
Files(K, A, X) == [txs: Wallets(K, A), best: X]
Updates(K, A, X, hashes, coins, at) ==
  {m \in [w: Wallets(K, A), files: Seq(Files(K, A, X)), refused: {{}}, faults: {{}}] :
     /\ m.files # <<>> /\ Has(m.w, hashes, coins, at)
     /\ \A i \in DOMAIN m.files : Has(m.files[i].txs, hashes, coins, at)}

\* One that may end here: what is in memory is in the file.
Stored(K, A, X, hashes, coins, at) ==
  {m \in Updates(K, A, X, hashes, coins, at) : Same(m.w, Last(m.files).txs)}

\* Coins that are spent in memory and in the file as it is now.
SpentInBoth(m, coins) == Marked(m.w, coins) /\ Marked(Last(m.files).txs, coins)

LEMMA LastIs ==
  ASSUME NEW S, NEW s \in Seq(S)
  PROVE  /\ s # <<>> => Len(s) \in DOMAIN s /\ Last(s) = s[Len(s)] /\ Last(s) \in S
         /\ \A x \in S : /\ Append(s, x) \in Seq(S) /\ Append(s, x) # <<>> /\ Last(Append(s, x)) = x
                         /\ \A i \in DOMAIN Append(s, x) : (i \in DOMAIN s /\ Append(s, x)[i] = s[i]) \/ Append(s, x)[i] = x
<1>1. s # <<>> => Len(s) \in DOMAIN s /\ Last(s) = s[Len(s)] /\ Last(s) \in S
  BY DEF Last
<1>2. ASSUME NEW x \in S
      PROVE  /\ Append(s, x) \in Seq(S) /\ Append(s, x) # <<>> /\ Last(Append(s, x)) = x
             /\ \A i \in DOMAIN Append(s, x) : (i \in DOMAIN s /\ Append(s, x)[i] = s[i]) \/ Append(s, x)[i] = x
  BY DEF Last
<1> QED
  BY <1>1, <1>2

\* A record is written.
IsStored(n, m, t) ==
  /\ n.w = m.w /\ IsPut(Last(n.files).txs, Last(m.files).txs, t, Record(m.w[t]))
  /\ \A others : SpentInBoth(m, others) => SpentInBoth(n, others)
  /\ \A p : p[1] = t /\ p[2] \in m.w[t].spent => p[2] \in Last(n.files).txs[t].spent

LEMMA WritesKeep ==
  ASSUME NEW K, NEW A, NEW X, NEW hashes, NEW coins, NEW at, -1 \in A,
         NEW m \in Updates(K, A, X, hashes, coins, at), NEW t \in DOMAIN m.w
  PROVE  WriteToDisk(m, t) \in Updates(K, A, X, hashes, coins, at) /\ IsStored(WriteToDisk(m, t), m, t)
<1> DEFINE f == Last(m.files)
           r == m.w[t]
           g == FileWith(f, t, r)
           n == WriteToDisk(m, t)
<1>1. /\ m \in [w: Wallets(K, A), files: Seq(Files(K, A, X)), refused: {{}}, faults: {{}}] /\ m.files # <<>>
      /\ Has(m.w, hashes, coins, at) /\ \A i \in DOMAIN m.files : Has(m.files[i].txs, hashes, coins, at)
  BY DEF Updates
<1>2. m.w \in Wallets(K, A) /\ m.files \in Seq(Files(K, A, X))
  BY <1>1
<1>3. f \in Files(K, A, X) /\ f.txs \in Wallets(K, A) /\ f.best \in X /\ Has(f.txs, hashes, coins, at)
  <2>1. f \in Files(K, A, X) /\ Len(m.files) \in DOMAIN m.files /\ f = m.files[Len(m.files)]
    BY <1>1, <1>2, LastIs
  <2>2. Has(f.txs, hashes, coins, at)
    BY <1>1, <2>1
  <2> QED
    BY <2>1, <2>2 DEF Files
<1>4. r \in Wtxs(A) /\ t \in K
  BY <1>2, WalletsAre
<1>5. Record(r) \in Wtxs(A) /\ Record(r).spent = r.spent /\ Record(r).block = r.block
  BY <1>4, RecordsChange
<1> DEFINE txs == Put(f.txs, t, Record(r))
<1>6. /\ txs \in Wallets(K, A) /\ DOMAIN txs = DOMAIN f.txs \cup {t} /\ txs[t] = Record(r)
      /\ \A u \in DOMAIN f.txs \ {t} : txs[u] = f.txs[u]
      /\ IsPut(txs, f.txs, t, Record(r))
  <2> HIDE DEF f, r
  <2>1. txs \in Wallets(K, A) /\ IsPut(txs, f.txs, t, Record(r))
    BY <1>3, <1>4, <1>5, RecordIsPut
  <2> HIDE DEF txs
  <2> QED
    BY <2>1 DEF IsPut
<1>7. g \in Files(K, A, X) /\ g.txs = txs
  <2> HIDE DEF f, r
  <2>1. f \in [txs: Wallets(K, A), best: X]
    BY <1>3 DEF Files
  <2>2. g = [f EXCEPT !.txs = txs]
    BY <2>1 DEF FileWith
  <2> HIDE DEF g, txs
  <2> QED
    BY <1>6, <2>1, <2>2 DEF Files
<1>8. n = [m EXCEPT !.files = Append(m.files, g)]
  BY <1>1 DEF WriteToDisk
<1>9. /\ n.w = m.w /\ n.files = Append(m.files, g)
      /\ n \in [w: Wallets(K, A), files: Seq(Files(K, A, X)), refused: {{}}, faults: {{}}]
  <2> HIDE DEF n, g
  <2>1. Append(m.files, g) \in Seq(Files(K, A, X))
    BY <1>2, <1>7, LastIs
  <2> QED
    BY <1>1, <1>8, <2>1
<1>10. n.files # <<>> /\ Last(n.files) = g
       /\ \A i \in DOMAIN n.files : (i \in DOMAIN m.files /\ n.files[i] = m.files[i]) \/ n.files[i] = g
  <2> HIDE DEF n, g
  <2> QED
    BY <1>2, <1>7, <1>9, LastIs
\* Coins that were there before.
<1>11. ASSUME NEW some, Marked(m.w, some), Marked(f.txs, some) PROVE Marked(txs, some)
  <2> HIDE DEF txs, f
  <2> SUFFICES ASSUME NEW p \in some PROVE p[1] \in DOMAIN txs /\ p[2] \in txs[p[1]].spent
    BY DEF Marked
  <2>1. /\ p[1] \in DOMAIN m.w /\ p[2] \in m.w[p[1]].spent
        /\ p[1] \in DOMAIN f.txs /\ p[2] \in f.txs[p[1]].spent
    BY <1>11 DEF Marked
  <2>2. CASE p[1] = t
    BY <1>5, <1>6, <2>1, <2>2
  <2>3. CASE p[1] # t
    BY <1>6, <2>1, <2>3
  <2> QED
    BY <2>2, <2>3
<1>12. Has(txs, hashes, coins, at)
  <2>1. Placed(txs, at)
    <3> HIDE DEF txs, f, r
    <3> SUFFICES ASSUME NEW p \in at, p[1] \in DOMAIN txs PROVE txs[p[1]].block = p[2]
      BY DEF Placed
    <3>1. CASE p[1] = t
      BY <1>1, <1>5, <1>6, <3>1 DEF Has, Placed, r
    <3>2. CASE p[1] # t
      BY <1>3, <1>6, <3>2 DEF Has, Placed
    <3> QED
      BY <3>1, <3>2
  <2> QED
    BY <1>1, <1>3, <1>6, <1>11, <2>1 DEF Has
<1>13. n \in Updates(K, A, X, hashes, coins, at)
  <2> HIDE DEF n, g, txs
  <2>1. \A i \in DOMAIN n.files : Has(n.files[i].txs, hashes, coins, at)
    BY <1>1, <1>7, <1>10, <1>12
  <2> QED
    BY <1>1, <1>9, <1>10, <2>1 DEF Updates
<1>14. IsPut(Last(n.files).txs, f.txs, t, Record(r))
  <2> HIDE DEF n, g, txs, f, r
  <2> QED
    BY <1>6, <1>7, <1>10
<1>15. ASSUME NEW others, SpentInBoth(m, others) PROVE SpentInBoth(n, others)
  <2>1. Marked(m.w, others) /\ Marked(f.txs, others)
    BY <1>15 DEF SpentInBoth
  <2>2. Marked(txs, others)
    BY <1>11, <2>1
  <2> HIDE DEF n, g, txs, f
  <2> QED
    BY <1>7, <1>9, <1>10, <2>1, <2>2 DEF SpentInBoth
<1>16. ASSUME NEW p, p[1] = t, p[2] \in m.w[t].spent PROVE p[2] \in Last(n.files).txs[t].spent
  <2>1. Last(n.files).txs = txs
    <3> HIDE DEF n, g, txs, f
    <3> QED
      BY <1>7, <1>10
  <2> HIDE DEF n, g, txs, f
  <2> QED
    BY <1>5, <1>6, <1>16, <2>1
<1> HIDE DEF n
<1>17. IsStored(n, m, t)
  BY <1>9, <1>14, <1>15, <1>16 DEF IsStored
<1> QED
  BY <1>13, <1>17 DEF n

\* Memory changes and the file does not.
LEMMA MemoryChanges ==
  ASSUME NEW K, NEW A, NEW X, NEW hashes, NEW coins, NEW at,
         NEW m \in Updates(K, A, X, hashes, coins, at),
         NEW v \in Wallets(K, A), NEW T, Grows(m.w, v, T), Settles(T, at)
  PROVE  /\ [m EXCEPT !.w = v] \in Updates(K, A, X, hashes, coins, at)
         /\ [m EXCEPT !.w = v].w = v /\ [m EXCEPT !.w = v].files = m.files
         /\ \A others : SpentInBoth(m, others) => SpentInBoth([m EXCEPT !.w = v], others)
<1> DEFINE n == [m EXCEPT !.w = v]
<1>1. /\ m \in [w: Wallets(K, A), files: Seq(Files(K, A, X)), refused: {{}}, faults: {{}}] /\ m.files # <<>>
      /\ Has(m.w, hashes, coins, at) /\ \A i \in DOMAIN m.files : Has(m.files[i].txs, hashes, coins, at)
  BY DEF Updates
<1>2. /\ n.w = v /\ n.files = m.files
      /\ n \in [w: Wallets(K, A), files: Seq(Files(K, A, X)), refused: {{}}, faults: {{}}]
  BY <1>1
<1>3. Has(v, hashes, coins, at)
  BY <1>1, GrownHas
<1>4. n \in Updates(K, A, X, hashes, coins, at)
  <2> HIDE DEF n
  <2> QED
    BY <1>1, <1>2, <1>3 DEF Updates
<1>5. ASSUME NEW others, SpentInBoth(m, others) PROVE SpentInBoth(n, others)
  <2> DEFINE none == {}
  <2>1. Has(m.w, none, others, none) /\ Settles(T, none)
    BY <1>5 DEF SpentInBoth, Has, Placed, Settles
  <2>2. Has(v, none, others, none)
    <3> HIDE DEF none
    <3> QED
      BY <2>1, GrownHas
  <2> HIDE DEF n
  <2> QED
    BY <1>2, <1>5, <2>2 DEF SpentInBoth, Has
<1> QED
  BY <1>2, <1>4, <1>5

\* An output of a transaction of the wallet is spent.
LEMMA SpendKeeps ==
  ASSUME NEW K, NEW A, NEW X, NEW hashes, NEW coins, NEW at, -1 \in A,
         NEW m \in Stored(K, A, X, hashes, coins, at), NEW p, p[1] \in DOMAIN m.w, p[2] \in A
  PROVE  /\ SpendCoin(m, p) \in Stored(K, A, X, hashes, coins, at)
         /\ DOMAIN SpendCoin(m, p).w = DOMAIN m.w
         /\ Grows(m.w, SpendCoin(m, p).w, NoPlaces) /\ p[2] \in SpendCoin(m, p).w[p[1]].spent
         /\ \A others : SpentInBoth(m, others) => SpentInBoth(SpendCoin(m, p), others \cup {p})
<1> DEFINE t == p[1]
           r == MarkSpent(m.w[t], p[2])
           v == [m.w EXCEPT ![t] = r]
           c == [m EXCEPT !.w = v]
           n == WriteToDisk(c, t)
<1>1. m \in Updates(K, A, X, hashes, coins, at) /\ Same(m.w, Last(m.files).txs)
  BY DEF Stored
<1>2. m \in [w: Wallets(K, A), files: Seq(Files(K, A, X)), refused: {{}}, faults: {{}}] /\ m.w \in Wallets(K, A)
  BY <1>1 DEF Updates
<1>3. m.w[t] \in Wtxs(A) /\ t \in K
  BY <1>2, WalletsAre
<1>4. r \in Wtxs(A) /\ r.spent = m.w[t].spent \cup {p[2]} /\ r.block = m.w[t].block
  BY <1>3, RecordsChange
<1>5. v \in Wallets(K, A) /\ IsPut(v, m.w, t, r) /\ Grows(m.w, v, NoPlaces)
  <2> HIDE DEF r
  <2>1. v \in Wallets(K, A) /\ IsPut(v, m.w, t, r)
    BY <1>2, <1>4, RecordIsChanged
  <2> HIDE DEF v
  <2> QED
    BY <1>4, <2>1, PutGrows
<1>6. /\ c \in Updates(K, A, X, hashes, coins, at) /\ c.w = v /\ c.files = m.files
      /\ \A others : SpentInBoth(m, others) => SpentInBoth(c, others)
  <2> HIDE DEF r, v, t
  <2>1. Settles(NoPlaces, at)
    BY DEF Settles, NoPlaces
  <2> QED
    BY <1>1, <1>5, <2>1, MemoryChanges
<1>7. DOMAIN v = DOMAIN m.w /\ v[t] = r
  <2> HIDE DEF v, r
  <2> QED
    BY <1>5 DEF IsPut
<1>8. /\ n \in Updates(K, A, X, hashes, coins, at) /\ n.w = c.w
      /\ IsPut(Last(n.files).txs, Last(c.files).txs, t, Record(c.w[t]))
      /\ \A others : SpentInBoth(c, others) => SpentInBoth(n, others)
      /\ p[2] \in c.w[t].spent => p[2] \in Last(n.files).txs[t].spent
  <2> HIDE DEF c, v, r
  <2>1. t \in DOMAIN c.w
    BY <1>6, <1>7
  <2>2. n \in Updates(K, A, X, hashes, coins, at) /\ IsStored(n, c, t)
    <3> HIDE DEF t
    <3> QED
      BY <1>6, <2>1, WritesKeep
  <2> HIDE DEF n
  <2> QED
    BY <2>2 DEF IsStored
<1>9. SpendCoin(m, p) = n
  BY <1>2 DEF SpendCoin
<1>10. n \in Stored(K, A, X, hashes, coins, at)
  <2>1. Record(r).spent = r.spent /\ Record(r).block = r.block
    BY <1>3, <1>4, RecordsChange
  <2> HIDE DEF n, c, v, r
  <2>2. IsPut(Last(n.files).txs, Last(m.files).txs, t, Record(r)) /\ n.w = v
    BY <1>6, <1>7, <1>8
  <2>3. Same(v, Last(n.files).txs)
    BY <1>1, <1>5, <2>1, <2>2, PutSame
  <2> QED
    BY <1>8, <2>2, <2>3 DEF Stored
<1>11. ASSUME NEW others, SpentInBoth(m, others) PROVE SpentInBoth(n, others \cup {p})
  <2>1. SpentInBoth(n, others)
    <3> HIDE DEF n, c
    <3> QED
      BY <1>6, <1>8, <1>11
  <2>2. p[2] \in n.w[t].spent /\ t \in DOMAIN n.w
    <3> HIDE DEF n, c, v, r
    <3> QED
      BY <1>4, <1>6, <1>7, <1>8
  <2>3. p[2] \in Last(n.files).txs[t].spent /\ t \in DOMAIN Last(n.files).txs
    <3> HIDE DEF n, c, v, r
    <3> QED
      BY <1>8, <2>2 DEF IsPut
  <2> HIDE DEF n
  <2> QED
    BY <2>1, <2>2, <2>3 DEF SpentInBoth, Marked
<1>12. DOMAIN n.w = DOMAIN m.w /\ Grows(m.w, n.w, NoPlaces) /\ p[2] \in n.w[t].spent
  <2> HIDE DEF n, c, v, r
  <2> QED
    BY <1>4, <1>5, <1>6, <1>7, <1>8
<1> HIDE DEF n
<1> QED
  BY <1>9, <1>10, <1>11, <1>12

MarkInput(m, p) == IF Own(m.w, p) /\ p[2] \notin m.w[p[1]].spent THEN SpendCoin(m, p) ELSE m

\* The inputs of a transaction are marked one after the other, those that are the
\* wallet's own.
LEMMA UpdateSpentSteps ==
  ASSUME NEW V, NEW m \in V, NEW t, NEW Q, Transaction(t).vin \in Seq(Q),
         \A v \in V, p \in Q : MarkInput(v, p) \in V
  PROVE  \E h : /\ h[0] = m /\ h[Len(Transaction(t).vin)] = WalletUpdateSpent(m, t)
                /\ \A k \in 0..Len(Transaction(t).vin) : h[k] \in V
                /\ \A k \in 1..Len(Transaction(t).vin) : h[k] = MarkInput(h[k - 1], Transaction(t).vin[k])
<1> DEFINE s == Transaction(t).vin
           Op(v, p) == MarkInput(v, p)
           n == Len(s)
           G == [i \in 1..n |-> [v \in V |-> Op(v, s[i])]]
           Step(h, d) == IF d = {} THEN m ELSE Op(h[d \ {Max(d)}], s[Max(d)])
           iter == CHOOSE h : h = [d \in SUBSET (DOMAIN s) |-> Step(h, d)]
<1>1. n \in Nat /\ DOMAIN s = 1..n /\ \A i \in 1..n : s[i] \in Q
  OBVIOUS
<1>2. \A v \in V, p \in Q : Op(v, p) \in V
  OBVIOUS
<1>3. IsRule(G, 1..n, V)
  <2> HIDE DEF Op, n, s
  <2> QED
    BY <1>1, <1>2 DEF IsRule
<1>4. PICK f \in [SUBSET (1..n) -> V] : IsFoldLeft(f, n, m, G)
  <2> HIDE DEF G, n
  <2> QED
    BY <1>1, <1>3, FoldRecursion
<1>5. ASSUME NEW d \in SUBSET (1..n) PROVE f[d] = Step(f, d)
  <2>1. CASE d # {}
    <3>1. Max(d) \in 1..n /\ d \ {Max(d)} \in SUBSET (1..n)
      <4> HIDE DEF n
      <4> QED
        BY <1>1, <2>1, MaxIs
    <3>2. f[d \ {Max(d)}] \in V
      BY <3>1
    <3>3. f[d] = G[Max(d)][f[d \ {Max(d)}]]
      <4> HIDE DEF G, n
      <4> QED
        BY <1>4, <2>1 DEF IsFoldLeft
    <3> HIDE DEF Op, n, s
    <3> QED
      BY <2>1, <3>1, <3>2, <3>3
  <2>2. CASE d = {}
    <3> HIDE DEF G, n
    <3> QED
      BY <1>4, <2>2 DEF IsFoldLeft
  <2> QED
    BY <2>1, <2>2
<1>6. iter = [d \in SUBSET (DOMAIN s) |-> Step(iter, d)]
  <2>1. f = [d \in SUBSET (DOMAIN s) |-> Step(f, d)]
    <3> HIDE DEF Step, n, s
    <3> QED
      BY <1>1, <1>5
  <2> HIDE DEF Step, s
  <2> QED
    BY <2>1
<1>7. \A d \in SUBSET (1..n) : iter[d] = Step(iter, d)
  <2> HIDE DEF Step, iter, n, s
  <2> QED
    BY <1>1, <1>6
<1>8. iter[1..0] = m
  <2>1. 1..0 \in SUBSET (1..n) /\ 1..0 = {}
    OBVIOUS
  <2>2. iter[1..0] = Step(iter, 1..0)
    <3> HIDE DEF Step, iter, n
    <3> QED
      BY <1>7, <2>1
  <2> HIDE DEF iter, Op
  <2> QED
    BY <2>1, <2>2
<1>9. ASSUME NEW k \in 1..n PROVE iter[1..k] = Op(iter[1..(k - 1)], s[k])
  <2>1. 1..k \in SUBSET (1..n) /\ Max(1..k) = k /\ (1..k) \ {k} = 1..(k - 1) /\ 1..k # {}
    <3> HIDE DEF n
    <3>1. n \in Nat
      BY <1>1
    <3>2. Max(1..k) = k /\ (1..k) \ {k} = 1..(k - 1) /\ 1..k # {}
      BY <3>1, MaxIs
    <3> QED
      BY <3>1, <3>2
  <2>2. iter[1..k] = Step(iter, 1..k)
    <3> HIDE DEF Step, iter, n
    <3> QED
      BY <1>7, <2>1
  <2> HIDE DEF iter, Op, n, s
  <2> QED
    BY <2>1, <2>2
<1>10. \A k \in 0..n : iter[1..k] \in V
  <2> HIDE DEF iter, n, s, Op
  <2>1. iter[1..0] \in V
    BY <1>8
  <2>2. ASSUME NEW k \in 1..n, iter[1..(k - 1)] \in V PROVE iter[1..k] \in V
    BY <1>1, <1>2, <1>9, <2>2
  <2> QED
    BY <1>1, <2>1, <2>2, FoldStays
<1>11. WalletUpdateSpent(m, t) = iter[1..n]
  <2>1. WalletUpdateSpent(m, t) = iter[DOMAIN s]
    BY DEF WalletUpdateSpent, MarkInput, FoldLeft, MapThenFoldSet
  <2> HIDE DEF iter, n, s
  <2> QED
    BY <1>1, <2>1
<1> DEFINE h == [k \in 0..n |-> iter[1..k]]
<1>12. h[0] = m /\ h[n] = WalletUpdateSpent(m, t) /\ \A k \in 0..n : h[k] \in V
  <2> HIDE DEF iter, n, s
  <2> QED
    BY <1>1, <1>8, <1>10, <1>11
<1>13. ASSUME NEW k \in 1..n PROVE h[k] = Op(h[k - 1], s[k])
  <2> HIDE DEF iter, n, s, Op
  <2>1. h[k] = iter[1..k] /\ h[k - 1] = iter[1..(k - 1)]
    BY <1>1
  <2> HIDE DEF h
  <2> QED
    BY <1>9, <2>1
<1> HIDE DEF h, iter
<1> QED
  BY <1>12, <1>13

LEMMA UpdateSpentKeeps ==
  ASSUME NEW K, NEW A, NEW X, NEW hashes, NEW coins, NEW at, -1 \in A,
         NEW m \in Stored(K, A, X, hashes, coins, at), NEW t, NEW Q,
         Transaction(t).vin \in Seq(Q), \A q \in Q : q[2] \in A
  PROVE  LET n == WalletUpdateSpent(m, t) IN
         /\ n \in Stored(K, A, X, hashes, coins, at)
         /\ DOMAIN n.w = DOMAIN m.w /\ Grows(m.w, n.w, NoPlaces)
         /\ \A p \in Inputs(t) : Own(m.w, p) => p[2] \in n.w[p[1]].spent
<1> DEFINE S == Stored(K, A, X, hashes, coins, at)
           V == {v \in S : DOMAIN v.w = DOMAIN m.w /\ Grows(m.w, v.w, NoPlaces)}
           vin == Transaction(t).vin
           n == Len(vin)
<1>1. ASSUME NEW v \in S, NEW p \in Q
      PROVE  LET x == MarkInput(v, p) IN
             /\ x \in S /\ DOMAIN x.w = DOMAIN v.w /\ Grows(v.w, x.w, NoPlaces)
             /\ Own(v.w, p) => p[2] \in x.w[p[1]].spent
  <2>1. CASE Own(v.w, p) /\ p[2] \notin v.w[p[1]].spent
    <3>1. MarkInput(v, p) = SpendCoin(v, p) /\ p[1] \in DOMAIN v.w /\ p[2] \in A
      BY <2>1 DEF MarkInput, Own
    <3> QED
      BY <3>1, SpendKeeps
  <2>2. CASE ~(Own(v.w, p) /\ p[2] \notin v.w[p[1]].spent)
    <3>1. MarkInput(v, p) = v
      BY <2>2 DEF MarkInput
    <3>2. Grows(v.w, v.w, NoPlaces)
      BY DEF Grows
    <3> HIDE DEF S
    <3> QED
      BY <2>2, <3>1, <3>2
  <2> QED
    BY <2>1, <2>2
<1>2. m \in V
  BY DEF Grows
<1>3. ASSUME NEW v \in V, NEW p \in Q PROVE MarkInput(v, p) \in V
  <2>1. v \in S /\ DOMAIN v.w = DOMAIN m.w /\ Grows(m.w, v.w, NoPlaces)
    OBVIOUS
  <2> DEFINE x == MarkInput(v, p)
  <2>2. x \in S /\ DOMAIN x.w = DOMAIN v.w /\ Grows(v.w, x.w, NoPlaces)
    BY <1>1, <2>1
  <2> HIDE DEF S, x
  <2>3. Grows(m.w, x.w, NoPlaces)
    BY <2>1, <2>2, GrowsOn
  <2> QED
    BY <2>1, <2>2, <2>3 DEF x
<1>4. PICK h : /\ h[0] = m /\ h[n] = WalletUpdateSpent(m, t)
               /\ \A k \in 0..n : h[k] \in V
               /\ \A k \in 1..n : h[k] = MarkInput(h[k - 1], vin[k])
  <2> HIDE DEF V
  <2> QED
    BY <1>2, <1>3, UpdateSpentSteps
<1>5. n \in Nat /\ DOMAIN vin = 1..n /\ \A k \in 1..n : vin[k] \in Q
  OBVIOUS
<1> HIDE DEF vin, n
<1> DEFINE T == {k \in 0..n : \A j \in 1..k : Own(m.w, vin[j]) => vin[j][2] \in h[k].w[vin[j][1]].spent}
<1>6. 0 \in T
  BY <1>5
<1>7. ASSUME NEW k \in 1..n, k - 1 \in T PROVE k \in T
  <2> DEFINE a == h[k - 1]
             b == h[k]
  <2>1. k - 1 \in 0..n /\ k \in 0..n /\ \A j \in 1..k : j = k \/ j \in 1..(k - 1)
    BY <1>5
  <2>2. a \in V /\ b = MarkInput(a, vin[k]) /\ vin[k] \in Q
    <3> HIDE DEF V
    <3> QED
      BY <1>4, <1>5, <2>1
  <2>3. a \in S /\ DOMAIN a.w = DOMAIN m.w
    BY <2>2
  <2>4. Grows(a.w, b.w, NoPlaces) /\ (Own(a.w, vin[k]) => vin[k][2] \in b.w[vin[k][1]].spent)
    <3> HIDE DEF S, a, b
    <3> QED
      BY <1>1, <2>2, <2>3
  <2>5. \A j \in 1..(k - 1) : Own(m.w, vin[j]) => vin[j][2] \in a.w[vin[j][1]].spent
    BY <1>7
  <2> HIDE DEF S, V, a, b
  <2>6. ASSUME NEW j \in 1..k, Own(m.w, vin[j]) PROVE vin[j][2] \in b.w[vin[j][1]].spent
    <3>1. CASE j = k
      <4>1. Own(a.w, vin[k])
        BY <2>3, <2>6, <3>1 DEF Own
      <4> QED
        BY <2>4, <3>1, <4>1
    <3>2. CASE j \in 1..(k - 1)
      <4>1. vin[j][2] \in a.w[vin[j][1]].spent /\ vin[j][1] \in DOMAIN a.w
        BY <2>3, <2>5, <2>6, <3>2 DEF Own
      <4> QED
        BY <2>4, <4>1 DEF Grows
    <3> QED
      BY <2>1, <3>1, <3>2
  <2> QED
    BY <2>1, <2>6 DEF b
<1>8. n \in T
  <2>1. 0..n \subseteq T
    <3> HIDE DEF T
    <3> QED
      BY <1>5, <1>6, <1>7, CountInduction
  <2> HIDE DEF T
  <2> QED
    BY <1>5, <2>1
<1>9. h[n] \in V
  <2> HIDE DEF V
  <2> QED
    BY <1>4, <1>5
<1>10. ASSUME NEW p \in Inputs(t), Own(m.w, p) PROVE p[2] \in h[n].w[p[1]].spent
  <2>1. PICK j \in 1..n : p = vin[j]
    BY <1>5 DEF Inputs, Range, vin
  <2> QED
    BY <1>8, <1>10, <2>1
<1> QED
  BY <1>4, <1>9, <1>10

\* The inputs of these transactions can be marked.
Readable(K, A) ==
  /\ -1 \in A /\ 0 \in A /\ {} \in A
  /\ \A t \in K : \E Q : Transaction(t).vin \in Seq(Q) /\ \A q \in Q : q[2] \in A

\* A transaction is added or merged.
LEMMA AddKeeps ==
  ASSUME NEW K, NEW A, NEW X, NEW hashes, NEW coins, NEW at, Readable(K, A),
         NEW m \in Stored(K, A, X, hashes, coins, at), NEW t \in K, NEW wtx \in Wtxs(A),
         NEW T, Settles(T, at), <<t, wtx.block>> \in T
  PROVE  LET n == AddToWallet(m, t, wtx) IN
         /\ n \in Stored(K, A, X, hashes, coins, at) /\ Grows(m.w, n.w, T)
         /\ t \in DOMAIN n.w /\ (wtx.block # 0 => n.w[t].block = wtx.block)
         /\ \A p \in Inputs(t) : Own(m.w, p) => p[2] \in n.w[p[1]].spent
<1> DEFINE new == t \notin DOMAIN m.w
           merged == IF new THEN wtx
                     ELSE [m.w[t] EXCEPT !.block = IF wtx.block # 0 THEN wtx.block ELSE @,
                                         !.spent = @ \cup wtx.spent]
           r == MarkDirty(merged)
           v == Put(m.w, t, r)
           added == [m EXCEPT !.w = v]
           stored == IF new \/ Record(merged) # Record(m.w[t]) THEN WriteToDisk(added, t) ELSE added
<1>0. -1 \in A
  BY DEF Readable
<1>1. m \in Updates(K, A, X, hashes, coins, at) /\ Same(m.w, Last(m.files).txs)
  BY DEF Stored
<1>2. m \in [w: Wallets(K, A), files: Seq(Files(K, A, X)), refused: {{}}, faults: {{}}] /\ m.w \in Wallets(K, A)
  BY <1>1 DEF Updates
<1>3. /\ merged \in Wtxs(A) /\ (~new => m.w[t].spent \subseteq merged.spent)
      /\ merged.block = IF new \/ wtx.block # 0 THEN wtx.block ELSE m.w[t].block
  <2>1. CASE new
    BY <2>1
  <2>2. CASE ~new
    <3>1. m.w[t] \in Wtxs(A)
      BY <1>2, <2>2, WalletsAre
    <3> DEFINE o == m.w[t]
    <3>2. merged = [o EXCEPT !.block = IF wtx.block # 0 THEN wtx.block ELSE @, !.spent = @ \cup wtx.spent]
      BY <2>2
    <3>3. o \in Wtxs(A)
      BY <3>1
    <3> HIDE DEF o, merged
    <3>4. /\ merged \in Wtxs(A) /\ o.spent \subseteq merged.spent
          /\ merged.block = IF wtx.block # 0 THEN wtx.block ELSE o.block
      BY <3>2, <3>3 DEF Wtxs
    <3> QED
      BY <2>2, <3>4 DEF o
  <2> QED
    BY <2>1, <2>2
<1>4. r \in Wtxs(A) /\ r.spent = merged.spent /\ r.block = merged.block
  <2> HIDE DEF merged
  <2> QED
    BY <1>0, <1>3, RecordsChange
<1>5. v \in Wallets(K, A) /\ IsPut(v, m.w, t, r) /\ Grows(m.w, v, T)
  <2> HIDE DEF r
  <2>1. v \in Wallets(K, A) /\ IsPut(v, m.w, t, r)
    BY <1>2, <1>4, RecordIsPut
  <2>2. (t \in DOMAIN m.w /\ r.block = m.w[t].block) \/ <<t, r.block>> \in T
    <3> HIDE DEF merged
    <3> QED
      BY <1>3, <1>4
  <2> HIDE DEF v, merged
  <2> QED
    BY <1>3, <1>4, <2>1, <2>2, PutGrows
<1>6. added \in Updates(K, A, X, hashes, coins, at) /\ added.w = v /\ added.files = m.files
  <2> HIDE DEF r, v, merged
  <2> QED
    BY <1>1, <1>5, MemoryChanges
<1>7. DOMAIN v = DOMAIN m.w \cup {t} /\ v[t] = r
  <2> HIDE DEF v, r
  <2> QED
    BY <1>5 DEF IsPut
<1>8. stored \in Stored(K, A, X, hashes, coins, at) /\ stored.w = v
  <2>1. CASE new \/ Record(merged) # Record(m.w[t])
    <3> DEFINE n == WriteToDisk(added, t)
    <3>1. n \in Updates(K, A, X, hashes, coins, at) /\ IsStored(n, added, t)
      <4> HIDE DEF added, v
      <4>1. t \in DOMAIN added.w
        BY <1>6, <1>7
      <4> QED
        BY <1>0, <1>6, <4>1, WritesKeep
    <3>2. n \in Stored(K, A, X, hashes, coins, at) /\ n.w = v
      <4>1. Record(r).spent = r.spent /\ Record(r).block = r.block
        BY <1>0, <1>4, RecordsChange
      <4> HIDE DEF n, added, v, r
      <4>2. IsPut(Last(n.files).txs, Last(m.files).txs, t, Record(r)) /\ n.w = v
        BY <1>6, <1>7, <3>1 DEF IsStored
      <4>3. Same(v, Last(n.files).txs)
        BY <1>1, <1>5, <4>1, <4>2, PutSame
      <4> QED
        BY <3>1, <4>2, <4>3 DEF Stored
    <3>3. stored = n
      BY <2>1
    <3> QED
      BY <3>2, <3>3
  <2>2. CASE ~(new \/ Record(merged) # Record(m.w[t]))
    <3>1. stored = added
      BY <2>2
    <3>2. Same(v, m.w)
      <4> DEFINE o == m.w[t]
      <4>1. o \in Wtxs(A) /\ Record(merged) = Record(o)
        BY <1>2, <2>2, WalletsAre
      <4> HIDE DEF merged, o
      <4>2. Record(merged).spent = merged.spent /\ Record(merged).block = merged.block
        BY <1>0, <1>3, RecordsChange
      <4>3. Record(o).spent = o.spent /\ Record(o).block = o.block
        BY <1>0, <4>1, RecordsChange
      <4>4. r.spent = m.w[t].spent /\ r.block = m.w[t].block
        BY <1>4, <4>1, <4>2, <4>3 DEF o
      <4> HIDE DEF v, r
      <4> QED
        BY <1>5, <2>2, <4>4 DEF IsPut, Same
    <3>3. added \in Stored(K, A, X, hashes, coins, at)
      <4> HIDE DEF added, v
      <4>1. Same(v, Last(m.files).txs)
        BY <1>1, <3>2 DEF Same
      <4> QED
        BY <1>6, <4>1 DEF Stored
    <3>4. added.w = v
      BY <1>6
    <3> QED
      BY <3>1, <3>3, <3>4
  <2> QED
    BY <2>1, <2>2
<1>9. AddToWallet(m, t, wtx) = WalletUpdateSpent(stored, t)
  <2>1. m.refused = {}
    BY DEF Stored, Updates
  <2> QED
    BY <2>1 DEF AddToWallet
<1>10. PICK Q : Transaction(t).vin \in Seq(Q) /\ \A q \in Q : q[2] \in A
  BY DEF Readable
<1> DEFINE n == WalletUpdateSpent(stored, t)
<1> HIDE DEF stored
<1>11. /\ n \in Stored(K, A, X, hashes, coins, at) /\ DOMAIN n.w = DOMAIN stored.w
       /\ Grows(stored.w, n.w, NoPlaces)
       /\ \A p \in Inputs(t) : Own(stored.w, p) => p[2] \in n.w[p[1]].spent
  BY <1>0, <1>8, <1>10, UpdateSpentKeeps
<1> HIDE DEF n, v, r, merged
<1>12. Grows(v, n.w, NoPlaces) /\ Grows(v, n.w, T) /\ DOMAIN n.w = DOMAIN v
  BY <1>8, <1>11 DEF Grows, NoPlaces
<1>13. Grows(m.w, n.w, T)
  BY <1>5, <1>12, GrowsOn
<1>14. t \in DOMAIN n.w /\ n.w[t].block = r.block
  BY <1>7, <1>12 DEF Grows, NoPlaces
<1>15. wtx.block # 0 => r.block = wtx.block
  BY <1>3, <1>4
<1>16. ASSUME NEW p \in Inputs(t), Own(m.w, p) PROVE p[2] \in n.w[p[1]].spent
  <2>1. Own(stored.w, p)
    BY <1>7, <1>8, <1>16 DEF Own
  <2> QED
    BY <1>11, <2>1
<1>17. /\ n \in Stored(K, A, X, hashes, coins, at) /\ Grows(m.w, n.w, T)
       /\ t \in DOMAIN n.w /\ (wtx.block # 0 => n.w[t].block = wtx.block)
       /\ \A p \in Inputs(t) : Own(m.w, p) => p[2] \in n.w[p[1]].spent
  BY <1>11, <1>13, <1>14, <1>15, <1>16
<1> QED
  BY <1>9, <1>17 DEF n

\* What the wallet learns from a transaction in this block.
TakesIn(w, v, t, block) ==
  /\ PaysMe(t) \/ IsFromMe(w, t) => t \in DOMAIN v
  /\ t \in DOMAIN v /\ block # 0 => v[t].block = block
  /\ \A p \in Inputs(t) : Own(w, p) => p[2] \in v[p[1]].spent

LEMMA AddIfInvolvedKeeps ==
  ASSUME NEW K, NEW A, NEW X, NEW hashes, NEW coins, NEW at, Readable(K, A),
         NEW m \in Stored(K, A, X, hashes, coins, at), NEW t \in K, NEW block \in A, NEW fUpdate,
         NEW T, Settles(T, at), <<t, block>> \in T
  PROVE  LET n == AddToWalletIfInvolvingMe(m, t, block, fUpdate) IN
         /\ n \in Stored(K, A, X, hashes, coins, at) /\ Grows(m.w, n.w, T)
         /\ fUpdate = TRUE => TakesIn(m.w, n.w, t, block)
<1> DEFINE n == AddToWalletIfInvolvingMe(m, t, block, fUpdate)
           known == t \in DOMAIN m.w
           wtx == WalletTx(block, {})
           added == AddToWallet(m, t, wtx)
           spent == WalletUpdateSpent(m, t)
<1>0. -1 \in A /\ 0 \in A /\ {} \in A
  BY DEF Readable
<1>1. wtx \in Wtxs(A) /\ wtx.block = block
  BY <1>0 DEF WalletTx, Wtxs
<1>2. /\ added \in Stored(K, A, X, hashes, coins, at) /\ Grows(m.w, added.w, T)
      /\ t \in DOMAIN added.w /\ (block # 0 => added.w[t].block = block)
      /\ \A p \in Inputs(t) : Own(m.w, p) => p[2] \in added.w[p[1]].spent
  <2> HIDE DEF wtx
  <2> QED
    BY <1>1, AddKeeps
<1>3. PICK Q : Transaction(t).vin \in Seq(Q) /\ \A q \in Q : q[2] \in A
  BY DEF Readable
<1>4. /\ spent \in Stored(K, A, X, hashes, coins, at) /\ DOMAIN spent.w = DOMAIN m.w
      /\ Grows(m.w, spent.w, T)
      /\ \A p \in Inputs(t) : Own(m.w, p) => p[2] \in spent.w[p[1]].spent
  <2>1. /\ spent \in Stored(K, A, X, hashes, coins, at) /\ DOMAIN spent.w = DOMAIN m.w
        /\ Grows(m.w, spent.w, NoPlaces)
        /\ \A p \in Inputs(t) : Own(m.w, p) => p[2] \in spent.w[p[1]].spent
    BY <1>0, <1>3, UpdateSpentKeeps
  <2> HIDE DEF spent
  <2> QED
    BY <2>1 DEF Grows, NoPlaces
<1>5. n = IF known /\ ~fUpdate THEN m ELSE IF known \/ PaysMe(t) \/ IsFromMe(m.w, t) THEN added ELSE spent
  BY DEF AddToWalletIfInvolvingMe
<1> HIDE DEF n, added, spent, wtx
<1>6. CASE known /\ ~fUpdate
  <2>1. n = m /\ fUpdate # TRUE /\ Grows(m.w, m.w, T)
    BY <1>5, <1>6 DEF Grows
  <2> QED
    BY <2>1 DEF n
<1>7. CASE ~(known /\ ~fUpdate) /\ (known \/ PaysMe(t) \/ IsFromMe(m.w, t))
  <2>1. n = added
    BY <1>5, <1>7
  <2> QED
    BY <1>2, <2>1 DEF n, TakesIn
<1>8. CASE ~(known /\ ~fUpdate) /\ ~(known \/ PaysMe(t) \/ IsFromMe(m.w, t))
  <2>1. n = spent
    BY <1>5, <1>8
  <2> QED
    BY <1>4, <1>8, <2>1 DEF n, TakesIn
<1> QED
  BY <1>6, <1>7, <1>8

\* A finite set as a sequence.
LEMMA SetToSeqIs ==
  ASSUME NEW S, IsFiniteSet(S)
  PROVE  SetToSeq(S) \in Seq(S) /\ Range(SetToSeq(S)) = S
<1> DEFINE n == Cardinality(S)
<1>1. n \in Nat /\ ExistsBijection(1..n, S)
  BY FS_CardinalityType
<1>2. PICK f : f \in Bijection(1..n, S)
  BY <1>1 DEF ExistsBijection
<1>3. f \in [1..n -> S] /\ IsInjective(f)
  BY <1>2 DEF Bijection, Injection, IsInjective
<1> DEFINE s == SetToSeq(S)
<1>4. s \in [1..n -> S] /\ IsInjective(s)
  BY <1>3 DEF SetToSeq
<1>5. s \in Seq(S)
  <2> HIDE DEF s
  <2> QED
    BY <1>1, <1>4
<1>6. s \in Injection(1..n, S)
  <2> HIDE DEF s
  <2> QED
    BY <1>4 DEF Injection, IsInjective
<1>7. IsFiniteSet(1..n) /\ Cardinality(1..n) = n
  BY <1>1, FS_Interval
<1>8. s \in Surjection(1..n, S)
  <2> HIDE DEF s
  <2> QED
    BY <1>6, <1>7, FS_Injection
<1>9. \A x \in S : \E i \in 1..n : s[i] = x
  <2> HIDE DEF s
  <2> QED
    BY <1>8 DEF Surjection
<1>10. Range(s) = S
  <2> HIDE DEF s
  <2> QED
    BY <1>4, <1>9 DEF Range
<1> QED
  BY <1>5, <1>10

LEMMA SequenceOfRange ==
  ASSUME NEW S, NEW s \in Seq(S)
  PROVE  s \in Seq(Range(s))
<1> DEFINE n == Len(s)
<1>1. n \in Nat /\ DOMAIN s = 1..n /\ s = [i \in 1..n |-> s[i]]
  OBVIOUS
<1>2. \A i \in 1..n : s[i] \in Range(s)
  BY <1>1 DEF Range
<1>3. s \in [1..n -> Range(s)]
  <2> HIDE DEF n
  <2> QED
    BY <1>1, <1>2
<1> HIDE DEF n
<1> QED
  BY <1>1, <1>3

LEMMA RangeIsWithin ==
  ASSUME NEW S, NEW s \in Seq(S)
  PROVE  Range(s) \subseteq S
  BY DEF Range

\* The transactions of a block, and those of a branch, are gone through.
LEMMA ScanBlockSteps ==
  ASSUME NEW V, NEW m \in V, NEW Q, NEW vtx \in Seq(Q), NEW b, NEW fUpdate,
         \A v \in V, t \in Q : AddToWalletIfInvolvingMe(v, t, b, fUpdate) \in V
  PROVE  \E h : /\ h[0] = m /\ h[Len(vtx)] = ScanBlock(m, b, vtx, fUpdate)
                /\ \A k \in 0..Len(vtx) : h[k] \in V
                /\ \A k \in 1..Len(vtx) : h[k] = AddToWalletIfInvolvingMe(h[k - 1], vtx[k], b, fUpdate)
<1> DEFINE s == vtx
           Op(v, p) == AddToWalletIfInvolvingMe(v, p, b, fUpdate)
           n == Len(s)
           G == [i \in 1..n |-> [v \in V |-> Op(v, s[i])]]
           Step(h, d) == IF d = {} THEN m ELSE Op(h[d \ {Max(d)}], s[Max(d)])
           iter == CHOOSE h : h = [d \in SUBSET (DOMAIN s) |-> Step(h, d)]
<1>1. n \in Nat /\ DOMAIN s = 1..n /\ \A i \in 1..n : s[i] \in Q
  OBVIOUS
<1>2. \A v \in V, p \in Q : Op(v, p) \in V
  OBVIOUS
<1>3. IsRule(G, 1..n, V)
  <2> HIDE DEF Op, n, s
  <2> QED
    BY <1>1, <1>2 DEF IsRule
<1>4. PICK f \in [SUBSET (1..n) -> V] : IsFoldLeft(f, n, m, G)
  <2> HIDE DEF G, n
  <2> QED
    BY <1>1, <1>3, FoldRecursion
<1>5. ASSUME NEW d \in SUBSET (1..n) PROVE f[d] = Step(f, d)
  <2>1. CASE d # {}
    <3>1. Max(d) \in 1..n /\ d \ {Max(d)} \in SUBSET (1..n)
      <4> HIDE DEF n
      <4> QED
        BY <1>1, <2>1, MaxIs
    <3>2. f[d \ {Max(d)}] \in V
      BY <3>1
    <3>3. f[d] = G[Max(d)][f[d \ {Max(d)}]]
      <4> HIDE DEF G, n
      <4> QED
        BY <1>4, <2>1 DEF IsFoldLeft
    <3> HIDE DEF Op, n, s
    <3> QED
      BY <2>1, <3>1, <3>2, <3>3
  <2>2. CASE d = {}
    <3> HIDE DEF G, n
    <3> QED
      BY <1>4, <2>2 DEF IsFoldLeft
  <2> QED
    BY <2>1, <2>2
<1>6. iter = [d \in SUBSET (DOMAIN s) |-> Step(iter, d)]
  <2>1. f = [d \in SUBSET (DOMAIN s) |-> Step(f, d)]
    <3> HIDE DEF Step, n, s
    <3> QED
      BY <1>1, <1>5
  <2> HIDE DEF Step, s
  <2> QED
    BY <2>1
<1>7. \A d \in SUBSET (1..n) : iter[d] = Step(iter, d)
  <2> HIDE DEF Step, iter, n, s
  <2> QED
    BY <1>1, <1>6
<1>8. iter[1..0] = m
  <2>1. 1..0 \in SUBSET (1..n) /\ 1..0 = {}
    OBVIOUS
  <2>2. iter[1..0] = Step(iter, 1..0)
    <3> HIDE DEF Step, iter, n
    <3> QED
      BY <1>7, <2>1
  <2> HIDE DEF iter, Op
  <2> QED
    BY <2>1, <2>2
<1>9. ASSUME NEW k \in 1..n PROVE iter[1..k] = Op(iter[1..(k - 1)], s[k])
  <2>1. 1..k \in SUBSET (1..n) /\ Max(1..k) = k /\ (1..k) \ {k} = 1..(k - 1) /\ 1..k # {}
    <3> HIDE DEF n
    <3>1. n \in Nat
      BY <1>1
    <3>2. Max(1..k) = k /\ (1..k) \ {k} = 1..(k - 1) /\ 1..k # {}
      BY <3>1, MaxIs
    <3> QED
      BY <3>1, <3>2
  <2>2. iter[1..k] = Step(iter, 1..k)
    <3> HIDE DEF Step, iter, n
    <3> QED
      BY <1>7, <2>1
  <2> HIDE DEF iter, Op, n, s
  <2> QED
    BY <2>1, <2>2
<1>10. \A k \in 0..n : iter[1..k] \in V
  <2> HIDE DEF iter, n, s, Op
  <2>1. iter[1..0] \in V
    BY <1>8
  <2>2. ASSUME NEW k \in 1..n, iter[1..(k - 1)] \in V PROVE iter[1..k] \in V
    BY <1>1, <1>2, <1>9, <2>2
  <2> QED
    BY <1>1, <2>1, <2>2, FoldStays
<1>11. ScanBlock(m, b, vtx, fUpdate) = iter[1..n]
  <2>1. ScanBlock(m, b, vtx, fUpdate) = iter[DOMAIN s]
    BY DEF ScanBlock, FoldLeft, MapThenFoldSet
  <2> HIDE DEF iter, n, s
  <2> QED
    BY <1>1, <2>1
<1> DEFINE h == [k \in 0..n |-> iter[1..k]]
<1>12. h[0] = m /\ h[n] = ScanBlock(m, b, vtx, fUpdate) /\ \A k \in 0..n : h[k] \in V
  <2> HIDE DEF iter, n, s
  <2> QED
    BY <1>1, <1>8, <1>10, <1>11
<1>13. ASSUME NEW k \in 1..n PROVE h[k] = Op(h[k - 1], s[k])
  <2> HIDE DEF iter, n, s, Op
  <2>1. h[k] = iter[1..k] /\ h[k - 1] = iter[1..(k - 1)]
    BY <1>1
  <2> HIDE DEF h
  <2> QED
    BY <1>9, <2>1
<1> HIDE DEF h, iter
<1> QED
  BY <1>12, <1>13

LEMMA ScanBlockKeeps ==
  ASSUME NEW K, NEW A, NEW X, NEW hashes, NEW coins, NEW at, Readable(K, A),
         NEW m \in Stored(K, A, X, hashes, coins, at), NEW b \in A, NEW vtx \in Seq(K), NEW fUpdate,
         NEW T, Settles(T, at), \A t \in Range(vtx) : <<t, b>> \in T
  PROVE  LET n == ScanBlock(m, b, vtx, fUpdate) IN
         n \in Stored(K, A, X, hashes, coins, at) /\ Grows(m.w, n.w, T)
<1> DEFINE S == Stored(K, A, X, hashes, coins, at)
           V == {v \in S : Grows(m.w, v.w, T)}
           Q == Range(vtx)
<1>1. m \in V
  BY DEF Grows
<1>2. vtx \in Seq(Q) /\ Q \subseteq K
  BY SequenceOfRange, RangeIsWithin
<1>3. ASSUME NEW v \in V, NEW t \in Q PROVE AddToWalletIfInvolvingMe(v, t, b, fUpdate) \in V
  <2> DEFINE x == AddToWalletIfInvolvingMe(v, t, b, fUpdate)
  <2>1. v \in S /\ Grows(m.w, v.w, T) /\ t \in K /\ <<t, b>> \in T
    BY <1>2
  <2>2. x \in S /\ Grows(v.w, x.w, T)
    BY <2>1, AddIfInvolvedKeeps
  <2> HIDE DEF x, S
  <2>3. Grows(m.w, x.w, T)
    BY <2>1, <2>2, GrowsOn
  <2> QED
    BY <2>2, <2>3 DEF x
<1>4. PICK h : /\ h[0] = m /\ h[Len(vtx)] = ScanBlock(m, b, vtx, fUpdate)
               /\ \A k \in 0..Len(vtx) : h[k] \in V
               /\ \A k \in 1..Len(vtx) : h[k] = AddToWalletIfInvolvingMe(h[k - 1], vtx[k], b, fUpdate)
  <2> HIDE DEF V, Q
  <2> QED
    BY <1>1, <1>2, <1>3, ScanBlockSteps
<1>5. h[Len(vtx)] \in V
  <2>1. Len(vtx) \in 0..Len(vtx)
    OBVIOUS
  <2> HIDE DEF V
  <2> QED
    BY <1>4, <2>1
<1> QED
  BY <1>4, <1>5

\* One block of those.
ScanOne(m, bs, b, fUpdate) == ScanBlock(m, b, bs[b].vtx, fUpdate)

\* The states that a scan goes through.
IsScan(h, m, bs, branch, fUpdate, V) ==
  /\ h[0] = m /\ h[Len(branch)] = Scan(m, bs, branch, fUpdate)
  /\ \A k \in 0..Len(branch) : h[k] \in V
  /\ \A k \in 1..Len(branch) : h[k] = ScanOne(h[k - 1], bs, branch[k], fUpdate)

LEMMA ScanSteps ==
  ASSUME NEW V, NEW m \in V, NEW Q, NEW bs, NEW branch \in Seq(Q), NEW fUpdate,
         \A v \in V, b \in Q : ScanOne(v, bs, b, fUpdate) \in V
  PROVE  \E h : IsScan(h, m, bs, branch, fUpdate, V)
<1> DEFINE s == branch
           Op(v, p) == ScanOne(v, bs, p, fUpdate)
           n == Len(s)
           G == [i \in 1..n |-> [v \in V |-> Op(v, s[i])]]
           Step(h, d) == IF d = {} THEN m ELSE Op(h[d \ {Max(d)}], s[Max(d)])
           iter == CHOOSE h : h = [d \in SUBSET (DOMAIN s) |-> Step(h, d)]
<1>1. n \in Nat /\ DOMAIN s = 1..n /\ \A i \in 1..n : s[i] \in Q
  OBVIOUS
<1>2. \A v \in V, p \in Q : Op(v, p) \in V
  OBVIOUS
<1>3. IsRule(G, 1..n, V)
  <2> HIDE DEF Op, n, s
  <2> QED
    BY <1>1, <1>2 DEF IsRule
<1>4. PICK f \in [SUBSET (1..n) -> V] : IsFoldLeft(f, n, m, G)
  <2> HIDE DEF G, n
  <2> QED
    BY <1>1, <1>3, FoldRecursion
<1>5. ASSUME NEW d \in SUBSET (1..n) PROVE f[d] = Step(f, d)
  <2>1. CASE d # {}
    <3>1. Max(d) \in 1..n /\ d \ {Max(d)} \in SUBSET (1..n)
      <4> HIDE DEF n
      <4> QED
        BY <1>1, <2>1, MaxIs
    <3>2. f[d \ {Max(d)}] \in V
      BY <3>1
    <3>3. f[d] = G[Max(d)][f[d \ {Max(d)}]]
      <4> HIDE DEF G, n
      <4> QED
        BY <1>4, <2>1 DEF IsFoldLeft
    <3> HIDE DEF Op, n, s
    <3> QED
      BY <2>1, <3>1, <3>2, <3>3
  <2>2. CASE d = {}
    <3> HIDE DEF G, n
    <3> QED
      BY <1>4, <2>2 DEF IsFoldLeft
  <2> QED
    BY <2>1, <2>2
<1>6. iter = [d \in SUBSET (DOMAIN s) |-> Step(iter, d)]
  <2>1. f = [d \in SUBSET (DOMAIN s) |-> Step(f, d)]
    <3> HIDE DEF Step, n, s
    <3> QED
      BY <1>1, <1>5
  <2> HIDE DEF Step, s
  <2> QED
    BY <2>1
<1>7. \A d \in SUBSET (1..n) : iter[d] = Step(iter, d)
  <2> HIDE DEF Step, iter, n, s
  <2> QED
    BY <1>1, <1>6
<1>8. iter[1..0] = m
  <2>1. 1..0 \in SUBSET (1..n) /\ 1..0 = {}
    OBVIOUS
  <2>2. iter[1..0] = Step(iter, 1..0)
    <3> HIDE DEF Step, iter, n
    <3> QED
      BY <1>7, <2>1
  <2> HIDE DEF iter, Op
  <2> QED
    BY <2>1, <2>2
<1>9. ASSUME NEW k \in 1..n PROVE iter[1..k] = Op(iter[1..(k - 1)], s[k])
  <2>1. 1..k \in SUBSET (1..n) /\ Max(1..k) = k /\ (1..k) \ {k} = 1..(k - 1) /\ 1..k # {}
    <3> HIDE DEF n
    <3>1. n \in Nat
      BY <1>1
    <3>2. Max(1..k) = k /\ (1..k) \ {k} = 1..(k - 1) /\ 1..k # {}
      BY <3>1, MaxIs
    <3> QED
      BY <3>1, <3>2
  <2>2. iter[1..k] = Step(iter, 1..k)
    <3> HIDE DEF Step, iter, n
    <3> QED
      BY <1>7, <2>1
  <2> HIDE DEF iter, Op, n, s
  <2> QED
    BY <2>1, <2>2
<1>10. \A k \in 0..n : iter[1..k] \in V
  <2> HIDE DEF iter, n, s, Op
  <2>1. iter[1..0] \in V
    BY <1>8
  <2>2. ASSUME NEW k \in 1..n, iter[1..(k - 1)] \in V PROVE iter[1..k] \in V
    BY <1>1, <1>2, <1>9, <2>2
  <2> QED
    BY <1>1, <2>1, <2>2, FoldStays
<1>11. Scan(m, bs, branch, fUpdate) = iter[1..n]
  <2>1. Scan(m, bs, branch, fUpdate) = iter[DOMAIN s]
    BY DEF Scan, ScanOne, FoldLeft, MapThenFoldSet
  <2> HIDE DEF iter, n, s
  <2> QED
    BY <1>1, <2>1
<1> DEFINE h == [k \in 0..n |-> iter[1..k]]
<1>12. h[0] = m /\ h[n] = Scan(m, bs, branch, fUpdate) /\ \A k \in 0..n : h[k] \in V
  <2> HIDE DEF iter, n, s
  <2> QED
    BY <1>1, <1>8, <1>10, <1>11
<1>13. ASSUME NEW k \in 1..n PROVE h[k] = Op(h[k - 1], s[k])
  <2> HIDE DEF iter, n, s, Op
  <2>1. h[k] = iter[1..k] /\ h[k - 1] = iter[1..(k - 1)]
    BY <1>1
  <2> HIDE DEF h
  <2> QED
    BY <1>9, <2>1
<1> HIDE DEF h, iter
<1> QED
  BY <1>12, <1>13 DEF IsScan

LEMMA ScanKeeps ==
  ASSUME NEW K, NEW A, NEW X, NEW hashes, NEW coins, NEW at, Readable(K, A),
         NEW m \in Stored(K, A, X, hashes, coins, at), NEW Q, NEW bs, NEW branch \in Seq(Q),
         \A b \in Q : b \in A /\ bs[b].vtx \in Seq(K), NEW fUpdate,
         NEW T, Settles(T, at), \A b \in Range(branch) : \A t \in Range(bs[b].vtx) : <<t, b>> \in T
  PROVE  LET n == Scan(m, bs, branch, fUpdate) IN
         n \in Stored(K, A, X, hashes, coins, at) /\ Grows(m.w, n.w, T)
<1> DEFINE S == Stored(K, A, X, hashes, coins, at)
           V == {v \in S : Grows(m.w, v.w, T)}
           R == Range(branch)
<1>1. m \in V
  BY DEF Grows
<1>2. branch \in Seq(R) /\ R \subseteq Q
  BY SequenceOfRange, RangeIsWithin
<1>3. ASSUME NEW v \in V, NEW b \in R PROVE ScanOne(v, bs, b, fUpdate) \in V
  <2> DEFINE x == ScanOne(v, bs, b, fUpdate)
             vtx == bs[b].vtx
  <2>1. v \in S /\ Grows(m.w, v.w, T) /\ b \in A /\ vtx \in Seq(K) /\ \A t \in Range(vtx) : <<t, b>> \in T
    BY <1>2
  <2>2. x \in S /\ Grows(v.w, x.w, T)
    <3> HIDE DEF vtx
    <3>1. ScanBlock(v, b, vtx, fUpdate) \in S /\ Grows(v.w, ScanBlock(v, b, vtx, fUpdate).w, T)
      BY <2>1, ScanBlockKeeps
    <3> QED
      BY <3>1 DEF vtx, ScanOne
  <2> HIDE DEF x, S
  <2>3. Grows(m.w, x.w, T)
    BY <2>1, <2>2, GrowsOn
  <2> QED
    BY <2>2, <2>3 DEF x
<1>4. PICK h : IsScan(h, m, bs, branch, fUpdate, V)
  <2> HIDE DEF V, R
  <2>1. \A v \in V, b \in R : ScanOne(v, bs, b, fUpdate) \in V
    BY <1>3
  <2>2. branch \in Seq(R)
    BY <1>2
  <2> QED
    BY <1>1, <2>1, <2>2, ScanSteps
<1>5. h[Len(branch)] \in V
  <2>1. Len(branch) \in 0..Len(branch)
    OBVIOUS
  <2> HIDE DEF V
  <2> QED
    BY <1>4, <2>1 DEF IsScan
<1> QED
  BY <1>4, <1>5 DEF IsScan

\* As long as no places are asked for, a scan may be of anything.
LEMMA AnyScanKeeps ==
  ASSUME NEW K, NEW A, NEW X, NEW hashes, NEW coins, Readable(K, A),
         NEW m \in Stored(K, A, X, hashes, coins, NoPlaces), NEW Q, NEW bs, NEW branch \in Seq(Q),
         \A b \in Q : b \in A /\ bs[b].vtx \in Seq(K), NEW fUpdate
  PROVE  Scan(m, bs, branch, fUpdate) \in Stored(K, A, X, hashes, coins, NoPlaces)
<1> DEFINE T == K \X A
           none == NoPlaces
<1>1. Settles(T, none)
  BY DEF Settles, NoPlaces
<1>2. \A b \in Range(branch) : \A t \in Range(bs[b].vtx) : <<t, b>> \in T
  <2>1. \A b \in Range(branch) : b \in A /\ bs[b].vtx \in Seq(K)
    BY RangeIsWithin
  <2> QED
    BY <2>1, RangeIsWithin
<1> HIDE DEF T, none
<1>3. m \in Stored(K, A, X, hashes, coins, none)
  BY DEF none
<1>4. Scan(m, bs, branch, fUpdate) \in Stored(K, A, X, hashes, coins, none)
  BY <1>1, <1>2, <1>3, ScanKeeps
<1> QED
  BY <1>4 DEF none

----------------------------------------------------------------------------
(* What is in memory and in the file are functions of records.              *)

IsRecord(r) ==
  r = [block |-> r.block, spent |-> r.spent, prev |-> r.prev,
       nDebit |-> r.nDebit, nAvailableCredit |-> r.nAvailableCredit]
IsWallet(w, K) ==
  w = [t \in DOMAIN w |-> w[t]] /\ DOMAIN w \subseteq K /\ \A t \in DOMAIN w : IsRecord(w[t])

\* Whatever a record holds.
Content(w) ==
  UNION {w[t].spent \cup {w[t].block, w[t].prev, w[t].nDebit, w[t].nAvailableCredit} : t \in DOMAIN w}

LEMMA WalletIsTyped ==
  ASSUME NEW K, NEW A, NEW w
  PROVE  /\ IsWallet(w, K) /\ Content(w) \subseteq A => w \in Wallets(K, A)
         /\ w \in Wallets(K, A) => IsWallet(w, K)
<1>1. ASSUME IsWallet(w, K), Content(w) \subseteq A PROVE w \in Wallets(K, A)
  <2>1. ASSUME NEW t \in DOMAIN w PROVE w[t] \in Wtxs(A)
    <3> DEFINE r == w[t]
    <3>1. /\ r.spent \subseteq A /\ r.block \in A /\ r.prev \in A /\ r.nDebit \in A
          /\ r.nAvailableCredit \in A
      BY <1>1 DEF Content
    <3>2. IsRecord(r)
      BY <1>1 DEF IsWallet
    <3> HIDE DEF r
    <3>3. [block |-> r.block, spent |-> r.spent, prev |-> r.prev,
           nDebit |-> r.nDebit, nAvailableCredit |-> r.nAvailableCredit] \in Wtxs(A)
      BY <3>1 DEF Wtxs
    <3>4. r \in Wtxs(A)
      BY <3>2, <3>3 DEF IsRecord
    <3> QED
      BY <3>4 DEF r
  <2>2. w = [t \in DOMAIN w |-> w[t]] /\ DOMAIN w \subseteq K
    BY <1>1 DEF IsWallet
  <2>3. w \in [DOMAIN w -> Wtxs(A)]
    BY <2>1, <2>2
  <2> QED
    BY <2>2, <2>3, WalletsAre
<1>2. ASSUME w \in Wallets(K, A) PROVE IsWallet(w, K)
  <2>1. DOMAIN w \subseteq K /\ w \in [DOMAIN w -> Wtxs(A)]
    BY <1>2, WalletsAre
  <2>2. ASSUME NEW t \in DOMAIN w PROVE IsRecord(w[t])
    <3>1. w[t] \in Wtxs(A)
      BY <2>1
    <3> QED
      BY <3>1 DEF IsRecord, Wtxs
  <2> QED
    BY <2>1, <2>2 DEF IsWallet
<1> QED
  BY <1>1, <1>2

\* What an operation starts from.
LEMMA InMemoryIsStored ==
  ASSUME NEW K, NEW A, NEW X, NEW hashes, NEW coins, NEW at, NEW w \in Wallets(K, A),
         NEW f \in Files(K, A, X), Same(w, f.txs),
         Has(w, hashes, coins, at), Has(f.txs, hashes, coins, at)
  PROVE  InMemory(w, f) \in Stored(K, A, X, hashes, coins, at)
<1> DEFINE m == [w |-> w, files |-> <<f>>, refused |-> {}, faults |-> {}]
<1>1. m.w = w /\ m.files = <<f>> /\ m \in [w: Wallets(K, A), files: Seq(Files(K, A, X)), refused: {{}}, faults: {{}}]
  OBVIOUS
<1>2. Last(<<f>>) = f
  BY DEF Last
<1>3. \A i \in DOMAIN <<f>> : <<f>>[i] = f
  OBVIOUS
<1>6. \A i \in DOMAIN m.files : m.files[i].txs = f.txs
  BY <1>1, <1>3
<1>7. m.files # <<>>
  BY <1>1
<1> HIDE DEF m
<1>4. m \in Updates(K, A, X, hashes, coins, at)
  BY <1>1, <1>6, <1>7 DEF Updates
<1>5. m \in Stored(K, A, X, hashes, coins, at)
  BY <1>1, <1>2, <1>4 DEF Stored
<1> QED
  BY <1>5 DEF InMemory, m

\* And what it ends with.
LEMMA StoredIs ==
  ASSUME NEW K, NEW A, NEW X, NEW hashes, NEW coins, NEW at, NEW m \in Stored(K, A, X, hashes, coins, at)
  PROVE  /\ m.w \in Wallets(K, A) /\ Has(m.w, hashes, coins, at)
         /\ Last(m.files) \in Range(m.files) /\ Same(m.w, Last(m.files).txs)
         /\ \A f \in Range(m.files) : f \in Files(K, A, X) /\ Has(f.txs, hashes, coins, at)
<1>1. /\ m \in [w: Wallets(K, A), files: Seq(Files(K, A, X)), refused: {{}}, faults: {{}}] /\ m.files # <<>>
      /\ Has(m.w, hashes, coins, at) /\ \A i \in DOMAIN m.files : Has(m.files[i].txs, hashes, coins, at)
      /\ Same(m.w, Last(m.files).txs)
  BY DEF Stored, Updates
<1>2. m.w \in Wallets(K, A) /\ m.files \in Seq(Files(K, A, X))
  BY <1>1
<1>3. Last(m.files) \in Range(m.files)
  <2>1. Len(m.files) \in DOMAIN m.files /\ Last(m.files) = m.files[Len(m.files)]
    BY <1>1, <1>2, LastIs
  <2> QED
    BY <2>1 DEF Range
<1>4. ASSUME NEW f \in Range(m.files) PROVE f \in Files(K, A, X) /\ Has(f.txs, hashes, coins, at)
  <2>1. PICK i \in DOMAIN m.files : f = m.files[i]
    BY DEF Range
  <2>2. m.files[i] \in Files(K, A, X)
    BY <1>2
  <2> QED
    BY <1>1, <2>1, <2>2
<1> QED
  BY <1>1, <1>2, <1>3, <1>4

----------------------------------------------------------------------------
(* Finite sets of transactions and of coins.                               *)

LEMMA RangeIsFinite ==
  ASSUME NEW S, NEW s \in Seq(S)
  PROVE  IsFiniteSet(Range(s)) /\ Range(s) \subseteq S
<1> DEFINE n == Len(s)
<1>1. n \in Nat /\ DOMAIN s = 1..n /\ \A i \in DOMAIN s : s[i] \in S
  OBVIOUS
<1>2. IsFiniteSet(1..n)
  <2> HIDE DEF n
  <2> QED
    BY <1>1, FS_Interval
<1>3. IsFiniteSet({s[i] : i \in 1..n})
  <2> HIDE DEF n
  <2> QED
    BY <1>2, ImageIsFinite
<1>4. Range(s) = {s[i] : i \in 1..n}
  BY <1>1 DEF Range
<1>5. Range(s) \subseteq S
  BY <1>1 DEF Range
<1> QED
  BY <1>3, <1>4, <1>5

LEMMA SpentIsFinite ==
  ASSUME NEW K, NEW A, Readable(K, A), NEW txs \in SUBSET K, IsFiniteSet(txs)
  PROVE  IsFiniteSet(SpentBy(txs)) /\ \A p \in SpentBy(txs) : p[2] \in A
<1> DEFINE f == [t \in txs |-> Inputs(t)]
<1>1. ASSUME NEW t \in txs PROVE IsFiniteSet(Inputs(t)) /\ \A p \in Inputs(t) : p[2] \in A
  <2>1. PICK Q : Transaction(t).vin \in Seq(Q) /\ \A q \in Q : q[2] \in A
    BY DEF Readable
  <2>2. IsFiniteSet(Range(Transaction(t).vin)) /\ Range(Transaction(t).vin) \subseteq Q
    BY <2>1, RangeIsFinite
  <2> QED
    BY <2>1, <2>2 DEF Inputs
<1> DEFINE all == {f[t] : t \in txs}
<1>2. IsFiniteSet(all)
  <2> HIDE DEF f
  <2> QED
    BY ImageIsFinite
<1>3. \A T \in all : IsFiniteSet(T)
  BY <1>1
<1>4. IsFiniteSet(UNION all)
  <2> HIDE DEF all
  <2> QED
    BY <1>2, <1>3, FS_UNION
<1>5. SpentBy(txs) = UNION all
  BY DEF SpentBy
<1>6. \A p \in SpentBy(txs) : p[2] \in A
  BY <1>1 DEF SpentBy
<1> QED
  BY <1>4, <1>5, <1>6

\* The transactions of a branch.
LEMMA ConfirmedIsKnown ==
  ASSUME NEW K, NEW Q, NEW branch \in Seq(Q), \A b \in Q : blocks[b].vtx \in Seq(K)
  PROVE  TxsOf(branch) \in SUBSET K
<1>1. \A b \in Range(branch) : b \in Q
  BY RangeIsFinite
<1>2. \A b \in Range(branch) : Range(blocks[b].vtx) \subseteq K
  BY <1>1, RangeIsFinite
<1> QED
  BY <1>2 DEF TxsOf

----------------------------------------------------------------------------
(* Start: the outputs that were overlooked are marked, over and over.       *)

LEMMA MarksKeep ==
  ASSUME NEW K, NEW A, NEW X, NEW hashes, NEW coins, NEW at, -1 \in A,
         NEW m \in Stored(K, A, X, hashes, coins, at),
         NEW Q, \A q \in Q : q[1] \in DOMAIN m.w /\ q[2] \in A, NEW all \in Seq(Q)
  PROVE  FoldLeft(SpendCoin, m, all) \in Stored(K, A, X, hashes, coins, at)
<1> DEFINE s == all
           n == Len(s)
           V == {v \in Stored(K, A, X, hashes, coins, at) : DOMAIN v.w = DOMAIN m.w}
           Op(v, p) == SpendCoin(v, p)
           G == [i \in 1..n |-> [v \in V |-> Op(v, s[i])]]
           Step(h, d) == IF d = {} THEN m ELSE Op(h[d \ {Max(d)}], s[Max(d)])
           iter == CHOOSE h : h = [d \in SUBSET (DOMAIN s) |-> Step(h, d)]
<1>1. n \in Nat /\ DOMAIN s = 1..n /\ \A i \in 1..n : s[i] \in Q
  OBVIOUS
<1>2. ASSUME NEW v \in V, NEW p \in Q PROVE Op(v, p) \in V
  BY SpendKeeps
<1>3. IsRule(G, 1..n, V) /\ m \in V
  <2>1. m \in V
    BY DEF V
  <2> HIDE DEF Op, V, n, s
  <2> QED
    BY <1>1, <1>2, <2>1 DEF IsRule
<1>4. PICK f \in [SUBSET (1..n) -> V] : IsFoldLeft(f, n, m, G)
  <2> HIDE DEF G, V, n
  <2> QED
    BY <1>1, <1>3, FoldRecursion
<1>5. ASSUME NEW d \in SUBSET (1..n) PROVE f[d] = Step(f, d)
  <2>1. CASE d # {}
    <3>1. Max(d) \in 1..n /\ d \ {Max(d)} \in SUBSET (1..n)
      <4> HIDE DEF n
      <4> QED
        BY <1>1, <2>1, MaxIs
    <3>2. f[d \ {Max(d)}] \in V
      BY <3>1
    <3>3. f[d] = G[Max(d)][f[d \ {Max(d)}]]
      <4> HIDE DEF G, V, n
      <4> QED
        BY <1>4, <2>1 DEF IsFoldLeft
    <3> HIDE DEF Op, V, n, s
    <3> QED
      BY <2>1, <3>1, <3>2, <3>3
  <2>2. CASE d = {}
    <3> HIDE DEF G, V, n
    <3> QED
      BY <1>4, <2>2 DEF IsFoldLeft
  <2> QED
    BY <2>1, <2>2
<1>6. iter = [d \in SUBSET (DOMAIN s) |-> Step(iter, d)]
  <2>1. f = [d \in SUBSET (DOMAIN s) |-> Step(f, d)]
    <3> HIDE DEF Step, n, V, s
    <3> QED
      BY <1>1, <1>5
  <2> HIDE DEF Step, s
  <2> QED
    BY <2>1
<1>7. \A d \in SUBSET (1..n) : iter[d] = Step(iter, d)
  <2> HIDE DEF Step, iter, n, s
  <2> QED
    BY <1>1, <1>6
<1>8. iter[1..0] = m
  <2>1. 1..0 \in SUBSET (1..n) /\ 1..0 = {}
    OBVIOUS
  <2>2. iter[1..0] = Step(iter, 1..0)
    <3> HIDE DEF Step, iter, n
    <3> QED
      BY <1>7, <2>1
  <2> HIDE DEF iter, Op
  <2> QED
    BY <2>1, <2>2
<1>9. ASSUME NEW k \in 1..n PROVE iter[1..k] = Op(iter[1..(k - 1)], s[k])
  <2>1. 1..k \in SUBSET (1..n) /\ Max(1..k) = k /\ (1..k) \ {k} = 1..(k - 1) /\ 1..k # {}
    <3> HIDE DEF n
    <3>1. n \in Nat
      BY <1>1
    <3>2. Max(1..k) = k /\ (1..k) \ {k} = 1..(k - 1) /\ 1..k # {}
      BY <3>1, MaxIs
    <3> QED
      BY <3>1, <3>2
  <2>2. iter[1..k] = Step(iter, 1..k)
    <3> HIDE DEF Step, iter, n
    <3> QED
      BY <1>7, <2>1
  <2> HIDE DEF iter, Op, n, s
  <2> QED
    BY <2>1, <2>2
<1>10. \A k \in 0..n : iter[1..k] \in V
  <2> HIDE DEF iter, V, n, s, Op
  <2>1. iter[1..0] \in V
    BY <1>3, <1>8
  <2>2. ASSUME NEW k \in 1..n, iter[1..(k - 1)] \in V PROVE iter[1..k] \in V
    BY <1>1, <1>2, <1>9, <2>2
  <2> QED
    BY <1>1, <2>1, <2>2, FoldStays
<1>11. FoldLeft(SpendCoin, m, all) = iter[1..n]
  <2>1. FoldLeft(SpendCoin, m, all) = iter[DOMAIN s]
    BY DEF FoldLeft, MapThenFoldSet
  <2> HIDE DEF iter, n, s
  <2> QED
    BY <1>1, <2>1
<1> HIDE DEF iter, n, s
<1> QED
  BY <1>1, <1>10, <1>11

LEMMA ReacceptOnceKeeps ==
  ASSUME NEW K, NEW A, NEW X, NEW hashes, NEW coins, Readable(K, A), IsFiniteSet(K),
         NEW m \in Stored(K, A, X, hashes, coins, NoPlaces), NEW Q, Main \in Seq(Q),
         \A b \in Q : b \in A /\ blocks[b].vtx \in Seq(K)
  PROVE  ReacceptOnce(m) \in Stored(K, A, X, hashes, coins, NoPlaces)
<1> DEFINE confirmed == Confirmed
           all == UNION {Overlooked(m.w, t, confirmed) : t \in DOMAIN m.w}
           marked == FoldLeft(SpendCoin, m, SetToSeq(all))
<1>0. -1 \in A
  BY DEF Readable
<1>1. confirmed \in SUBSET K /\ IsFiniteSet(confirmed)
  <2>1. confirmed \in SUBSET K
    BY ConfirmedIsKnown DEF Confirmed
  <2> HIDE DEF confirmed
  <2> QED
    BY <2>1, FS_Subset
<1>2. IsFiniteSet(SpentBy(confirmed)) /\ \A p \in SpentBy(confirmed) : p[2] \in A
  <2> HIDE DEF confirmed
  <2> QED
    BY <1>1, SpentIsFinite
<1>3. all \in SUBSET SpentBy(confirmed) /\ \A p \in all : p[1] \in DOMAIN m.w
  BY DEF Overlooked
<1>4. IsFiniteSet(all) /\ \A p \in all : p[1] \in DOMAIN m.w /\ p[2] \in A
  <2> HIDE DEF all, confirmed
  <2> QED
    BY <1>2, <1>3, FS_Subset
<1>5. marked \in Stored(K, A, X, hashes, coins, NoPlaces)
  <2> HIDE DEF all
  <2>1. SetToSeq(all) \in Seq(all)
    BY <1>4, SetToSeqIs
  <2> QED
    BY <1>0, <1>4, <2>1, MarksKeep
<1>6. Scan(marked, blocks, Main, FALSE) \in Stored(K, A, X, hashes, coins, NoPlaces)
  <2> HIDE DEF marked
  <2> QED
    BY <1>5, AnyScanKeeps
<1> HIDE DEF marked, all
<1> QED
  BY <1>6 DEF ReacceptOnce, marked, all, confirmed

LEMMA ReacceptSteps ==
  ASSUME NEW V, NEW m \in V, \A v \in V : ReacceptOnce(v) \in V, IsFiniteSet(Confirmed)
  PROVE  ReacceptWalletTransactions(m) \in V
<1> DEFINE s == [i \in 1..Cardinality(Confirmed) |-> i]
           n == Len(s)
           Op(v, p) == ReacceptOnce(v)
           G == [i \in 1..n |-> [v \in V |-> Op(v, s[i])]]
           Step(h, d) == IF d = {} THEN m ELSE Op(h[d \ {Max(d)}], s[Max(d)])
           iter == CHOOSE h : h = [d \in SUBSET (DOMAIN s) |-> Step(h, d)]
<1>1. n \in Nat /\ DOMAIN s = 1..n /\ \A i \in 1..n : s[i] \in Nat
  <2> DEFINE c == Cardinality(Confirmed)
  <2>2. c \in Nat
    BY FS_CardinalityType
  <2>3. s = [i \in 1..c |-> i]
    OBVIOUS
  <2> HIDE DEF c, s
  <2> QED
    BY <2>2, <2>3
<1>2. ASSUME NEW v \in V, NEW p \in Nat PROVE Op(v, p) \in V
  OBVIOUS
<1>3. IsRule(G, 1..n, V) /\ m \in V
  <2> HIDE DEF Op, n, s
  <2> QED
    BY <1>1, <1>2 DEF IsRule
<1>4. PICK f \in [SUBSET (1..n) -> V] : IsFoldLeft(f, n, m, G)
  <2> HIDE DEF G, n
  <2> QED
    BY <1>1, <1>3, FoldRecursion
<1>5. ASSUME NEW d \in SUBSET (1..n) PROVE f[d] = Step(f, d)
  <2>1. CASE d # {}
    <3>1. Max(d) \in 1..n /\ d \ {Max(d)} \in SUBSET (1..n)
      <4> HIDE DEF n
      <4> QED
        BY <1>1, <2>1, MaxIs
    <3>2. f[d \ {Max(d)}] \in V
      BY <3>1
    <3>3. f[d] = G[Max(d)][f[d \ {Max(d)}]]
      <4> HIDE DEF G, n
      <4> QED
        BY <1>4, <2>1 DEF IsFoldLeft
    <3> HIDE DEF Op, n, s
    <3> QED
      BY <2>1, <3>1, <3>2, <3>3
  <2>2. CASE d = {}
    <3> HIDE DEF G, n
    <3> QED
      BY <1>4, <2>2 DEF IsFoldLeft
  <2> QED
    BY <2>1, <2>2
<1>6. iter = [d \in SUBSET (DOMAIN s) |-> Step(iter, d)]
  <2>1. f = [d \in SUBSET (DOMAIN s) |-> Step(f, d)]
    <3> HIDE DEF Step, n, s
    <3> QED
      BY <1>1, <1>5
  <2> HIDE DEF Step, s
  <2> QED
    BY <2>1
<1>7. \A d \in SUBSET (1..n) : iter[d] = Step(iter, d)
  <2> HIDE DEF Step, iter, n, s
  <2> QED
    BY <1>1, <1>6
<1>8. iter[1..0] = m
  <2>1. 1..0 \in SUBSET (1..n) /\ 1..0 = {}
    OBVIOUS
  <2>2. iter[1..0] = Step(iter, 1..0)
    <3> HIDE DEF Step, iter, n
    <3> QED
      BY <1>7, <2>1
  <2> HIDE DEF iter, Op
  <2> QED
    BY <2>1, <2>2
<1>9. ASSUME NEW k \in 1..n PROVE iter[1..k] = Op(iter[1..(k - 1)], s[k])
  <2>1. 1..k \in SUBSET (1..n) /\ Max(1..k) = k /\ (1..k) \ {k} = 1..(k - 1) /\ 1..k # {}
    <3> HIDE DEF n
    <3>1. n \in Nat
      BY <1>1
    <3>2. Max(1..k) = k /\ (1..k) \ {k} = 1..(k - 1) /\ 1..k # {}
      BY <3>1, MaxIs
    <3> QED
      BY <3>1, <3>2
  <2>2. iter[1..k] = Step(iter, 1..k)
    <3> HIDE DEF Step, iter, n
    <3> QED
      BY <1>7, <2>1
  <2> HIDE DEF iter, Op, n, s
  <2> QED
    BY <2>1, <2>2
<1>10. \A k \in 0..n : iter[1..k] \in V
  <2> HIDE DEF iter, n, s, Op
  <2>1. iter[1..0] \in V
    BY <1>3, <1>8
  <2>2. ASSUME NEW k \in 1..n, iter[1..(k - 1)] \in V PROVE iter[1..k] \in V
    <3>1. s[k] \in Nat /\ iter[1..k] = Op(iter[1..(k - 1)], s[k])
      BY <1>1, <1>9
    <3> QED
      BY <1>2, <2>2, <3>1
  <2> QED
    BY <1>1, <2>1, <2>2, FoldStays
<1>11. ReacceptWalletTransactions(m) = iter[1..n]
  <2>1. ReacceptWalletTransactions(m) = iter[DOMAIN s]
    BY DEF ReacceptWalletTransactions, FoldLeft, MapThenFoldSet
  <2> HIDE DEF iter, n, s
  <2> QED
    BY <1>1, <2>1
<1> HIDE DEF iter, n, s
<1> QED
  BY <1>1, <1>10, <1>11

LEMMA ReacceptKeeps ==
  ASSUME NEW K, NEW A, NEW X, NEW hashes, NEW coins, Readable(K, A), IsFiniteSet(K),
         NEW m \in Stored(K, A, X, hashes, coins, NoPlaces), NEW Q, Main \in Seq(Q),
         \A b \in Q : b \in A /\ blocks[b].vtx \in Seq(K)
  PROVE  ReacceptWalletTransactions(m) \in Stored(K, A, X, hashes, coins, NoPlaces)
<1> DEFINE V == Stored(K, A, X, hashes, coins, NoPlaces)
<1>1. \A v \in V : ReacceptOnce(v) \in V
  BY ReacceptOnceKeeps
<1>2. IsFiniteSet(Confirmed)
  BY ConfirmedIsKnown, FS_Subset DEF Confirmed
<1>3. m \in V
  OBVIOUS
<1> HIDE DEF V
<1>4. ReacceptWalletTransactions(m) \in V
  BY <1>1, <1>2, <1>3, ReacceptSteps
<1> QED
  BY <1>4 DEF V

----------------------------------------------------------------------------
(* A payment is committed: its coins are marked one after the other.        *)

DirtySpend(m, p) == SpendCoin([m EXCEPT !.w[p[1]] = MarkDirty(@)], p)

LEMMA DirtySpendKeeps ==
  ASSUME NEW K, NEW A, NEW X, NEW hashes, NEW coins, NEW at, -1 \in A,
         NEW m \in Stored(K, A, X, hashes, coins, at), NEW p, p[1] \in hashes, p[2] \in A
  PROVE  /\ DirtySpend(m, p) \in Stored(K, A, X, hashes, coins, at)
         /\ \A others : SpentInBoth(m, others) => SpentInBoth(DirtySpend(m, p), others \cup {p})
<1> DEFINE t == p[1]
           r == MarkDirty(m.w[t])
           v == [m.w EXCEPT ![t] = r]
           c == [m EXCEPT !.w = v]
<1>1. m \in Updates(K, A, X, hashes, coins, at) /\ Same(m.w, Last(m.files).txs)
  BY DEF Stored
<1>2. /\ m \in [w: Wallets(K, A), files: Seq(Files(K, A, X)), refused: {{}}, faults: {{}}]
      /\ m.w \in Wallets(K, A) /\ hashes \subseteq DOMAIN m.w
  BY <1>1 DEF Updates, Has
<1>3. t \in DOMAIN m.w /\ m.w[t] \in Wtxs(A) /\ t \in K
  BY <1>2, WalletsAre
<1>4. r \in Wtxs(A) /\ r.spent = m.w[t].spent /\ r.block = m.w[t].block
  BY <1>3, RecordsChange
<1>5. v \in Wallets(K, A) /\ IsPut(v, m.w, t, r) /\ Grows(m.w, v, NoPlaces)
  <2> HIDE DEF r
  <2>1. v \in Wallets(K, A) /\ IsPut(v, m.w, t, r)
    BY <1>2, <1>3, <1>4, RecordIsChanged
  <2> HIDE DEF v
  <2> QED
    BY <1>3, <1>4, <2>1, PutGrows
<1>6. /\ c \in Updates(K, A, X, hashes, coins, at) /\ c.w = v /\ c.files = m.files
      /\ \A others : SpentInBoth(m, others) => SpentInBoth(c, others)
  <2> HIDE DEF r, v, t
  <2>1. Settles(NoPlaces, at)
    BY DEF Settles, NoPlaces
  <2> QED
    BY <1>1, <1>5, <2>1, MemoryChanges
<1>7. DOMAIN v = DOMAIN m.w /\ Same(v, Last(m.files).txs)
  <2>1. DOMAIN v = DOMAIN m.w
    BY <1>3
  <2>2. \A u \in DOMAIN v : v[u].spent = m.w[u].spent /\ v[u].block = m.w[u].block
    <3> HIDE DEF v, r
    <3> QED
      BY <1>3, <1>4, <1>5, <2>1 DEF IsPut
  <2> HIDE DEF v, r
  <2> QED
    BY <1>1, <2>1, <2>2 DEF Same
<1>8. c \in Stored(K, A, X, hashes, coins, at) /\ t \in DOMAIN c.w
  <2> HIDE DEF c, v, r, t
  <2> QED
    BY <1>1, <1>3, <1>6, <1>7 DEF Stored
<1>9. DirtySpend(m, p) = SpendCoin(c, p)
  BY <1>2 DEF DirtySpend
<1>10. /\ SpendCoin(c, p) \in Stored(K, A, X, hashes, coins, at)
       /\ \A others : SpentInBoth(c, others) => SpentInBoth(SpendCoin(c, p), others \cup {p})
  <2> HIDE DEF c, v, r
  <2> QED
    BY <1>8, SpendKeeps
<1> HIDE DEF c
<1> QED
  BY <1>6, <1>9, <1>10

LEMMA PaymentIsMarked ==
  ASSUME NEW K, NEW A, NEW X, NEW hashes, NEW coins, NEW at, -1 \in A,
         NEW m \in Stored(K, A, X, hashes, coins, at),
         NEW Q, \A q \in Q : q[1] \in hashes /\ q[2] \in A, NEW vin \in Seq(Q)
  PROVE  /\ FoldLeft(DirtySpend, m, vin) \in Stored(K, A, X, hashes, coins, at)
         /\ SpentInBoth(FoldLeft(DirtySpend, m, vin), Range(vin))
<1> DEFINE s == vin
           n == Len(s)
           V == Stored(K, A, X, hashes, coins, at)
           Op(v, p) == DirtySpend(v, p)
           G == [i \in 1..n |-> [v \in V |-> Op(v, s[i])]]
           Step(h, d) == IF d = {} THEN m ELSE Op(h[d \ {Max(d)}], s[Max(d)])
           iter == CHOOSE h : h = [d \in SUBSET (DOMAIN s) |-> Step(h, d)]
<1>1. n \in Nat /\ DOMAIN s = 1..n /\ \A i \in 1..n : s[i] \in Q
  OBVIOUS
<1>2. ASSUME NEW v \in V, NEW p \in Q PROVE Op(v, p) \in V
  BY DirtySpendKeeps
<1>3. IsRule(G, 1..n, V) /\ m \in V
  <2>1. m \in V
    BY DEF V
  <2> HIDE DEF Op, V, n, s
  <2> QED
    BY <1>1, <1>2, <2>1 DEF IsRule
<1>4. PICK f \in [SUBSET (1..n) -> V] : IsFoldLeft(f, n, m, G)
  <2> HIDE DEF G, V, n
  <2> QED
    BY <1>1, <1>3, FoldRecursion
<1>5. ASSUME NEW d \in SUBSET (1..n) PROVE f[d] = Step(f, d)
  <2>1. CASE d # {}
    <3>1. Max(d) \in 1..n /\ d \ {Max(d)} \in SUBSET (1..n)
      <4> HIDE DEF n
      <4> QED
        BY <1>1, <2>1, MaxIs
    <3>2. f[d \ {Max(d)}] \in V
      BY <3>1
    <3>3. f[d] = G[Max(d)][f[d \ {Max(d)}]]
      <4> HIDE DEF G, V, n
      <4> QED
        BY <1>4, <2>1 DEF IsFoldLeft
    <3> HIDE DEF Op, V, n, s
    <3> QED
      BY <2>1, <3>1, <3>2, <3>3
  <2>2. CASE d = {}
    <3> HIDE DEF G, V, n
    <3> QED
      BY <1>4, <2>2 DEF IsFoldLeft
  <2> QED
    BY <2>1, <2>2
<1>6. iter = [d \in SUBSET (DOMAIN s) |-> Step(iter, d)]
  <2>1. f = [d \in SUBSET (DOMAIN s) |-> Step(f, d)]
    <3> HIDE DEF Step, n, V, s
    <3> QED
      BY <1>1, <1>5
  <2> HIDE DEF Step, s
  <2> QED
    BY <2>1
<1>7. \A d \in SUBSET (1..n) : iter[d] = Step(iter, d)
  <2> HIDE DEF Step, iter, n, s
  <2> QED
    BY <1>1, <1>6
<1>8. iter[1..0] = m
  <2>1. 1..0 \in SUBSET (1..n) /\ 1..0 = {}
    OBVIOUS
  <2>2. iter[1..0] = Step(iter, 1..0)
    <3> HIDE DEF Step, iter, n
    <3> QED
      BY <1>7, <2>1
  <2> HIDE DEF iter, Op
  <2> QED
    BY <2>1, <2>2
<1>9. ASSUME NEW k \in 1..n PROVE iter[1..k] = Op(iter[1..(k - 1)], s[k])
  <2>1. 1..k \in SUBSET (1..n) /\ Max(1..k) = k /\ (1..k) \ {k} = 1..(k - 1) /\ 1..k # {}
    <3> HIDE DEF n
    <3>1. n \in Nat
      BY <1>1
    <3>2. Max(1..k) = k /\ (1..k) \ {k} = 1..(k - 1) /\ 1..k # {}
      BY <3>1, MaxIs
    <3> QED
      BY <3>1, <3>2
  <2>2. iter[1..k] = Step(iter, 1..k)
    <3> HIDE DEF Step, iter, n
    <3> QED
      BY <1>7, <2>1
  <2> HIDE DEF iter, Op, n, s
  <2> QED
    BY <2>1, <2>2
<1>10. \A k \in 0..n : iter[1..k] \in V
  <2> HIDE DEF iter, V, n, s, Op
  <2>1. iter[1..0] \in V
    BY <1>3, <1>8
  <2>2. ASSUME NEW k \in 1..n, iter[1..(k - 1)] \in V PROVE iter[1..k] \in V
    BY <1>1, <1>2, <1>9, <2>2
  <2> QED
    BY <1>1, <2>1, <2>2, FoldStays
<1>11. FoldLeft(DirtySpend, m, vin) = iter[1..n]
  <2>1. FoldLeft(DirtySpend, m, vin) = iter[DOMAIN s]
    BY DEF FoldLeft, MapThenFoldSet
  <2> HIDE DEF iter, n, s
  <2> QED
    BY <1>1, <2>1
<1> DEFINE first == [k \in 0..n |-> {s[j] : j \in 1..k}]
           T == {k \in 0..n : SpentInBoth(iter[1..k], first[k])}
<1>12. 0 \in T
  <2>1. first[0] = {} /\ 0 \in 0..n
    BY <1>1
  <2> HIDE DEF first, iter, n
  <2> QED
    BY <2>1 DEF SpentInBoth, Marked
<1>13. ASSUME NEW k \in 1..n, k - 1 \in T PROVE k \in T
  <2>1. first[k] = first[k - 1] \cup {s[k]} /\ k \in 0..n /\ k - 1 \in 0..n
    BY <1>1
  <2>2. iter[1..(k - 1)] \in V /\ s[k] \in Q
    <3> HIDE DEF iter, V, n, s
    <3> QED
      BY <1>1, <1>10, <2>1
  <2>3. SpentInBoth(iter[1..(k - 1)], first[k - 1])
    BY <1>13
  <2>4. SpentInBoth(DirtySpend(iter[1..(k - 1)], s[k]), first[k - 1] \cup {s[k]})
    <3> HIDE DEF first, iter, n, s
    <3> QED
      BY <2>2, <2>3, DirtySpendKeeps
  <2> HIDE DEF first, iter, n, s
  <2> QED
    BY <1>9, <2>1, <2>4
<1>14. n \in T
  <2>1. 0..n \subseteq T
    <3> HIDE DEF T, n
    <3> QED
      BY <1>1, <1>12, <1>13, CountInduction
  <2> HIDE DEF T, n
  <2> QED
    BY <1>1, <2>1
<1>15. first[n] = Range(s)
  BY <1>1 DEF Range
<1> HIDE DEF iter, n, s, first
<1>16. SpentInBoth(iter[1..n], Range(s))
  BY <1>14, <1>15
<1> QED
  BY <1>1, <1>10, <1>11, <1>16 DEF s

LEMMA CommittedKeeps ==
  ASSUME NEW K, NEW A, NEW X, NEW hashes, NEW coins, NEW at, Readable(K, A),
         NEW m \in Stored(K, A, X, hashes, coins, at), NEW t \in K, made[t].prev \in A,
         NEW Q, \A q \in Q : q[1] \in hashes /\ q[2] \in A, made[t].vin \in Seq(Q),
         \A p \in at : p[1] # t
  PROVE  /\ Committed(m, t) \in Stored(K, A, X, hashes, coins, at)
         /\ SpentInBoth(Committed(m, t), Range(made[t].vin))
<1>0. -1 \in A /\ 0 \in A /\ {} \in A
  BY DEF Readable
<1>1. WalletTx(0, made[t].prev) \in Wtxs(A)
  BY <1>0 DEF WalletTx, Wtxs
<1>2. AddToWallet(m, t, WalletTx(0, made[t].prev)) \in Stored(K, A, X, hashes, coins, at)
  <2> DEFINE wtx == WalletTx(0, made[t].prev)
             T == {<<t, wtx.block>>}
  <2>1. Settles(T, at) /\ <<t, wtx.block>> \in T
    BY DEF Settles
  <2>2. wtx \in Wtxs(A)
    BY <1>1
  <2> HIDE DEF T, wtx
  <2>3. AddToWallet(m, t, wtx) \in Stored(K, A, X, hashes, coins, at)
    BY <2>1, <2>2, AddKeeps
  <2> QED
    BY <2>3 DEF wtx
<1>3. Committed(m, t) = FoldLeft(DirtySpend, AddToWallet(m, t, WalletTx(0, made[t].prev)), made[t].vin)
  BY DEF Committed, DirtySpend, FoldLeft, MapThenFoldSet
<1> QED
  BY <1>0, <1>2, <1>3, PaymentIsMarked

----------------------------------------------------------------------------
(* Branches.                                                               *)

\* Every block goes on from an earlier one, and all from the first.
IsTree(bs) ==
  \A b \in DOMAIN bs : bs[b].prev \in 0..(b - 1) /\ (bs[b].prev = 0 => b = 1)

LEMMA TreeGrounded ==
  ASSUME NEW R, NEW bs \in Seq(R), IsTree(bs)
  PROVE  Grounded(0..Len(bs), 0, [b \in 0..Len(bs) |-> IF b = 0 THEN 0 ELSE bs[b].prev])
<1> DEFINE D == 0..Len(bs)
           p == [b \in D |-> IF b = 0 THEN 0 ELSE bs[b].prev]
<1>1. Len(bs) \in Nat /\ DOMAIN bs = 1..Len(bs)
  OBVIOUS
<1>2. \A b \in D \ {0} : b \in DOMAIN bs /\ p[b] \in 0..(b - 1) /\ p[b] \in D
  <2> SUFFICES ASSUME NEW b \in D \ {0} PROVE b \in DOMAIN bs /\ p[b] \in 0..(b - 1) /\ p[b] \in D
    OBVIOUS
  <2>1. b \in DOMAIN bs /\ b \in 1..Len(bs)
    BY <1>1
  <2>2. bs[b].prev \in 0..(b - 1)
    BY <2>1 DEF IsTree
  <2> QED
    BY <1>1, <2>1, <2>2
<1>3. ASSUME NEW S \in SUBSET D, S # {} PROVE \E x \in S : x = 0 \/ p[x] \notin S
  <2>1. PICK x \in S : \A y \in S : x <= y
    <3>1. S \subseteq Nat
      BY <1>1
    <3> QED
      BY <1>3, <3>1, LeastNumber
  <2>2. CASE x # 0
    <3>1. p[x] \in 0..(x - 1) /\ x \in Nat
      BY <1>1, <1>2, <2>2
    <3>2. p[x] \notin S
      <4> HIDE DEF p
      <4> QED
        BY <2>1, <3>1
    <3> QED
      BY <3>2
  <2> QED
    BY <2>2
<1> HIDE DEF p
<1>4. 0 \in D /\ \A b \in D \ {0} : p[b] \in D
  BY <1>1, <1>2
<1> HIDE DEF D
<1>5. Grounded(D, 0, p)
  BY <1>3, <1>4 DEF Grounded
<1> QED
  BY <1>5 DEF D, p

\* They are sequences of blocks, and the first block is in each.
LEMMA BranchesWalk ==
  ASSUME NEW R, NEW bs \in Seq(R), IsTree(bs)
  PROVE  /\ \A b \in DOMAIN bs : Branches(bs)[b] \in Seq(DOMAIN bs) /\ 1 \in Range(Branches(bs)[b])
         /\ Branches(bs)[0] = <<>>
         /\ \A b \in DOMAIN bs : Branches(bs)[b] = Append(Branches(bs)[bs[b].prev], b)
<1> DEFINE n == Len(bs)
           D == 0..n
           V == Seq(DOMAIN bs)
           root == 0
           none == <<>>
           p == [b \in 0..n |-> IF b = 0 THEN 0 ELSE bs[b].prev]
           G == [b \in D |-> [v \in V |-> IF b = 0 THEN v ELSE Append(v, b)]]
           Step(h, b) == IF b = 0 THEN <<>> ELSE Append(h[bs[b].prev], b)
           to == CHOOSE h : h = [b \in 0..Len(bs) |-> Step(h, b)]
<1>1. n \in Nat /\ DOMAIN bs = 1..n /\ none \in V
  OBVIOUS
<1>2. Grounded(D, root, p)
  BY TreeGrounded
<1>3. \A b \in D \ {root} : b \in DOMAIN bs /\ p[b] = bs[b].prev /\ p[b] \in D
  BY <1>1, <1>2 DEF Grounded
<1>4. IsRule(G, D, V)
  <2> SUFFICES ASSUME NEW b \in D, NEW v \in V PROVE (IF b = 0 THEN v ELSE Append(v, b)) \in V
    BY DEF IsRule
  <2>1. b # 0 => b \in DOMAIN bs
    BY <1>1
  <2>2. b # 0 => Append(v, b) \in V
    <3> DEFINE T == DOMAIN bs
    <3>1. v \in Seq(T) /\ (b # 0 => b \in T)
      BY <2>1
    <3>2. b # 0 => Append(v, b) \in Seq(T)
      <4> HIDE DEF T
      <4> QED
        BY <3>1
    <3> QED
      BY <3>2
  <2> QED
    BY <2>2
<1>5. PICK f \in [D -> V] : \A b \in D : f[b] = IF b = root THEN none ELSE G[b][f[p[b]]]
  <2> HIDE DEF D, V, p, G, root, none
  <2> QED
    BY <1>1, <1>2, <1>4, WalkRecursion
<1>6. ASSUME NEW b \in D PROVE f[b] = Step(f, b)
  <2>1. CASE b = 0
    BY <1>5, <2>1
  <2>2. CASE b # 0
    <3>1. f[b] = G[b][f[p[b]]] /\ p[b] = bs[b].prev /\ f[p[b]] \in V
      <4>1. b \in D \ {root}
        BY <2>2
      <4> HIDE DEF D, V, p, G
      <4> QED
        BY <1>3, <1>5, <4>1
    <3> HIDE DEF D, V, p
    <3> QED
      BY <2>2, <3>1
  <2> QED
    BY <2>1, <2>2
<1>7. f = [b \in 0..Len(bs) |-> Step(f, b)]
  <2>1. f = [b \in D |-> f[b]]
    BY <1>5
  <2> HIDE DEF Step
  <2> QED
    BY <1>6, <2>1
<1>8. to = [b \in 0..Len(bs) |-> Step(to, b)]
  <2> HIDE DEF Step
  <2> QED
    BY <1>7
<1>9. \A b \in D : to[b] = Step(to, b)
  <2> HIDE DEF Step, to
  <2> QED
    BY <1>8
<1> DEFINE S == {b \in D : to[b] \in V /\ (b # 0 => 1 \in Range(to[b]))}
<1>10. root \in S
  <2>0. 0 \in D
    BY <1>1
  <2>1. to[0] = Step(to, 0)
    <3> HIDE DEF to, D, Step
    <3> QED
      BY <1>9, <2>0
  <2> HIDE DEF to, V, D
  <2> QED
    BY <1>1, <2>0, <2>1
<1>11. ASSUME NEW b \in D \ {root}, p[b] \in S PROVE b \in S
  <2>1. to[b] = Append(to[p[b]], b) /\ b \in DOMAIN bs
    <3>1. to[b] = Step(to, b)
      <4> HIDE DEF to, D, Step
      <4> QED
        BY <1>9
    <3> HIDE DEF to, p, D
    <3> QED
      BY <1>3, <3>1
  <2>2. to[p[b]] \in V /\ (p[b] # 0 => 1 \in Range(to[p[b]]))
    BY <1>11
  <2>3. p[b] = 0 => b = 1
    <3>1. p[b] = bs[b].prev
      BY <1>3
    <3> HIDE DEF p, to
    <3> QED
      BY <2>1, <3>1 DEF IsTree
  <2> DEFINE v == to[p[b]]
  <2>4. Append(v, b) \in V
    <3> HIDE DEF to, p, D
    <3> QED
      BY <2>1, <2>2
  <2>5. 1 \in Range(Append(v, b))
    <3> HIDE DEF to, p, D
    <3>0. v \in Seq(DOMAIN bs)
      BY <2>2
    <3>1. CASE p[b] = 0
      <4>1. Len(v) + 1 \in DOMAIN Append(v, b) /\ Append(v, b)[Len(v) + 1] = b
        <5> HIDE DEF v
        <5> QED
          BY <2>1, <3>0
      <4> HIDE DEF v
      <4> QED
        BY <2>3, <3>1, <4>1 DEF Range
    <3>2. CASE p[b] # 0
      <4>1. PICK i \in DOMAIN v : v[i] = 1
        BY <2>2, <3>2 DEF Range
      <4>2. i \in DOMAIN Append(v, b) /\ Append(v, b)[i] = 1
        <5> DEFINE T == DOMAIN bs
        <5>1. v \in Seq(T) /\ b \in T
          BY <2>1, <3>0
        <5> HIDE DEF v, T
        <5>2. DOMAIN Append(v, b) = 1..(Len(v) + 1) /\ DOMAIN v = 1..Len(v)
          BY <5>1
        <5> QED
          BY <4>1, <5>1, <5>2
      <4> HIDE DEF v
      <4> QED
        BY <4>2 DEF Range
    <3> QED
      BY <3>1, <3>2
  <2> HIDE DEF to, p, V, D
  <2> QED
    BY <2>1, <2>4, <2>5
<1>12. D \subseteq S
  <2> HIDE DEF S, D, p, root
  <2> QED
    BY <1>2, <1>10, <1>11, WalkInduction
<1>13. Branches(bs) = to
  BY DEF Branches
<1>14. to[0] = <<>> /\ \A b \in DOMAIN bs : to[b] = Append(to[bs[b].prev], b)
  <2>1. 0 \in D /\ \A b \in DOMAIN bs : b \in D /\ b # 0
    BY <1>1
  <2> HIDE DEF to, D
  <2> QED
    BY <1>9, <2>1
<1> HIDE DEF to, p, V
<1> QED
  BY <1>1, <1>12, <1>13, <1>14 DEF V

LEMMA BranchesAre ==
  ASSUME NEW R, NEW bs \in Seq(R), IsTree(bs)
  PROVE  \A b \in DOMAIN bs : Branches(bs)[b] \in Seq(DOMAIN bs) /\ 1 \in Range(Branches(bs)[b])
  BY BranchesWalk

\* Branches have blocks in common, and what one has more than another is a branch.
LEMMA SharedIs ==
  ASSUME NEW R, NEW bs \in Seq(R), IsTree(bs), NEW a \in DOMAIN bs, NEW b \in DOMAIN bs
  PROVE  Shared(Branches(bs)[a], Branches(bs)[b]) \in Nat \ {0}
<1> DEFINE S == Range(Branches(bs)[a]) \cap Range(Branches(bs)[b])
<1>1. /\ Branches(bs)[a] \in Seq(DOMAIN bs) /\ 1 \in Range(Branches(bs)[a])
      /\ 1 \in Range(Branches(bs)[b])
  BY BranchesAre
<1>2. IsFiniteSet(Range(Branches(bs)[a]))
  BY <1>1, RangeIsFinite
<1>3. S \in SUBSET Range(Branches(bs)[a]) /\ 1 \in S
  BY <1>1
<1> HIDE DEF S
<1>4. IsFiniteSet(S)
  BY <1>2, <1>3, FS_Subset
<1>5. Cardinality(S) \in Nat /\ Cardinality(S) # 0
  BY <1>3, <1>4, FS_CardinalityType, FS_EmptySet
<1> QED
  BY <1>5 DEF Shared, S

LEMMA PartIsSequence ==
  ASSUME NEW S, NEW s \in Seq(S), NEW i \in Nat \ {0}, NEW j \in Int, j <= Len(s)
  PROVE  SubSeq(s, i, j) \in Seq(S)
<1> DEFINE n == IF i <= j THEN j - i + 1 ELSE 0
<1>1. n \in Nat /\ SubSeq(s, i, j) = [k \in 1..n |-> s[i + k - 1]]
  OBVIOUS
<1>2. \A k \in 1..n : i + k - 1 \in 1..Len(s)
  OBVIOUS
<1>3. [k \in 1..n |-> s[i + k - 1]] \in [1..n -> S]
  <2> HIDE DEF n
  <2> QED
    BY <1>2
<1> HIDE DEF n
<1> QED
  BY <1>1, <1>3

LEMMA ConnectingIs ==
  ASSUME NEW bs, NEW S, NEW new \in Seq(S)
  PROVE  Connecting(bs, new) \in Seq(S)
<1> DEFINE bad == {i \in DOMAIN new : ~bs[new[i]].valid}
<1>1. CASE bad # {}
  <2>1. bad \subseteq Nat /\ bad \subseteq 1..Len(new)
    OBVIOUS
  <2>2. \E m \in bad : \A x \in bad : m <= x
    <3> HIDE DEF bad
    <3> QED
      BY <1>1, <2>1, LeastNumber
  <2>3. Min(bad) \in bad
    <3> HIDE DEF bad
    <3> QED
      BY <2>2 DEF Min
  <2>4. Min(bad) \in 1..Len(new)
    BY <2>1, <2>3
  <2> DEFINE j == Min(bad) - 1
             i == 1
  <2>5. j \in Int /\ j <= Len(new) /\ i \in Nat \ {0}
    <3> HIDE DEF bad
    <3> QED
      BY <2>4
  <2>6. SubSeq(new, i, j) \in Seq(S)
    <3> HIDE DEF i, j, bad
    <3> QED
      BY <2>5, PartIsSequence
  <2> QED
    BY <1>1, <2>6 DEF Connecting
<1> QED
  BY <1>1 DEF Connecting

----------------------------------------------------------------------------
(* The coins of a payment, for every finite set of coins, every amount and *)
(* every choice of the order and the trials.                               *)

LEMMA OneCoinIs ==
  ASSUME NEW S, IsCoins(S), NEW c \in S
  PROVE  Value({c}) = c.value
<1>1. {c} \in SUBSET S /\ {c} \ {c} = {}
  OBVIOUS
<1>2. Value({c}) = c.value + Value({c} \ {c}) /\ Value({}) = 0 /\ c.value \in Nat
  BY <1>1, ValueIs DEF IsCoins
<1> QED
  BY <1>1, <1>2

\* A trial has enough.
LEMMA TrialsSuffice ==
  ASSUME NEW S, IsCoins(S), NEW n \in Nat, Value(S) >= n
  PROVE  /\ \A best \in ApproximateBestSubset(S, n) : best \subseteq S /\ Value(best) >= n
         /\ S \in ApproximateBestSubset(S, n)
  BY DEF ApproximateBestSubset

LEMMA BestSuffice ==
  ASSUME NEW S, IsCoins(S), NEW n \in Nat, Value(S) >= n
  PROVE  /\ \A best \in BestSubsets(S, n) : best \subseteq S /\ Value(best) >= n
         /\ BestSubsets(S, n) # {}
<1> DEFINE more(best) == Value(best) # n /\ Value(S) >= n + CENT
           tried(best) == IF more(best) THEN ApproximateBestSubset(S, n + CENT) ELSE {best}
<1>1. n + CENT \in Nat /\ CENT \in Nat
  BY CheckAssumption
<1>2. ASSUME NEW first \in ApproximateBestSubset(S, n), NEW best \in tried(first)
      PROVE  best \subseteq S /\ Value(best) >= n
  <2>1. CASE more(first)
    <3> DEFINE k == n + CENT
    <3>1. k \in Nat /\ Value(S) >= k
      BY <1>1, <2>1
    <3>2. best \in ApproximateBestSubset(S, k)
      BY <1>2, <2>1
    <3>3. best \subseteq S /\ Value(best) >= k
      <4> HIDE DEF k
      <4> QED
        BY <3>1, <3>2, TrialsSuffice
    <3>4. Value(best) \in Nat
      BY <3>3, ValueIs
    <3> QED
      BY <1>1, <3>3, <3>4
  <2>2. CASE ~more(first)
    <3>1. best = first
      BY <1>2, <2>2
    <3> QED
      BY <3>1, TrialsSuffice
  <2> QED
    BY <2>1, <2>2
<1>3. tried(S) # {} /\ S \in ApproximateBestSubset(S, n)
  <2>1. S \in ApproximateBestSubset(S, n) /\ S \in ApproximateBestSubset(S, n + CENT)
    BY DEF ApproximateBestSubset
  <2> QED
    BY <2>1
<1>4. BestSubsets(S, n) = UNION {tried(best) : best \in ApproximateBestSubset(S, n)}
  BY DEF BestSubsets
<1> HIDE DEF tried
<1> QED
  BY <1>2, <1>3, <1>4

\* The coins of least value.
LEMMA LowestAre ==
  ASSUME NEW S, IsCoins(S), S # {}
  PROVE  {c \in S : \A d \in S : c.value <= d.value} # {}
<1> DEFINE T == {c.value : c \in S}
<1>1. T \subseteq Nat /\ T # {}
  BY DEF IsCoins
<1>2. PICK n \in T : \A m \in T : n <= m
  <2> HIDE DEF T
  <2> QED
    BY <1>1, LeastNumber
<1> QED
  BY <1>2

\* Coins are found exactly when there are enough of them (SelectCoinsMinConf), for
\* every finite set of coins, every target and every order of the trials.
THEOREM SelectionFindsCoins ==
  ASSUME NEW available, IsCoins(available), NEW nTargetValue \in Nat, NEW nConfMine, NEW nConfTheirs
  PROVE  SelectionSucceeds(available, nTargetValue, nConfMine, nConfTheirs)
<1> DEFINE vCoins == {c \in available : c.depth >= IF c.fromMe THEN nConfMine ELSE nConfTheirs}
           exact  == {c \in vCoins : c.value = nTargetValue}
           lower  == {c \in vCoins : c.value < nTargetValue + CENT}
           larger == vCoins \ lower
           lowest == {c \in larger : \A d \in larger : c.value <= d.value}
           nearer(best) == \/ Value(best) # nTargetValue /\ Value(best) < nTargetValue + CENT
                           \/ \E c \in lowest : c.value <= Value(best)
           settled(best) == IF larger # {} /\ nearer(best) THEN {{c} : c \in lowest} ELSE {best}
           chosen == SelectCoinsMinConf(available, nTargetValue, nConfMine, nConfTheirs)
           found == chosen # {}
           enough == Value(vCoins) >= nTargetValue
           fits(coins) == coins \subseteq vCoins /\ Value(coins) >= nTargetValue
           Good == (found <=> enough) /\ \A coins \in chosen : fits(coins)
<1>1. chosen = IF exact # {} THEN {{c} : c \in exact}
               ELSE IF Value(lower) = nTargetValue THEN {lower}
               ELSE IF Value(lower) < nTargetValue THEN {{c} : c \in lowest}
               ELSE UNION {settled(best) : best \in BestSubsets(lower, nTargetValue)}
  BY DEF SelectCoinsMinConf
<1>2. IsCoins(vCoins)
  <2>1. vCoins \in SUBSET available
    OBVIOUS
  <2> HIDE DEF vCoins
  <2> QED
    BY <2>1, FS_Subset DEF IsCoins
<1>3. \A c \in vCoins : c.value \in Nat /\ Value({c}) = c.value
  <2> HIDE DEF vCoins
  <2>1. \A c \in vCoins : c.value \in Nat
    BY <1>2 DEF IsCoins
  <2>2. ASSUME NEW c \in vCoins PROVE Value({c}) = c.value
    BY <1>2, OneCoinIs
  <2> QED
    BY <2>1, <2>2
<1>4. exact \subseteq vCoins /\ lower \subseteq vCoins /\ larger \subseteq vCoins
  OBVIOUS
<1>5. \A s \in SUBSET vCoins : Value(s) \in Nat /\ Value(s) <= Value(vCoins)
  <2> HIDE DEF vCoins
  <2>1. \A s \in SUBSET vCoins : Value(s) \in Nat
    BY <1>2, ValueIs
  <2>2. \A t \in SUBSET vCoins : Value(t) <= Value(vCoins)
    BY <1>2, ValueIs
  <2> QED
    BY <2>1, <2>2
<1>6. CENT \in Nat /\ nTargetValue + CENT \in Nat
  BY CheckAssumption
<1>7. \A c \in larger : c.value >= nTargetValue /\ c \in vCoins
  <2> SUFFICES ASSUME NEW c \in larger PROVE c.value >= nTargetValue
    BY <1>4
  <2>1. c.value \in Nat /\ ~(c.value < nTargetValue + CENT)
    BY <1>3
  <2> QED
    BY <1>6, <2>1
<1>8. larger # {} => lowest # {}
  <2>1. larger \in SUBSET vCoins
    BY <1>4
  <2> HIDE DEF larger, vCoins
  <2>2. IsCoins(larger)
    BY <1>2, <2>1, FS_Subset DEF IsCoins
  <2> QED
    BY <2>2, LowestAre
<1>9. \A c \in lowest : c \in larger
  OBVIOUS
<1>10. larger = {} => lower = vCoins
  OBVIOUS
<1>11. IsCoins(lower)
  <2>1. lower \in SUBSET vCoins
    BY <1>4
  <2> HIDE DEF lower, vCoins
  <2> QED
    BY <1>2, <2>1, FS_Subset DEF IsCoins
<1>12. \A c \in exact : c.value = nTargetValue
  OBVIOUS
<1>13. SelectionSucceeds(available, nTargetValue, nConfMine, nConfTheirs)
       <=> (found = enough) /\ \A coins \in chosen : fits(coins)
  BY DEF SelectionSucceeds
<1>22. ASSUME Good PROVE SelectionSucceeds(available, nTargetValue, nConfMine, nConfTheirs)
  <2> HIDE DEF fits, chosen, vCoins
  <2>2. found = enough
    BY <1>22
  <2> HIDE DEF found, enough
  <2> QED
    BY <1>13, <1>22, <2>2
<1> HIDE DEF exact, lower, larger, lowest, chosen
<1> SUFFICES Good
  BY <1>22
\* A coin of a set, alone.
<1>14. ASSUME NEW c \in vCoins, c.value >= nTargetValue
       PROVE  fits({c}) /\ enough
  <2>1. {c} \in SUBSET vCoins /\ Value({c}) = c.value
    BY <1>3
  <2> HIDE DEF vCoins
  <2>2. Value({c}) \in Nat /\ Value({c}) <= Value(vCoins) /\ Value(vCoins) \in Nat
    BY <1>5, <2>1
  <2> QED
    BY <1>14, <2>1, <2>2, {c} \subseteq vCoins
<1>15. Value(lower) \in Nat /\ Value(lower) <= Value(vCoins) /\ Value(vCoins) \in Nat
  BY <1>4, <1>5
<1>20. fits(lower) <=> lower \subseteq vCoins /\ Value(lower) >= nTargetValue
  OBVIOUS
<1>21. Value(lower) >= nTargetValue => enough
  BY <1>15
<1> HIDE DEF vCoins, fits, enough
<1>16. CASE exact # {}
  <2>1. chosen = {{c} : c \in exact}
    BY <1>1, <1>16
  <2>2. \A c \in exact : c \in vCoins /\ c.value >= nTargetValue
    BY <1>4, <1>12
  <2> QED
    BY <1>14, <1>16, <2>1, <2>2
<1>17. CASE exact = {} /\ Value(lower) = nTargetValue
  <2>1. chosen = {lower}
    BY <1>1, <1>17
  <2> QED
    BY <1>4, <1>15, <1>17, <1>20, <1>21, <2>1
<1>18. CASE exact = {} /\ Value(lower) < nTargetValue
  <2>1. chosen = {{c} : c \in lowest}
    BY <1>1, <1>15, <1>18
  <2>2. \A c \in lowest : c \in vCoins /\ c.value >= nTargetValue
    BY <1>7, <1>9
  <2>3. CASE larger = {}
    <3>1. lowest = {} /\ ~enough
      BY <1>9, <1>10, <1>15, <1>18, <2>3 DEF enough
    <3> QED
      BY <2>1, <3>1
  <2>4. CASE larger # {}
    <3>1. \A c \in lowest : fits({c}) /\ enough
      BY <1>14, <2>2
    <3> QED
      BY <1>8, <2>1, <2>4, <3>1
  <2> QED
    BY <2>3, <2>4
<1>19. CASE exact = {} /\ Value(lower) > nTargetValue
  <2>1. chosen = UNION {settled(best) : best \in BestSubsets(lower, nTargetValue)}
    BY <1>1, <1>15, <1>19
  <2>2. \A best \in BestSubsets(lower, nTargetValue) : fits(best)
    BY <1>4, <1>11, <1>15, <1>19, BestSuffice DEF fits
  <2>3. ASSUME NEW best \in BestSubsets(lower, nTargetValue)
        PROVE  settled(best) # {} /\ \A coins \in settled(best) : fits(coins)
    <3>1. CASE larger # {} /\ nearer(best)
      <4>1. settled(best) = {{c} : c \in lowest}
        BY <3>1
      <4>2. \A c \in lowest : fits({c})
        BY <1>7, <1>9, <1>14
      <4> QED
        BY <1>8, <3>1, <4>1, <4>2
    <3>2. CASE ~(larger # {} /\ nearer(best))
      <4>1. settled(best) = {best}
        BY <3>2
      <4> QED
        BY <2>2, <4>1
    <3> QED
      BY <3>1, <3>2
  <2>4. BestSubsets(lower, nTargetValue) # {}
    BY <1>11, <1>15, <1>19, BestSuffice
  <2>5. enough
    BY <1>15, <1>19, <1>21
  <2>6. ASSUME NEW coins \in chosen PROVE fits(coins)
    <3>1. PICK best \in BestSubsets(lower, nTargetValue) : coins \in settled(best)
      <4> HIDE DEF settled
      <4> QED
        BY <2>1
    <3> QED
      BY <2>3, <3>1
  <2>7. chosen # {}
    <3>1. PICK best \in BestSubsets(lower, nTargetValue) : TRUE
      BY <2>4
    <3>2. PICK coins : coins \in settled(best)
      BY <2>3
    <3> HIDE DEF settled
    <3> QED
      BY <2>1, <3>2
  <2> QED
    BY <2>5, <2>6, <2>7
<1> QED
  BY <1>15, <1>16, <1>17, <1>18, <1>19

----------------------------------------------------------------------------
(* Fees and passes.                                                        *)

LEMMA TimesIs ==
  ASSUME NEW k \in Nat \ {0}, NEW a \in Nat, NEW b \in Nat, a <= b
  PROVE  k * a \in Nat /\ k * b \in Nat /\ k * a <= k * b /\ a <= k * a
<1>1. k * a \in Nat /\ k * b \in Nat
  OBVIOUS
<1>2. k * (b - a) \in Nat /\ k * (b - a) = k * b - k * a
  OBVIOUS
<1>3. (k - 1) * a \in Nat /\ (k - 1) * a = k * a - a
  OBVIOUS
<1> QED
  BY <1>1, <1>2, <1>3

\* A fee without a block, and one that is asked by the pool.
Clamped(n) == IF MoneyRange(n) THEN n ELSE MAX_MONEY
Sized(k, free, nBaseFee) == IF free THEN 0 ELSE k * nBaseFee
Asked(k, free, dust, nBaseFee) ==
  IF Sized(k, free, nBaseFee) < nBaseFee /\ dust THEN nBaseFee ELSE Sized(k, free, nBaseFee)

LEMMA AskedIs ==
  ASSUME NEW k \in Nat \ {0}, NEW free \in BOOLEAN, NEW more \in BOOLEAN, NEW dust \in BOOLEAN,
         NEW a \in Nat, NEW b \in Nat \ {0}, a <= b, free => more
  PROVE  Asked(k, more, dust, a) \in Nat /\ Asked(k, free, dust, b) \in Nat
         /\ Asked(k, more, dust, a) <= Asked(k, free, dust, b)
<1> DEFINE x == k * a
           y == k * b
<1>1. x \in Nat /\ y \in Nat /\ x <= y /\ a <= x /\ b <= y
  <2>1. b <= b
    OBVIOUS
  <2> QED
    BY <2>1, TimesIs
<1>2. Sized(k, more, a) = (IF more THEN 0 ELSE x) /\ Sized(k, free, b) = (IF free THEN 0 ELSE y)
  BY DEF Sized
<1> HIDE DEF x, y
<1>3. Asked(k, more, dust, a) = (IF more THEN IF 0 < a /\ dust THEN a ELSE 0 ELSE x)
  BY <1>1, <1>2 DEF Asked
<1>4. Asked(k, free, dust, b) = (IF free THEN IF dust THEN b ELSE 0 ELSE y)
  BY <1>1, <1>2 DEF Asked
<1> QED
  BY <1>1, <1>3, <1>4

LEMMA ClampedIs ==
  ASSUME NEW a \in Nat, NEW b \in Nat, a <= b
  PROVE  Clamped(a) \in Nat /\ Clamped(b) \in Nat /\ Clamped(a) <= Clamped(b)
<1>1. MAX_MONEY \in Nat
  BY CheckAssumption
<1> QED
  BY <1>1 DEF Clamped, MoneyRange

Dusty(vout) == \E i \in DOMAIN vout : vout[i] < CENT

\* A payment that is small enough to be made pays what every pool asks of it.
LEMMA PoolAsksLess ==
  ASSUME NEW nBytes \in Nat, NEW vout, NEW free \in BOOLEAN
  PROVE  /\ GetMinFee(nBytes, vout, 1, free, MIN_TX_FEE) \in Nat
         /\ nBytes < MAX_BLOCK_SIZE_GEN \div 5 =>
              GetMinFee(nBytes, vout, RelayBlockSize, TRUE, MIN_RELAY_TX_FEE)
                \in 0..GetMinFee(nBytes, vout, 1, free, MIN_TX_FEE)
<1> DEFINE k == 1 + nBytes \div KiloByte
           dust == Dusty(vout)
           first == free /\ nBytes < FreeTxSize
           more == IF RelayBlockSize = 1 THEN nBytes < FreeTxSize ELSE RelayBlockSize + nBytes < FreeBlockSize
<1>1. /\ KiloByte \in Nat \ {0} /\ MAX_BLOCK_SIZE_GEN \in Nat \ {0} /\ FreeTxSize \in Nat /\ FreeBlockSize \in Nat
      /\ RelayBlockSize \in Nat /\ MIN_TX_FEE \in Nat \ {0} /\ MIN_RELAY_TX_FEE \in Nat
      /\ MIN_RELAY_TX_FEE <= MIN_TX_FEE
      /\ RelayBlockSize + MAX_BLOCK_SIZE_GEN \div 5 <= MAX_BLOCK_SIZE_GEN \div 2
  BY CheckAssumption, SelectionAssumption
<1>2. k \in Nat \ {0}
  BY <1>1
<1>3. dust \in BOOLEAN /\ first \in BOOLEAN /\ more \in BOOLEAN /\ (first => more)
  <2>1. nBytes < FreeTxSize => RelayBlockSize + nBytes < FreeBlockSize
    <3>1. \A n \in 0..FreeTxSize : n < FreeTxSize => RelayBlockSize + n < FreeBlockSize
      BY SelectionAssumption
    <3>2. nBytes < FreeTxSize => nBytes \in 0..FreeTxSize
      BY <1>1
    <3> QED
      BY <3>1, <3>2
  <2>2. dust \in BOOLEAN
    BY DEF Dusty
  <2>3. first \in BOOLEAN /\ more \in BOOLEAN
    <3>1. first \in BOOLEAN
      OBVIOUS
    <3>2. CASE RelayBlockSize = 1
      BY <3>2
    <3>3. CASE RelayBlockSize # 1
      BY <3>3
    <3> HIDE DEF more
    <3>4. more \in BOOLEAN
      BY <3>2, <3>3 DEF more
    <3> QED
      BY <3>1, <3>4
  <2>4. first => more
    <3> HIDE DEF dust
    <3> QED
      BY <2>1
  <2> HIDE DEF first, more, dust
  <2> QED
    BY <2>2, <2>3, <2>4
<1>4. GetMinFee(nBytes, vout, 1, free, MIN_TX_FEE) = Clamped(Asked(k, first, dust, MIN_TX_FEE))
  BY DEF GetMinFee, Raised, Clamped, Asked, Sized, Dusty
<1>5. ASSUME nBytes < MAX_BLOCK_SIZE_GEN \div 5
      PROVE  GetMinFee(nBytes, vout, RelayBlockSize, TRUE, MIN_RELAY_TX_FEE)
               = Clamped(Asked(k, more, dust, MIN_RELAY_TX_FEE))
  <2> DEFINE fifth == MAX_BLOCK_SIZE_GEN \div 5
             half == MAX_BLOCK_SIZE_GEN \div 2
  <2>1. fifth \in Nat /\ half \in Nat
    BY <1>1
  <2>2. RelayBlockSize + nBytes < half
    <3>1. nBytes < fifth /\ RelayBlockSize + fifth <= half
      BY <1>1, <1>5
    <3> HIDE DEF fifth, half
    <3> QED
      BY <1>1, <2>1, <3>1
  <2> QED
    BY <2>2 DEF GetMinFee, Raised, Clamped, Asked, Sized, Dusty
<1> HIDE DEF k, dust, first, more
<1>6. /\ Asked(k, more, dust, MIN_RELAY_TX_FEE) \in Nat /\ Asked(k, first, dust, MIN_TX_FEE) \in Nat
      /\ Asked(k, more, dust, MIN_RELAY_TX_FEE) <= Asked(k, first, dust, MIN_TX_FEE)
  BY <1>1, <1>2, <1>3, AskedIs
<1>7. /\ Clamped(Asked(k, first, dust, MIN_TX_FEE)) \in Nat
      /\ Clamped(Asked(k, more, dust, MIN_RELAY_TX_FEE)) \in 0..Clamped(Asked(k, first, dust, MIN_TX_FEE))
  <2> DEFINE a == Asked(k, more, dust, MIN_RELAY_TX_FEE)
             b == Asked(k, first, dust, MIN_TX_FEE)
  <2>1. a \in Nat /\ b \in Nat /\ a <= b
    BY <1>6
  <2> HIDE DEF a, b
  <2>2. Clamped(b) \in Nat /\ Clamped(a) \in Nat /\ Clamped(a) <= Clamped(b)
    BY <2>1, ClampedIs
  <2> QED
    BY <2>2 DEF a, b
<1> QED
  BY <1>4, <1>5, <1>7

Payments(available, nValue) ==
  [state: {"again", "created", "failed"}, value: {nValue}, fee: Nat, coins: SUBSET available, change: Int]

\* One pass: the fee rises, or the payment is funded.
LEMMA PassIs ==
  ASSUME NEW available, IsCoins(available), NEW nValue \in Nat, NEW nFee \in Nat,
         NEW coins \in SUBSET available, NEW free \in BOOLEAN
  PROVE  /\ Pass(nValue, nFee, coins, free) \in Payments(available, nValue)
         /\ Pass(nValue, nFee, coins, free).state = "again" => Pass(nValue, nFee, coins, free).fee > nFee
         /\ Pass(nValue, nFee, coins, free).state # "again" =>
              IsFunded(available, Pass(nValue, nFee, coins, free))
<1> DEFINE spare   == Value(coins) - nValue - nFee
           moved   == MovesToFee(nFee, spare)
           fee     == nFee + moved
           nChange == spare - moved
           vout    == IF nChange > 0 THEN <<nValue, nChange>> ELSE <<nValue>>
           nBytes  == InputSize * Cardinality(coins) + OutputSize * Len(vout)
           needed  == FeeOfSize(nBytes, vout, free)
           payment == Pass(nValue, nFee, coins, free)
<1>1. Value(coins) \in Nat /\ Cardinality(coins) \in Nat
  BY ValueIs, FS_Subset, FS_CardinalityType DEF IsCoins
<1>2. /\ InputSize \in Nat /\ OutputSize \in Nat /\ MIN_TX_FEE \in Nat /\ nTransactionFee \in Nat
      /\ KiloByte \in Nat \ {0}
  BY CheckAssumption, SelectionAssumption
<1>3. spare \in Int
  BY <1>1
<1>4. moved \in Nat
  <2> HIDE DEF spare
  <2> QED
    BY <1>2, <1>3 DEF MovesToFee, Least
<1>5. fee \in Nat /\ fee >= nFee /\ nChange \in Int /\ Value(coins) = nValue + nChange + fee
  <2>1. spare = Value(coins) - nValue - nFee
    OBVIOUS
  <2> HIDE DEF spare, moved
  <2> QED
    BY <1>1, <1>3, <1>4, <2>1
<1>6. Len(vout) \in Nat
  OBVIOUS
<1>7. nBytes \in Nat
  <2> HIDE DEF vout
  <2> QED
    BY <1>1, <1>2, <1>6
<1> DEFINE nPayFee == nTransactionFee * (1 + nBytes \div KiloByte)
           nMinFee == GetMinFee(nBytes, vout, 1, free, MIN_TX_FEE)
<1> HIDE DEF spare, moved, fee, nChange
<1>8. nPayFee \in Nat
  <2> DEFINE k == 1 + nBytes \div KiloByte
  <2>1. k \in Nat
    <3> HIDE DEF nBytes
    <3> QED
      BY <1>2, <1>7
  <2> HIDE DEF k
  <2>2. nTransactionFee * k \in Nat
    BY <1>2, <2>1
  <2> QED
    BY <2>2 DEF k
<1>9. /\ nMinFee \in Nat
      /\ nBytes < MAX_BLOCK_SIZE_GEN \div 5 =>
           GetMinFee(nBytes, vout, RelayBlockSize, TRUE, MIN_RELAY_TX_FEE) \in 0..nMinFee
  <2> HIDE DEF nBytes, vout
  <2> QED
    BY <1>7, PoolAsksLess
<1>10. needed = IF nPayFee > nMinFee THEN nPayFee ELSE nMinFee
  BY DEF FeeOfSize
<1> HIDE DEF nPayFee, nMinFee
<1>11. needed \in Nat /\ needed >= nPayFee /\ needed >= nMinFee
  <2> HIDE DEF needed
  <2> QED
    BY <1>8, <1>9, <1>10
<1>12. payment = IF nBytes >= MAX_BLOCK_SIZE_GEN \div 5 THEN Payment("failed", nValue, fee, {}, 0)
                 ELSE IF fee < needed THEN Payment("again", nValue, needed, {}, 0)
                 ELSE Payment("created", nValue, fee, coins, nChange)
  BY DEF Pass, nChange, fee, moved, spare
<1>13. MAX_BLOCK_SIZE_GEN \div 5 \in Nat
  BY CheckAssumption
<1> DEFINE relay == GetMinFee(nBytes, vout, RelayBlockSize, TRUE, MIN_RELAY_TX_FEE)
           fifth == MAX_BLOCK_SIZE_GEN \div 5
<1>14. CASE nBytes >= fifth
  <2>1. payment = Payment("failed", nValue, fee, {}, 0)
    BY <1>12, <1>14
  <2> HIDE DEF payment
  <2>2. payment.state = "failed" /\ payment \in Payments(available, nValue)
    BY <1>5, <2>1 DEF Payment, Payments
  <2> QED
    BY <2>2 DEF IsFunded, payment
<1>15. CASE ~(nBytes >= fifth) /\ fee < needed
  <2>1. payment = Payment("again", nValue, needed, {}, 0)
    BY <1>12, <1>15
  <2> HIDE DEF payment, needed, nBytes
  <2>2. payment.state = "again" /\ payment.fee = needed /\ payment \in Payments(available, nValue)
    BY <1>11, <2>1 DEF Payment, Payments
  <2>3. payment.fee > nFee
    BY <1>5, <1>11, <1>15, <2>2
  <2> QED
    BY <2>2, <2>3 DEF payment
<1>16. CASE ~(nBytes >= fifth) /\ ~(fee < needed)
  <2>1. payment = Payment("created", nValue, fee, coins, nChange)
    BY <1>12, <1>16
  <2> HIDE DEF payment
  <2>2. /\ payment.state = "created" /\ payment.value = nValue /\ payment.fee = fee
        /\ payment.coins = coins /\ payment.change = nChange /\ payment \in Payments(available, nValue)
    BY <1>5, <2>1 DEF Payment, Payments
  <2>3. fee >= nPayFee
    <3> HIDE DEF needed, nBytes
    <3> QED
      BY <1>5, <1>8, <1>11, <1>16
  <2>4. fee >= nMinFee
    <3> HIDE DEF needed, nBytes
    <3> QED
      BY <1>5, <1>9, <1>11, <1>16
  <2>5. relay \in 0..nMinFee
    <3>1. nBytes < fifth
      <4> HIDE DEF nBytes
      <4> QED
        BY <1>7, <1>13, <1>16
    <3> HIDE DEF nBytes, vout, nMinFee
    <3> QED
      BY <1>9, <3>1
  <2>6. fee >= relay
    <3> HIDE DEF relay
    <3> QED
      BY <1>5, <1>9, <2>4, <2>5
  <2> QED
    BY <1>5, <2>2, <2>3, <2>6 DEF IsFunded, payment, nPayFee
<1> HIDE DEF payment, needed, nBytes
<1> QED
  BY <1>14, <1>15, <1>16 DEF payment

LEMMA CoinsSuffice ==
  ASSUME NEW available, IsCoins(available), NEW n \in Nat, NEW coins \in SelectCoins(available, n)
  PROVE  coins \in SUBSET available /\ Value(available) >= n
<1>1. PICK mine, theirs : coins \in SelectCoinsMinConf(available, n, mine, theirs)
  BY DEF SelectCoins
<1>2. SelectionSucceeds(available, n, mine, theirs)
  BY SelectionFindsCoins
<1>3. coins \in SUBSET available /\ Value(coins) >= n
  BY <1>1, <1>2 DEF SelectionSucceeds
<1>4. Value(coins) \in Nat /\ Value(coins) <= Value(available) /\ Value(available) \in Nat
  BY <1>3, ValueIs
<1> QED
  BY <1>3, <1>4

\* The fee of a payment that is tried again has risen, and there were enough coins
\* for the last one.
LEMMA PassesAre ==
  ASSUME NEW available, IsCoins(available), NEW nValue \in Nat,
         NEW p \in Payments(available, nValue), NEW q \in Passes(available, p)
  PROVE  /\ q \in Payments(available, nValue)
         /\ p.state # "again" => q = p
         /\ p.state = "again" /\ q.state = "again" => q.fee > p.fee /\ Value(available) >= p.fee
         /\ p.state = "again" /\ q.state # "again" => IsFunded(available, q)
<1> DEFINE n == p.value + p.fee
<1>1. p.value = nValue /\ p.fee \in Nat /\ n \in Nat /\ n >= p.fee
  BY DEF Payments
<1>2. CASE p.state # "again"
  BY <1>2 DEF Passes
<1>3. CASE p.state = "again" /\ SelectCoins(available, n) = {}
  <2>1. q = Payment("failed", p.value, p.fee, {}, 0)
    BY <1>3 DEF Passes
  <2>2. q.state = "failed" /\ q \in Payments(available, nValue)
    BY <1>1, <2>1 DEF Payment, Payments
  <2> QED
    BY <1>3, <2>2 DEF IsFunded
<1>4. CASE p.state = "again" /\ SelectCoins(available, n) # {}
  <2>1. PICK coins \in SelectCoins(available, n), free \in BOOLEAN : q = Pass(p.value, p.fee, coins, free)
    BY <1>4 DEF Passes
  <2>2. coins \in SUBSET available /\ Value(available) >= n
    <3> HIDE DEF n
    <3> QED
      BY <1>1, <2>1, CoinsSuffice
  <2>3. /\ q \in Payments(available, nValue)
        /\ q.state = "again" => q.fee > p.fee
        /\ q.state # "again" => IsFunded(available, q)
    BY <1>1, <2>1, <2>2, PassIs
  <2>4. Value(available) >= p.fee
    <3>1. Value(available) \in Nat
      BY ValueIs
    <3> HIDE DEF n
    <3> QED
      BY <1>1, <2>2, <3>1
  <2> QED
    BY <1>4, <2>3, <2>4
<1> QED
  BY <1>2, <1>3, <1>4

\* A payment after k passes.
AfterPasses(available, nValue, k) ==
  {p \in Payments(available, nValue) :
     IF p.state = "again" THEN p.fee >= k /\ Value(available) + 1 >= k ELSE IsFunded(available, p)}

LEMMA PassesGoOn ==
  ASSUME NEW available, IsCoins(available), NEW nValue \in Nat, NEW k \in Nat,
         NEW ps \in SUBSET AfterPasses(available, nValue, k)
  PROVE  UNION {Passes(available, p) : p \in ps} \in SUBSET AfterPasses(available, nValue, k + 1)
<1> SUFFICES ASSUME NEW p \in ps, NEW q \in Passes(available, p)
             PROVE  q \in AfterPasses(available, nValue, k + 1)
  OBVIOUS
<1>1. p \in AfterPasses(available, nValue, k)
  OBVIOUS
<1>2. p \in Payments(available, nValue) /\ p.fee \in Nat
  BY <1>1 DEF AfterPasses, Payments
<1>3. /\ q \in Payments(available, nValue)
      /\ p.state # "again" => q = p
      /\ p.state = "again" /\ q.state = "again" => q.fee > p.fee /\ Value(available) >= p.fee
      /\ p.state = "again" /\ q.state # "again" => IsFunded(available, q)
  BY <1>2, PassesAre
<1>4. q.fee \in Nat /\ Value(available) \in Nat
  BY <1>3, ValueIs DEF Payments
<1>5. CASE p.state # "again"
  BY <1>1, <1>3, <1>5 DEF AfterPasses
<1>6. CASE p.state = "again" /\ q.state # "again"
  BY <1>3, <1>6 DEF AfterPasses
<1>7. CASE p.state = "again" /\ q.state = "again"
  <2>1. p.fee >= k
    BY <1>1, <1>7 DEF AfterPasses
  <2>2. q.fee >= k + 1 /\ Value(available) + 1 >= k + 1
    BY <1>2, <1>3, <1>4, <1>7, <2>1
  <2> QED
    BY <1>3, <1>7, <2>2 DEF AfterPasses
<1> QED
  BY <1>5, <1>6, <1>7

\* Every payment that CreateTransaction makes takes in exactly what it pays out,
\* returns and leaves as fee, and pays what its size, the user and every pool ask;
\* and it ends, as the fee rises with every pass until no coins are enough for it:
\* for every finite set of coins and every amount.
THEOREM PaymentsAreFunded ==
  ASSUME NEW available, IsCoins(available), NEW nValue \in Nat
  PROVE  \A payment \in CreateTransaction(available, nValue) :
           IsFunded(available, payment) /\ payment \in Payments(available, nValue)
<1>0. Value(available) \in Nat /\ nTransactionFee \in Nat
  BY ValueIs, SelectionAssumption
<1> DEFINE e == {Payment("again", nValue, nTransactionFee, {}, 0)}
           s == [k \in 1..(Value(available) + 2) |-> k]
           n == Len(s)
           V == SUBSET Payments(available, nValue)
           Op(v, p) == UNION {Passes(available, q) : q \in v}
           G == [i \in 1..n |-> [v \in V |-> Op(v, s[i])]]
           Step(h, d) == IF d = {} THEN e ELSE Op(h[d \ {Max(d)}], s[Max(d)])
           iter == CHOOSE h : h = [d \in SUBSET (DOMAIN s) |-> Step(h, d)]
<1>1. n \in Nat /\ DOMAIN s = 1..n /\ \A i \in 1..n : s[i] \in Nat
  <2> DEFINE c == Value(available) + 2
  <2>1. c \in Nat
    BY <1>0
  <2>2. s = [i \in 1..c |-> i]
    OBVIOUS
  <2> HIDE DEF c, s
  <2> QED
    BY <2>1, <2>2
<1>2. ASSUME NEW v \in V, NEW p \in Nat PROVE Op(v, p) \in V
  <2> SUFFICES ASSUME NEW q \in v, NEW r \in Passes(available, q) PROVE r \in Payments(available, nValue)
    OBVIOUS
  <2>1. q \in Payments(available, nValue)
    OBVIOUS
  <2> QED
    BY <2>1, PassesAre
<1>3. IsRule(G, 1..n, V) /\ e \in V
  <2>1. e \in V
    BY <1>0 DEF Payment, Payments
  <2> HIDE DEF Op, V, n, s, e
  <2> QED
    BY <1>1, <1>2, <2>1 DEF IsRule
<1>4. PICK f \in [SUBSET (1..n) -> V] : IsFoldLeft(f, n, e, G)
  <2> HIDE DEF G, V, n, e
  <2> QED
    BY <1>1, <1>3, FoldRecursion
<1>5. ASSUME NEW d \in SUBSET (1..n) PROVE f[d] = Step(f, d)
  <2>1. CASE d # {}
    <3>1. Max(d) \in 1..n /\ d \ {Max(d)} \in SUBSET (1..n)
      <4> HIDE DEF n
      <4> QED
        BY <1>1, <2>1, MaxIs
    <3>2. f[d \ {Max(d)}] \in V
      BY <3>1
    <3>3. f[d] = G[Max(d)][f[d \ {Max(d)}]]
      <4> HIDE DEF G, V, n, e
      <4> QED
        BY <1>4, <2>1 DEF IsFoldLeft
    <3> HIDE DEF Op, V, n, s, e
    <3> QED
      BY <2>1, <3>1, <3>2, <3>3
  <2>2. CASE d = {}
    <3> HIDE DEF G, V, n, e
    <3> QED
      BY <1>4, <2>2 DEF IsFoldLeft
  <2> QED
    BY <2>1, <2>2
<1>6. iter = [d \in SUBSET (DOMAIN s) |-> Step(iter, d)]
  <2>1. f = [d \in SUBSET (DOMAIN s) |-> Step(f, d)]
    <3> HIDE DEF Step, n, V, s, e
    <3> QED
      BY <1>1, <1>5
  <2> HIDE DEF Step, s
  <2> QED
    BY <2>1
<1>7. \A d \in SUBSET (1..n) : iter[d] = Step(iter, d)
  <2> HIDE DEF Step, iter, n, s
  <2> QED
    BY <1>1, <1>6
<1>8. iter[1..0] = e
  <2>1. 1..0 \in SUBSET (1..n) /\ 1..0 = {}
    OBVIOUS
  <2>2. iter[1..0] = Step(iter, 1..0)
    <3> HIDE DEF Step, iter, n
    <3> QED
      BY <1>7, <2>1
  <2> HIDE DEF iter, Op, e
  <2> QED
    BY <2>1, <2>2
<1>9. ASSUME NEW k \in 1..n PROVE iter[1..k] = Op(iter[1..(k - 1)], s[k])
  <2>1. 1..k \in SUBSET (1..n) /\ Max(1..k) = k /\ (1..k) \ {k} = 1..(k - 1) /\ 1..k # {}
    <3> HIDE DEF n
    <3>1. n \in Nat
      BY <1>1
    <3>2. Max(1..k) = k /\ (1..k) \ {k} = 1..(k - 1) /\ 1..k # {}
      BY <3>1, MaxIs
    <3> QED
      BY <3>1, <3>2
  <2>2. iter[1..k] = Step(iter, 1..k)
    <3> HIDE DEF Step, iter, n
    <3> QED
      BY <1>7, <2>1
  <2> HIDE DEF iter, Op, n, s
  <2> QED
    BY <2>1, <2>2
<1>10. \A k \in 0..n : iter[1..k] \in V
  <2> HIDE DEF iter, V, n, s, Op, e
  <2>1. iter[1..0] \in V
    BY <1>3, <1>8
  <2>2. ASSUME NEW k \in 1..n, iter[1..(k - 1)] \in V PROVE iter[1..k] \in V
    BY <1>1, <1>2, <1>9, <2>2
  <2> QED
    BY <1>1, <2>1, <2>2, FoldStays
<1>11. CreateTransaction(available, nValue) = iter[1..n]
  <2>1. CreateTransaction(available, nValue) = iter[DOMAIN s]
    BY DEF CreateTransaction, FoldLeft, MapThenFoldSet
  <2> HIDE DEF iter, n, s
  <2> QED
    BY <1>1, <2>1
<1> DEFINE T == {k \in 0..n : iter[1..k] \in SUBSET AfterPasses(available, nValue, k)}
<1>12. 0 \in T
  <2>1. e \in SUBSET AfterPasses(available, nValue, 0) /\ 0 \in 0..n
    <3>1. Payment("again", nValue, nTransactionFee, {}, 0) \in Payments(available, nValue)
      BY <1>0 DEF Payment, Payments
    <3> HIDE DEF n
    <3> QED
      BY <1>0, <1>1, <3>1 DEF AfterPasses, Payment
  <2> HIDE DEF iter, n, e
  <2> QED
    BY <1>8, <2>1
<1>13. ASSUME NEW k \in 1..n, k - 1 \in T PROVE k \in T
  <2> DEFINE j == k - 1
  <2>1. j \in Nat /\ j + 1 = k /\ k \in 0..n
    <3> HIDE DEF n
    <3> QED
      BY <1>1
  <2>2. iter[1..j] \in SUBSET AfterPasses(available, nValue, j)
    BY <1>13
  <2>3. Op(iter[1..j], s[k]) \in SUBSET AfterPasses(available, nValue, j + 1)
    <3> HIDE DEF iter, n, s, j
    <3> QED
      BY <2>1, <2>2, PassesGoOn
  <2>4. iter[1..k] = Op(iter[1..j], s[k])
    BY <1>9
  <2> HIDE DEF iter, n, s, j, Op
  <2> QED
    BY <2>1, <2>3, <2>4
<1>14. n \in T
  <2>1. 0..n \subseteq T
    <3> HIDE DEF T, n
    <3> QED
      BY <1>1, <1>12, <1>13, CountInduction
  <2> HIDE DEF T, n
  <2> QED
    BY <1>1, <2>1
<1>15. n = Value(available) + 2
  BY <1>0
<1> HIDE DEF iter, n, s
<1> SUFFICES ASSUME NEW payment \in iter[1..n]
             PROVE  IsFunded(available, payment) /\ payment \in Payments(available, nValue)
  BY <1>11
<1>16. payment \in AfterPasses(available, nValue, n)
  BY <1>14
<1>17. payment.state # "again"
  BY <1>0, <1>15, <1>16 DEF AfterPasses
<1> QED
  BY <1>16, <1>17 DEF AfterPasses

----------------------------------------------------------------------------
(* The inductive invariant.                                                *)

\* The hashes of the transactions that the wallet and the chain may have.
Known == DOMAIN Foreign \cup (DOMAIN made \ pending)
Hashes == DOMAIN Foreign \cup Nat

Blocks(K) == [prev: Nat, vtx: Seq(K), valid: BOOLEAN]

ChainTyped ==
  /\ blocks \in Seq(Blocks(Known)) /\ IsTree(blocks)
  /\ pindexBest \in DOMAIN blocks

\* A payment knows those that were committed before it was created.
PaymentsTyped ==
  /\ DOMAIN made \subseteq 1..MaxPayments /\ pending \subseteq DOMAIN made
  /\ \A t \in DOMAIN made :
       /\ made[t].vin \in Seq(Hashes \X Nat)
       /\ made[t].vout \in Seq([mine: BOOLEAN, value: Nat])
       /\ made[t].after \subseteq DOMAIN made \ pending

\* The coins of the payments that were committed, as long as nothing went wrong
\* that breaks the property, and the transactions whose outputs a pending payment
\* spends.
Clean == faults \cap {"halfPaid", "restored"} = {}
CoinsOf(t) == Range(made[t].vin)
SafeCoins == IF Clean THEN UNION {CoinsOf(t) : t \in DOMAIN made \ pending} ELSE {}
PendingHashes == {p[1] : p \in UNION {CoinsOf(t) : t \in pending}}
Disjoint == \A t \in DOMAIN made : \A s \in made[t].after : CoinsOf(s) \cap CoinsOf(t) = {}

\* Memory and file are about the same transactions, and have the coins as spent.
Agree(w, f, K, X, run, hashes, coins) ==
  /\ IsWallet(w, K) /\ IsWallet(f.txs, K)
  /\ f = [txs |-> f.txs, best |-> f.best] /\ f.best \in X
  /\ run => Same(w, f.txs) /\ Marked(w, coins)
  /\ hashes \subseteq DOMAIN w
  /\ Marked(f.txs, coins)

WalletInv ==
  /\ ChainTyped /\ PaymentsTyped
  /\ pending # {} => running
  /\ Agree(mapWallet, walletFile, Known, DOMAIN blocks, running, PendingHashes, SafeCoins)
  /\ Clean => Disjoint

LEMMA AgreeWeaker ==
  ASSUME NEW w, NEW f, NEW K, NEW X, NEW run, NEW hashes, NEW coins,
         Agree(w, f, K, X, run, hashes, coins),
         NEW K2, K \subseteq K2, NEW X2, X \subseteq X2,
         NEW hashes2, hashes2 \subseteq hashes, NEW coins2, coins2 \subseteq coins
  PROVE  Agree(w, f, K2, X2, run, hashes2, coins2)
  BY DEF Agree, IsWallet, Marked

LEMMA NoWallet ==
  ASSUME NEW K
  PROVE  IsWallet(<<>>, K) /\ DOMAIN <<>> = {}
<1> DEFINE e == <<>>
<1>1. DOMAIN e = {} /\ e = [t \in DOMAIN e |-> e[t]]
  OBVIOUS
<1> HIDE DEF e
<1>2. IsWallet(e, K) /\ DOMAIN e = {}
  BY <1>1 DEF IsWallet
<1> QED
  BY <1>2 DEF e

LEMMA FileIs ==
  ASSUME NEW K, NEW A, NEW X, NEW f
  PROVE  /\ f \in Files(K, A, X) =>
              /\ f = [txs |-> f.txs, best |-> f.best] /\ f.best \in X
              /\ f.txs \in Wallets(K, A) /\ IsWallet(f.txs, K)
         /\ f = [txs |-> f.txs, best |-> f.best] /\ f.best \in X /\ f.txs \in Wallets(K, A) =>
              f \in Files(K, A, X)
<1>1. ASSUME f \in Files(K, A, X)
      PROVE  /\ f = [txs |-> f.txs, best |-> f.best] /\ f.best \in X
             /\ f.txs \in Wallets(K, A) /\ IsWallet(f.txs, K)
  <2>1. f = [txs |-> f.txs, best |-> f.best] /\ f.best \in X /\ f.txs \in Wallets(K, A)
    BY <1>1 DEF Files
  <2> QED
    BY <2>1, WalletIsTyped
<1>2. ASSUME f = [txs |-> f.txs, best |-> f.best], f.best \in X, f.txs \in Wallets(K, A)
      PROVE  f \in Files(K, A, X)
  <2>1. [txs |-> f.txs, best |-> f.best] \in Files(K, A, X)
    BY <1>2 DEF Files
  <2> QED
    BY <1>2, <2>1
<1> QED
  BY <1>1, <1>2

\* An operation ends with memory and file that agree, and a crash leaves one of the
\* files on the way.
LEMMA StoredAgrees ==
  ASSUME NEW K, NEW A, NEW X, NEW hashes, NEW coins, NEW at, NEW m \in Stored(K, A, X, hashes, coins, at)
  PROVE  /\ Agree(m.w, Last(m.files), K, X, TRUE, hashes, coins)
         /\ \A f \in Range(m.files) : Agree(<<>>, f, K, X, FALSE, {}, coins) /\ hashes \subseteq DOMAIN f.txs
         /\ Last(m.files) \in Range(m.files)
<1>1. /\ m.w \in Wallets(K, A) /\ Has(m.w, hashes, coins, at)
      /\ Last(m.files) \in Range(m.files) /\ Same(m.w, Last(m.files).txs)
      /\ \A f \in Range(m.files) : f \in Files(K, A, X) /\ Has(f.txs, hashes, coins, at)
  BY StoredIs
<1>2. ASSUME NEW f \in Range(m.files)
      PROVE  /\ f = [txs |-> f.txs, best |-> f.best] /\ f.best \in X /\ IsWallet(f.txs, K)
             /\ Marked(f.txs, coins) /\ hashes \subseteq DOMAIN f.txs
  <2>1. f \in Files(K, A, X) /\ Has(f.txs, hashes, coins, at)
    BY <1>1
  <2> QED
    BY <2>1, FileIs DEF Has
<1>3. IsWallet(m.w, K) /\ hashes \subseteq DOMAIN m.w /\ Marked(m.w, coins)
  BY <1>1, WalletIsTyped DEF Has
<1>4. Agree(m.w, Last(m.files), K, X, TRUE, hashes, coins)
  BY <1>1, <1>2, <1>3 DEF Agree
<1>5. ASSUME NEW f \in Range(m.files) PROVE Agree(<<>>, f, K, X, FALSE, {}, coins)
  <2> DEFINE e == <<>>
  <2>1. IsWallet(e, K)
    BY NoWallet
  <2> HIDE DEF e
  <2>2. Agree(e, f, K, X, FALSE, {}, coins)
    BY <1>2, <2>1 DEF Agree
  <2> QED
    BY <2>2 DEF e
<1> QED
  BY <1>1, <1>2, <1>4, <1>5

\* One starts from such memory and file, whatever else it works with.
LEMMA AgreeStarts ==
  ASSUME NEW w, NEW f, NEW K, NEW X, NEW some, NEW these, NEW B,
         Agree(w, f, K, X, TRUE, some, these),
         NEW hashes, NEW coins, NEW at, Has(w, hashes, coins, at)
  PROVE  \E A : B \subseteq A /\ InMemory(w, f) \in Stored(K, A, X, hashes, coins, at)
<1> DEFINE A == B \cup Content(w) \cup Content(f.txs)
<1>1. B \subseteq A /\ Content(w) \subseteq A /\ Content(f.txs) \subseteq A
  OBVIOUS
<1> HIDE DEF A
<1>2. w \in Wallets(K, A) /\ f.txs \in Wallets(K, A)
  BY <1>1, WalletIsTyped DEF Agree
<1>3. f \in Files(K, A, X)
  BY <1>2, FileIs DEF Agree
<1>4. Same(w, f.txs)
  BY DEF Agree
<1>5. Has(f.txs, hashes, coins, at)
  BY <1>4 DEF Has, Marked, Placed, Same
<1>6. InMemory(w, f) \in Stored(K, A, X, hashes, coins, at)
  BY <1>2, <1>3, <1>4, <1>5, InMemoryIsStored
<1> QED
  BY <1>1, <1>6

LEMMA LoadedStarts ==
  ASSUME NEW w, NEW f, NEW K, NEW X, NEW run, NEW some, NEW these, NEW B,
         Agree(w, f, K, X, run, some, these),
         NEW hashes, NEW coins, NEW at, Has(f.txs, hashes, coins, at)
  PROVE  \E A : B \subseteq A /\ Loaded(f) \in Stored(K, A, X, hashes, coins, at)
<1> DEFINE none == {}
<1>1. Agree(f.txs, f, K, X, TRUE, none, none)
  BY DEF Agree, Same, Marked
<1> HIDE DEF none
<1>2. \E A : B \subseteq A /\ InMemory(f.txs, f) \in Stored(K, A, X, hashes, coins, at)
  BY <1>1, AgreeStarts
<1> QED
  BY <1>2 DEF Loaded

\* Transactions that can be read.
LEMMA KnownIsReadable ==
  ASSUME PaymentsTyped, NEW K \in SUBSET (DOMAIN Foreign \cup DOMAIN made), NEW A, Nat \cup {-1, {}} \subseteq A
  PROVE  Readable(K, A) /\ IsFiniteSet(K)
<1>1. DOMAIN made \subseteq 1..MaxPayments
  BY DEF PaymentsTyped
<1>2. IsFiniteSet(DOMAIN made)
  <2>1. IsFiniteSet(1..MaxPayments)
    <3>1. MaxPayments \in Int /\ 1 \in Int
      BY WalletAssumption
    <3> QED
      BY <3>1, FS_Interval
  <2> QED
    BY <1>1, <2>1, FS_Subset
<1>3. IsFiniteSet(DOMAIN Foreign \cup DOMAIN made)
  BY <1>2, FS_Union, WalletAssumption
<1>4. IsFiniteSet(K)
  BY <1>3, FS_Subset
<1>5. ASSUME NEW t \in K PROVE \E Q : Transaction(t).vin \in Seq(Q) /\ \A q \in Q : q[2] \in A
  <2>1. CASE t \in DOMAIN Foreign
    <3> DEFINE Q == (DOMAIN Foreign \cup 1..MaxPayments) \X Nat
    <3>1. Transaction(t).vin \in Seq(Q) /\ \A q \in Q : q[2] \in A
      BY <2>1, WalletAssumption DEF Transaction
    <3> QED
      BY <3>1
  <2>2. CASE t \notin DOMAIN Foreign
    <3> DEFINE Q == Hashes \X Nat
    <3>1. Transaction(t).vin \in Seq(Q) /\ \A q \in Q : q[2] \in A
      BY <2>2 DEF Transaction, PaymentsTyped
    <3> QED
      BY <3>1
  <2> QED
    BY <2>1, <2>2
<1>6. -1 \in A /\ 0 \in A /\ {} \in A
  OBVIOUS
<1> QED
  BY <1>4, <1>5, <1>6 DEF Readable

LEMMA SequencesGrow ==
  ASSUME NEW S, NEW T, S \subseteq T, NEW s \in Seq(S)
  PROVE  s \in Seq(T)
<1> DEFINE n == Len(s)
<1>1. n \in Nat /\ s \in [1..n -> S]
  OBVIOUS
<1>2. s \in [1..n -> T]
  <2> HIDE DEF n
  <2> QED
    BY <1>1
<1> HIDE DEF n
<1> QED
  BY <1>1, <1>2

LEMMA BlocksGrow ==
  ASSUME NEW K, NEW K2, K \subseteq K2, NEW bs \in Seq(Blocks(K))
  PROVE  bs \in Seq(Blocks(K2))
<1>1. ASSUME NEW b \in Blocks(K) PROVE b \in Blocks(K2)
  <2>1. b.vtx \in Seq(K) /\ b = [prev |-> b.prev, vtx |-> b.vtx, valid |-> b.valid]
        /\ b.prev \in Nat /\ b.valid \in BOOLEAN
    BY DEF Blocks
  <2>2. b.vtx \in Seq(K2)
    BY <2>1, SequencesGrow
  <2>3. [prev |-> b.prev, vtx |-> b.vtx, valid |-> b.valid] \in Blocks(K2)
    BY <2>1, <2>2 DEF Blocks
  <2> QED
    BY <2>1, <2>3
<1>2. Blocks(K) \subseteq Blocks(K2)
  BY <1>1
<1> QED
  BY <1>2, SequencesGrow

LEMMA SubsetsMeetLess ==
  ASSUME NEW S, NEW T, S \subseteq T, NEW R, T \cap R = {}
  PROVE  S \cap R = {}
  OBVIOUS

LEMMA NothingIsMended ==
  ASSUME faults \subseteq faults'
  PROVE  Clean' => Clean
<1> DEFINE R == {"halfPaid", "restored"}
<1> SUFFICES ASSUME faults' \cap R = {} PROVE faults \cap R = {}
  BY DEF Clean
<1> HIDE DEF R
<1> QED
  BY SubsetsMeetLess

\* What a step leaves of the invariant when the payments stay, and when some are
\* committed or dropped.
LEMMA PaymentsStay ==
  ASSUME WalletInv, made' = made, pending' = pending, faults \subseteq faults'
  PROVE  /\ PaymentsTyped' /\ Known' = Known /\ PendingHashes' = PendingHashes
         /\ SafeCoins' \subseteq SafeCoins /\ (Clean' => Disjoint')
<1>1. PaymentsTyped' /\ Known' = Known /\ PendingHashes' = PendingHashes
  BY DEF WalletInv, PaymentsTyped, Known, PendingHashes, CoinsOf
<1>2. Clean' => Clean
  BY NothingIsMended
<1>3. SafeCoins' \subseteq SafeCoins
  BY <1>2 DEF SafeCoins, CoinsOf
<1>4. Clean' => Disjoint'
  BY <1>2 DEF WalletInv, Disjoint, CoinsOf
<1> QED
  BY <1>1, <1>3, <1>4

LEMMA PaymentsEnd ==
  ASSUME WalletInv, NEW paid, paid \subseteq pending, NEW dropped, dropped \subseteq pending \ paid,
         DOMAIN made' = DOMAIN made \ dropped, \A t \in DOMAIN made' : made'[t] = made[t],
         pending' = (pending \ paid) \ dropped, faults \subseteq faults'
  PROVE  /\ PaymentsTyped' /\ Known' = Known \cup paid /\ PendingHashes' \subseteq PendingHashes
         /\ SafeCoins' \subseteq SafeCoins \cup UNION {CoinsOf(t) : t \in paid}
         /\ (~Clean' => SafeCoins' = {}) /\ (Clean' => Disjoint')
         /\ (pending' = {} => PendingHashes' = {})
<1>1. /\ DOMAIN made \subseteq 1..MaxPayments /\ pending \subseteq DOMAIN made
      /\ \A t \in DOMAIN made :
           /\ made[t].vin \in Seq(Hashes \X Nat)
           /\ made[t].vout \in Seq([mine: BOOLEAN, value: Nat])
           /\ made[t].after \subseteq DOMAIN made \ pending
  BY DEF WalletInv, PaymentsTyped
<1>2. DOMAIN made' = DOMAIN made \ dropped /\ \A t \in DOMAIN made' : made'[t] = made[t]
  OBVIOUS
<1>3. DOMAIN made' \ pending' = (DOMAIN made \ pending) \cup paid
  BY <1>1, <1>2
<1>4. PaymentsTyped'
  <2>1. DOMAIN made' \subseteq 1..MaxPayments /\ pending' \subseteq DOMAIN made'
    BY <1>1, <1>2
  <2>2. ASSUME NEW t \in DOMAIN made'
        PROVE  /\ made'[t].vin \in Seq(Hashes \X Nat)
               /\ made'[t].vout \in Seq([mine: BOOLEAN, value: Nat])
               /\ made'[t].after \subseteq DOMAIN made' \ pending'
    BY <1>1, <1>2, <1>3
  <2> QED
    BY <2>1, <2>2 DEF PaymentsTyped, Hashes
<1>5. Known' = Known \cup paid
  BY <1>3 DEF Known
<1>6. \A t \in DOMAIN made' : CoinsOf(t)' = CoinsOf(t) /\ t \in DOMAIN made
  BY <1>2 DEF CoinsOf
<1>7. PendingHashes' \subseteq PendingHashes /\ (pending' = {} => PendingHashes' = {})
  <2>1. PendingHashes' = {p[1] : p \in UNION {CoinsOf(t)' : t \in pending'}}
    BY DEF PendingHashes
  <2>2. \A t \in pending' : t \in pending /\ CoinsOf(t)' = CoinsOf(t)
    BY <1>1, <1>2, <1>6
  <2> QED
    BY <2>1, <2>2 DEF PendingHashes
<1>8. Clean' => Clean
  BY NothingIsMended
<1>9. SafeCoins' \subseteq SafeCoins \cup UNION {CoinsOf(t) : t \in paid} /\ (~Clean' => SafeCoins' = {})
  <2>1. SafeCoins' = IF Clean' THEN UNION {CoinsOf(t)' : t \in DOMAIN made' \ pending'} ELSE {}
    BY DEF SafeCoins
  <2>2. \A t \in DOMAIN made' \ pending' : CoinsOf(t)' = CoinsOf(t) /\ (t \in DOMAIN made \ pending \/ t \in paid)
    BY <1>3, <1>6
  <2> QED
    BY <1>8, <2>1, <2>2 DEF SafeCoins
<1>10. Clean' => Disjoint'
  <2>1. Disjoint' <=> \A t \in DOMAIN made' : \A s \in made'[t].after : CoinsOf(s)' \cap CoinsOf(t)' = {}
    BY DEF Disjoint
  <2>2. \A t \in DOMAIN made' : /\ CoinsOf(t)' = CoinsOf(t) /\ t \in DOMAIN made /\ made'[t].after = made[t].after
                               /\ \A s \in made[t].after : CoinsOf(s)' = CoinsOf(s)
    BY <1>1, <1>2, <1>3, <1>6
  <2> QED
    BY <1>8, <2>1, <2>2 DEF WalletInv, Disjoint
<1> QED
  BY <1>4, <1>5, <1>7, <1>9, <1>10

LEMMA PendingIsDropped ==
  ASSUME WalletInv, made' = MadeWithout(pending), pending' = {}, faults \subseteq faults'
  PROVE  /\ PaymentsTyped' /\ Known' = Known /\ PendingHashes' = {}
         /\ SafeCoins' \subseteq SafeCoins /\ (Clean' => Disjoint')
<1> DEFINE paid == {}
<1>1. /\ paid \subseteq pending /\ pending \subseteq pending \ paid /\ pending' = (pending \ paid) \ pending
      /\ UNION {CoinsOf(t) : t \in paid} = {} /\ Known \cup paid = Known
      /\ DOMAIN made' = DOMAIN made \ pending /\ \A t \in DOMAIN made' : made'[t] = made[t]
  BY DEF MadeWithout
<1> HIDE DEF paid
<1> QED
  BY <1>1, PaymentsEnd

LEMMA ChainStays ==
  ASSUME WalletInv, UNCHANGED <<blocks, pindexBest>>, Known \subseteq Known'
  PROVE  ChainTyped'
  BY BlocksGrow DEF WalletInv, ChainTyped

\* The caches of the amounts.
LEMMA CachesAre ==
  ASSUME NEW K, NEW w, IsWallet(w, K), NEW debits, NEW credits
  PROVE  /\ IsWallet(Caches(w, debits, credits), K) /\ DOMAIN Caches(w, debits, credits) = DOMAIN w
         /\ \A t \in DOMAIN w : /\ Caches(w, debits, credits)[t].spent = w[t].spent
                               /\ Caches(w, debits, credits)[t].block = w[t].block
<1> DEFINE v == Caches(w, debits, credits)
<1>1. DOMAIN v = DOMAIN w /\ v = [t \in DOMAIN v |-> v[t]]
  BY DEF Caches
<1>2. ASSUME NEW t \in DOMAIN w PROVE IsRecord(v[t]) /\ v[t].spent = w[t].spent /\ v[t].block = w[t].block
  <2> DEFINE r == w[t]
             a == IF t \in debits THEN CachedDebit(w, t) ELSE r.nDebit
             b == IF t \in credits /\ r.nAvailableCredit = -1 THEN GetAvailableCredit(w, t) ELSE r.nAvailableCredit
  <2>1. v[t] = [r EXCEPT !.nDebit = a, !.nAvailableCredit = b]
    BY DEF Caches
  <2>2. IsRecord(r)
    BY DEF IsWallet
  <2> HIDE DEF v, r, a, b
  <2>3. v[t] = [block |-> r.block, spent |-> r.spent, prev |-> r.prev, nDebit |-> a, nAvailableCredit |-> b]
    BY <2>1, <2>2 DEF IsRecord
  <2>4. IsRecord(v[t]) /\ v[t].spent = r.spent /\ v[t].block = r.block
    BY <2>3 DEF IsRecord
  <2> QED
    BY <2>4 DEF r
<1> HIDE DEF v
<1>3. IsWallet(v, K)
  BY <1>1, <1>2 DEF IsWallet
<1> QED
  BY <1>1, <1>2, <1>3 DEF v

LEMMA CachesAgree ==
  ASSUME NEW w, NEW f, NEW K, NEW X, NEW run, NEW hashes, NEW coins,
         Agree(w, f, K, X, run, hashes, coins), NEW debits, NEW credits
  PROVE  Agree(Caches(w, debits, credits), f, K, X, run, hashes, coins)
<1> DEFINE v == Caches(w, debits, credits)
<1>1. /\ IsWallet(v, K) /\ DOMAIN v = DOMAIN w
      /\ \A t \in DOMAIN w : v[t].spent = w[t].spent /\ v[t].block = w[t].block
  BY CachesAre DEF Agree
<1> HIDE DEF v
<1>2. Agree(v, f, K, X, run, hashes, coins)
  BY <1>1 DEF Agree, Marked, Same
<1> QED
  BY <1>2 DEF v

----------------------------------------------------------------------------
(* The steps.                                                              *)

LEMMA InvAfter ==
  ASSUME ChainTyped', PaymentsTyped', (pending # {} => running)', (Clean => Disjoint)',
         Agree(mapWallet', walletFile', Known', DOMAIN blocks', running', PendingHashes', SafeCoins')
  PROVE  WalletInv'
  BY DEF WalletInv

LEMMA FirstFileIs ==
  /\ IsWallet(FirstFile.txs, DOMAIN Foreign)
  /\ FirstFile = [txs |-> FirstFile.txs, best |-> FirstFile.best] /\ FirstFile.best = 1
<1> DEFINE mine == {t \in Range(FirstBlock) : \E i \in DOMAIN Foreign[t].vout : Foreign[t].vout[i].mine}
           w == [t \in mine |-> WalletTx(1, {})]
<1>1. mine \subseteq DOMAIN Foreign
  BY RangeIsFinite, WalletAssumption
<1>2. FirstFile = [txs |-> w, best |-> 1]
  BY DEF FirstFile
<1> HIDE DEF mine
<1>3. DOMAIN w = mine /\ w = [t \in DOMAIN w |-> w[t]] /\ \A t \in mine : w[t] = WalletTx(1, {})
  OBVIOUS
<1>4. IsRecord(WalletTx(1, {}))
  BY DEF IsRecord, WalletTx
<1>5. IsWallet(w, DOMAIN Foreign)
  <2> HIDE DEF w
  <2> QED
    BY <1>1, <1>3, <1>4 DEF IsWallet
<1> HIDE DEF w
<1> QED
  BY <1>2, <1>5

LEMMA WalletInitInv ==
  ASSUME WalletInit
  PROVE  WalletInv
<1> USE DEF WalletInit
<1>1. DOMAIN made = {} /\ pending = {} /\ Known = DOMAIN Foreign
  BY DEF Known
<1>2. ChainTyped
  <2> DEFINE b == [prev |-> 0, vtx |-> FirstBlock, valid |-> TRUE]
  <2>1. b \in Blocks(Known) /\ b.prev = 0
    BY <1>1, WalletAssumption DEF Blocks
  <2> HIDE DEF b
  <2>2. blocks = <<b>> /\ pindexBest = 1
    BY DEF b
  <2> DEFINE S == Blocks(Known)
  <2>3. DOMAIN blocks = {1} /\ blocks[1] = b /\ blocks \in Seq(S)
    <3>1. b \in S
      BY <2>1
    <3> HIDE DEF S
    <3>2. <<b>> \in Seq(S) /\ <<b>>[1] = b /\ DOMAIN <<b>> = 1..1
      BY <3>1
    <3>3. 1..1 = {1}
      OBVIOUS
    <3> QED
      BY <2>2, <3>2, <3>3
  <2> QED
    BY <2>1, <2>2, <2>3 DEF ChainTyped, IsTree
<1>3. PaymentsTyped /\ (pending # {} => running)
  BY <1>1 DEF PaymentsTyped
<1>4. SafeCoins = {} /\ PendingHashes = {} /\ 1 \in DOMAIN blocks
  BY <1>1 DEF SafeCoins, PendingHashes
<1>5. Agree(mapWallet, walletFile, Known, DOMAIN blocks, running, PendingHashes, SafeCoins)
  <2>1. mapWallet = FirstFile.txs /\ walletFile = FirstFile
    OBVIOUS
  <2>2. Same(mapWallet, mapWallet)
    BY DEF Same
  <2> QED
    BY <1>1, <1>4, <2>1, <2>2, FirstFileIs DEF Agree, Marked
<1> QED
  BY <1>1, <1>2, <1>3, <1>5 DEF WalletInv, Disjoint

LEMMA GetBalanceInv ==
  ASSUME WalletInv, GetBalance
  PROVE  WalletInv'
<1>1. PICK debits, credits : mapWallet' = Caches(mapWallet, debits, credits)
  BY DEF GetBalance
<1>2. UNCHANGED <<blocks, pindexBest, walletFile, made, pending, running, faults>>
  BY DEF GetBalance
<1>3. /\ PaymentsTyped' /\ Known' = Known /\ PendingHashes' = PendingHashes
      /\ SafeCoins' \subseteq SafeCoins /\ (Clean' => Disjoint')
  BY <1>2, PaymentsStay
<1>4. Agree(mapWallet', walletFile, Known, DOMAIN blocks, running, PendingHashes, SafeCoins)
  BY <1>1, CachesAgree DEF WalletInv
<1>5. Agree(mapWallet', walletFile', Known', DOMAIN blocks', running', PendingHashes', SafeCoins')
  BY <1>2, <1>3, <1>4, AgreeWeaker
<1>6. ChainTyped' /\ (pending # {} => running)'
  BY <1>2, <1>3, ChainStays DEF WalletInv
<1> QED
  BY <1>3, <1>5, <1>6, InvAfter

LEMMA AbandonInv ==
  ASSUME WalletInv, NEW t \in pending, Abandon(t)
  PROVE  WalletInv'
<1> DEFINE paid == {}
           dropped == {t}
<1>1. /\ UNCHANGED <<blocks, pindexBest, mapWallet, walletFile, running, faults>> /\ running
      /\ pending' = pending \ dropped /\ made' = MadeWithout(dropped)
  BY DEF Abandon
<1>2. /\ paid \subseteq pending /\ dropped \subseteq pending \ paid /\ pending' = (pending \ paid) \ dropped
      /\ UNION {CoinsOf(u) : u \in paid} = {} /\ Known \cup paid = Known
      /\ DOMAIN made' = DOMAIN made \ dropped /\ \A u \in DOMAIN made' : made'[u] = made[u]
  BY <1>1 DEF MadeWithout
<1> HIDE DEF paid, dropped
<1>3. /\ PaymentsTyped' /\ Known' = Known /\ PendingHashes' \subseteq PendingHashes
      /\ SafeCoins' \subseteq SafeCoins /\ (Clean' => Disjoint')
  BY <1>1, <1>2, PaymentsEnd
<1>4. Agree(mapWallet', walletFile', Known', DOMAIN blocks', running', PendingHashes', SafeCoins')
  BY <1>1, <1>3, AgreeWeaker DEF WalletInv
<1>5. ChainTyped' /\ (pending # {} => running)'
  BY <1>1, <1>3, ChainStays DEF WalletInv
<1> QED
  BY <1>3, <1>4, <1>5, InvAfter

\* The process dies with one of these files.
LEMMA DiesAgrees ==
  ASSUME NEW K, NEW A, NEW X, NEW hashes, NEW coins, NEW at, NEW m \in Stored(K, A, X, hashes, coins, at), Dies(m)
  PROVE  /\ Agree(mapWallet', walletFile', K, X, running', {}, coins) /\ running' = FALSE
         /\ hashes \subseteq DOMAIN walletFile'.txs
<1>1. walletFile' \in Range(m.files) /\ running' = FALSE /\ mapWallet' = <<>>
  BY DEF Dies
<1>2. Agree(<<>>, walletFile', K, X, FALSE, {}, coins) /\ hashes \subseteq DOMAIN walletFile'.txs
  BY <1>1, StoredAgrees
<1> QED
  BY <1>1, <1>2

LEMMA FinishesAgrees ==
  ASSUME NEW K, NEW A, NEW X, NEW hashes, NEW coins, NEW at, NEW m \in Stored(K, A, X, hashes, coins, at),
         running, Finishes(m)
  PROVE  Agree(mapWallet', walletFile', K, X, running', hashes, coins) /\ running' = TRUE
<1>1. mapWallet' = m.w /\ walletFile' = Last(m.files) /\ running' = running
  BY DEF Finishes
<1>2. Agree(mapWallet', walletFile', K, X, TRUE, hashes, coins)
  BY <1>1, StoredAgrees
<1>3. CASE running = TRUE
  BY <1>1, <1>2, <1>3
<1>4. running = TRUE
  OBVIOUS
<1> QED
  BY <1>3, <1>4

LEMMA StopInv ==
  ASSUME WalletInv, Stop
  PROVE  WalletInv'
<1>1. /\ running /\ Dies(InMemory(mapWallet, walletFile)) /\ UNCHANGED <<blocks, pindexBest>>
      /\ pending' = {} /\ made' = MadeWithout(pending) /\ faults \subseteq faults'
  BY DEF Stop, Crashed
<1>2. /\ PaymentsTyped' /\ Known' = Known /\ PendingHashes' = {}
      /\ SafeCoins' \subseteq SafeCoins /\ (Clean' => Disjoint')
  BY <1>1, PendingIsDropped
<1>3. walletFile' = walletFile /\ mapWallet' = <<>> /\ running' = FALSE
  BY <1>1 DEF Dies, InMemory, Range
<1>4. Agree(<<>>, walletFile, Known, DOMAIN blocks, FALSE, {}, SafeCoins)
  <2> DEFINE e == <<>>
  <2>1. IsWallet(e, Known)
    BY NoWallet
  <2> HIDE DEF e
  <2>2. Agree(e, walletFile, Known, DOMAIN blocks, FALSE, {}, SafeCoins)
    BY <2>1 DEF WalletInv, Agree
  <2> QED
    BY <2>2 DEF e
<1>5. Agree(mapWallet', walletFile', Known', DOMAIN blocks', running', PendingHashes', SafeCoins')
  BY <1>1, <1>2, <1>3, <1>4, AgreeWeaker
<1>6. ChainTyped' /\ (pending # {} => running)'
  BY <1>1, <1>2, ChainStays
<1> QED
  BY <1>2, <1>5, <1>6, InvAfter

LEMMA RestoreBackupInv ==
  ASSUME WalletInv, RestoreBackup
  PROVE  WalletInv'
<1>1. /\ UNCHANGED <<blocks, pindexBest, mapWallet, made, pending, running>>
      /\ ~running /\ walletFile' = FirstFile /\ faults' = faults \cup {"restored"} /\ faults \subseteq faults'
  BY DEF RestoreBackup
<1>2. /\ PaymentsTyped' /\ Known' = Known /\ PendingHashes' = PendingHashes
      /\ (Clean' => Disjoint')
  BY <1>1, PaymentsStay
<1>3. SafeCoins' = {}
  BY <1>1 DEF SafeCoins, Clean
<1>4. 1 \in DOMAIN blocks'
  <2>1. pindexBest \in DOMAIN blocks /\ DOMAIN blocks = 1..Len(blocks)
    BY DEF WalletInv, ChainTyped
  <2> QED
    BY <1>1, <2>1
<1>5. IsWallet(FirstFile.txs, Known)
  BY FirstFileIs DEF IsWallet, Known
<1>6. Agree(mapWallet', walletFile', Known', DOMAIN blocks', running', PendingHashes', SafeCoins')
  BY <1>1, <1>2, <1>3, <1>4, <1>5, FirstFileIs DEF WalletInv, Agree, Marked
<1>7. ChainTyped' /\ (pending # {} => running)'
  BY <1>1, <1>2, ChainStays DEF WalletInv
<1> QED
  BY <1>2, <1>6, <1>7, InvAfter

LEMMA AgreeRuns ==
  ASSUME NEW w, NEW f, NEW K, NEW X, NEW run, NEW hashes, NEW coins,
         Agree(w, f, K, X, run, hashes, coins), run
  PROVE  Agree(w, f, K, X, TRUE, hashes, coins)
  BY DEF Agree

\* A pending payment, as a transaction that can be committed.
LEMMA PendingIs ==
  ASSUME WalletInv, NEW t \in pending
  PROVE  /\ t \in DOMAIN made /\ t \notin DOMAIN Foreign /\ t \notin Known
         /\ Known \subseteq DOMAIN Foreign \cup DOMAIN made
         /\ Inputs(t) = CoinsOf(t)
         /\ \A p \in CoinsOf(t) : p[1] \in PendingHashes /\ p[2] \in Nat
         /\ made[t].vin \in Seq(CoinsOf(t))
<1>1. t \in DOMAIN made /\ DOMAIN made \subseteq 1..MaxPayments
  BY DEF WalletInv, PaymentsTyped
<1>2. t \notin DOMAIN Foreign
  BY <1>1, WalletAssumption
<1>3. t \notin Known /\ Known \subseteq DOMAIN Foreign \cup DOMAIN made
  BY <1>2 DEF Known
<1>4. Inputs(t) = CoinsOf(t)
  BY <1>2 DEF Inputs, CoinsOf, Transaction
<1>5. made[t].vin \in Seq(Hashes \X Nat)
  BY <1>1 DEF WalletInv, PaymentsTyped
<1>6. \A p \in CoinsOf(t) : p[1] \in PendingHashes /\ p[2] \in Nat
  <2>1. CoinsOf(t) \subseteq Hashes \X Nat
    BY <1>5, RangeIsFinite DEF CoinsOf
  <2> QED
    BY <2>1 DEF PendingHashes
<1>7. made[t].vin \in Seq(CoinsOf(t))
  BY <1>5, SequenceOfRange DEF CoinsOf
<1> QED
  BY <1>1, <1>2, <1>3, <1>4, <1>6, <1>7

LEMMA NoneIsRefused ==
  ASSUME NEW w, NEW f, NEW none, none = {}
  PROVE  Refusing(InMemory(w, f), none) = InMemory(w, f)
  BY DEF Refusing, InMemory

\* A refusal that is met leaves its mark, so while all is written there was none.
LEMMA CommitIs ==
  ASSUME NEW t, NEW refused, CommitTransaction(t, refused), AllWritten'
  PROVE  LET m == Committed(InMemory(mapWallet, walletFile), t) IN
         /\ running /\ t \in pending /\ UNCHANGED <<blocks, pindexBest>>
         /\ \/ /\ Finishes(m) /\ pending' = pending \ {t} /\ made' = made
               /\ faults' = faults \cup m.faults
            \/ /\ Dies(m) /\ pending' = {}
               /\ made' = MadeWithout(IF t \in DOMAIN walletFile'.txs THEN pending \ {t} ELSE pending)
               /\ faults' = Crashed(IF HalfPaid(walletFile', t) THEN {"halfPaid"} ELSE {})
<1> DEFINE n == Committed(Refusing(InMemory(mapWallet, walletFile), refused), t)
<1>1. /\ running /\ t \in pending /\ Met(refused, n) /\ UNCHANGED <<blocks, pindexBest>>
      /\ \/ Finishes(n) /\ pending' = pending \ {t} /\ UNCHANGED made /\ faults' = faults \cup n.faults
         \/ /\ Dies(n) /\ pending' = {}
            /\ made' = MadeWithout(IF t \in DOMAIN walletFile'.txs THEN pending \ {t} ELSE pending)
            /\ faults' = Crashed(IF HalfPaid(walletFile', t) THEN {"halfPaid"} ELSE {})
  BY DEF CommitTransaction
<1>2. refused = {}
  <2> HIDE DEF n
  <2> QED
    BY <1>1 DEF Met, Dies, AllWritten
<1>3. n = Committed(InMemory(mapWallet, walletFile), t)
  BY <1>2, NoneIsRefused
<1> HIDE DEF n
<1> QED
  BY <1>1, <1>3

LEMMA CommitTransactionInv ==
  ASSUME WalletInv, NEW t, NEW refused, CommitTransaction(t, refused), AllWritten'
  PROVE  WalletInv'
<1> DEFINE K == Known \cup {t}
           m == Committed(InMemory(mapWallet, walletFile), t)
<1>1. /\ running /\ t \in pending /\ UNCHANGED <<blocks, pindexBest>>
      /\ \/ Finishes(m) /\ pending' = pending \ {t} /\ made' = made /\ faults' = faults \cup m.faults
         \/ /\ Dies(m) /\ pending' = {}
            /\ made' = MadeWithout(IF t \in DOMAIN walletFile'.txs THEN pending \ {t} ELSE pending)
            /\ faults' = Crashed(IF HalfPaid(walletFile', t) THEN {"halfPaid"} ELSE {})
  BY CommitIs
<1>2. /\ t \in DOMAIN made /\ t \notin DOMAIN Foreign /\ t \notin Known
      /\ Known \subseteq DOMAIN Foreign \cup DOMAIN made
      /\ Inputs(t) = CoinsOf(t)
      /\ \A p \in CoinsOf(t) : p[1] \in PendingHashes /\ p[2] \in Nat
      /\ made[t].vin \in Seq(CoinsOf(t))
  BY <1>1, PendingIs
<1>3. Agree(mapWallet, walletFile, K, DOMAIN blocks, TRUE, PendingHashes, SafeCoins)
  <2>1. Agree(mapWallet, walletFile, Known, DOMAIN blocks, TRUE, PendingHashes, SafeCoins)
    BY <1>1, AgreeRuns DEF WalletInv
  <2> QED
    BY <2>1, AgreeWeaker
<1> DEFINE B == Nat \cup {-1, {}, made[t].prev}
<1>4. PICK A : /\ B \subseteq A
               /\ InMemory(mapWallet, walletFile) \in Stored(K, A, DOMAIN blocks, PendingHashes, SafeCoins, NoPlaces)
  <2>1. Has(mapWallet, PendingHashes, SafeCoins, NoPlaces)
    BY <1>3 DEF Agree, Has, Placed, NoPlaces
  <2> HIDE DEF B, K
  <2> QED
    BY <1>3, <2>1, AgreeStarts
<1>5. Readable(K, A) /\ made[t].prev \in A
  <2>1. Nat \cup {-1, {}} \subseteq A /\ made[t].prev \in A /\ K \in SUBSET (DOMAIN Foreign \cup DOMAIN made)
    BY <1>2, <1>4
  <2> HIDE DEF K, B
  <2> QED
    BY <2>1, KnownIsReadable DEF WalletInv
<1>6. /\ m \in Stored(K, A, DOMAIN blocks, PendingHashes, SafeCoins, NoPlaces)
      /\ SpentInBoth(m, CoinsOf(t))
  <2>1. t \in K /\ \A q \in CoinsOf(t) : q[1] \in PendingHashes /\ q[2] \in A
    BY <1>2, <1>4
  <2>2. \A p \in NoPlaces : p[1] # t
    BY DEF NoPlaces
  <2> HIDE DEF K, B
  <2> QED
    BY <1>2, <1>4, <1>5, <2>1, <2>2, CommittedKeeps DEF CoinsOf
<1>7. m.faults = {}
  <2> HIDE DEF m, K, B
  <2> QED
    BY <1>6 DEF Stored, Updates
<1> DEFINE paid == {t}
           none == {}
           others == pending \ {t}
<1>8. paid \subseteq pending /\ none \subseteq pending \ paid /\ others \subseteq pending \ paid
      /\ UNION {CoinsOf(u) : u \in paid} = CoinsOf(t) /\ Known \cup paid = K
  BY <1>1
<1> HIDE DEF m, K, B, paid, none, others
<1>9. ASSUME made' = made, pending' = others, faults \subseteq faults'
      PROVE  /\ PaymentsTyped' /\ Known' = K /\ PendingHashes' \subseteq PendingHashes
             /\ SafeCoins' \subseteq SafeCoins \cup CoinsOf(t) /\ (~Clean' => SafeCoins' = {})
             /\ (Clean' => Disjoint')
  <2>1. /\ DOMAIN made' = DOMAIN made \ none /\ \A u \in DOMAIN made' : made'[u] = made[u]
        /\ pending' = (pending \ paid) \ none
    BY <1>9 DEF none, others, paid
  <2> QED
    BY <1>8, <1>9, <2>1, PaymentsEnd
<1>10. ASSUME made' = MadeWithout(others), pending' = {}, faults \subseteq faults'
       PROVE  /\ PaymentsTyped' /\ Known' = K /\ PendingHashes' = {}
              /\ SafeCoins' \subseteq SafeCoins \cup CoinsOf(t) /\ (~Clean' => SafeCoins' = {})
              /\ (Clean' => Disjoint')
  <2>1. /\ DOMAIN made' = DOMAIN made \ others /\ \A u \in DOMAIN made' : made'[u] = made[u]
        /\ pending' = (pending \ paid) \ others
    BY <1>10 DEF MadeWithout, others, paid
  <2> QED
    BY <1>8, <1>10, <2>1, PaymentsEnd
<1>11. CASE Finishes(m) /\ pending' = pending \ {t} /\ made' = made /\ faults' = faults \cup m.faults
  <2>1. /\ PaymentsTyped' /\ Known' = K /\ PendingHashes' \subseteq PendingHashes
        /\ SafeCoins' \subseteq SafeCoins \cup CoinsOf(t) /\ (Clean' => Disjoint')
    BY <1>9, <1>11 DEF others
  <2>2. Agree(mapWallet', walletFile', K, DOMAIN blocks, running', PendingHashes, SafeCoins) /\ running' = TRUE
    BY <1>1, <1>6, <1>11, FinishesAgrees
  <2>3. Marked(mapWallet', CoinsOf(t)) /\ Marked(walletFile'.txs, CoinsOf(t))
    BY <1>6, <1>11 DEF SpentInBoth, Finishes
  <2>4. Agree(mapWallet', walletFile', K, DOMAIN blocks, running', PendingHashes, SafeCoins \cup CoinsOf(t))
    BY <2>2, <2>3 DEF Agree, Marked
  <2>5. Agree(mapWallet', walletFile', Known', DOMAIN blocks', running', PendingHashes', SafeCoins')
    BY <1>1, <2>1, <2>4, AgreeWeaker
  <2>6. ChainTyped'
    BY <1>1, <2>1, ChainStays DEF K
  <2> QED
    BY <2>1, <2>2, <2>5, <2>6, InvAfter
<1>12. CASE /\ Dies(m) /\ pending' = {}
            /\ made' = MadeWithout(IF t \in DOMAIN walletFile'.txs THEN pending \ {t} ELSE pending)
            /\ faults' = Crashed(IF HalfPaid(walletFile', t) THEN {"halfPaid"} ELSE {})
  <2>1. /\ Agree(mapWallet', walletFile', K, DOMAIN blocks, running', {}, SafeCoins) /\ running' = FALSE
        /\ PendingHashes \subseteq DOMAIN walletFile'.txs
    BY <1>6, <1>12, DiesAgrees
  <2>2. faults \subseteq faults'
    BY <1>12 DEF Crashed
  <2>3. CASE t \in DOMAIN walletFile'.txs
    <3>1. /\ PaymentsTyped' /\ Known' = K /\ PendingHashes' = {}
          /\ SafeCoins' \subseteq SafeCoins \cup CoinsOf(t) /\ (~Clean' => SafeCoins' = {})
          /\ (Clean' => Disjoint')
      BY <1>10, <1>12, <2>2, <2>3 DEF others
    <3>2. Clean' => Marked(walletFile'.txs, CoinsOf(t))
      <4> SUFFICES ASSUME Clean' PROVE Marked(walletFile'.txs, CoinsOf(t))
        OBVIOUS
      <4>1. ~HalfPaid(walletFile', t)
        BY <1>12 DEF Clean, Crashed
      <4> QED
        BY <1>2, <2>1, <2>3, <4>1 DEF HalfPaid, Marked, Inputs, Transaction, CoinsOf, MadeWithout
    <3>3. Agree(mapWallet', walletFile', K, DOMAIN blocks, running', {}, SafeCoins')
      BY <2>1, <3>1, <3>2 DEF Agree, Marked
    <3>4. Agree(mapWallet', walletFile', Known', DOMAIN blocks', running', PendingHashes', SafeCoins')
      BY <1>1, <3>1, <3>3
    <3>5. ChainTyped'
      BY <1>1, <3>1, ChainStays DEF K
    <3> QED
      BY <1>12, <3>1, <3>4, <3>5, InvAfter
  <2>4. CASE t \notin DOMAIN walletFile'.txs
    <3>1. /\ PaymentsTyped' /\ Known' = Known /\ PendingHashes' = {}
          /\ SafeCoins' \subseteq SafeCoins /\ (Clean' => Disjoint')
      BY <1>12, <2>2, <2>4, PendingIsDropped
    <3>2. IsWallet(walletFile'.txs, Known) /\ IsWallet(mapWallet', Known)
      <4>1. DOMAIN walletFile'.txs \subseteq Known
        BY <2>1, <2>4 DEF Agree, IsWallet, K
      <4>2. mapWallet' = <<>>
        BY <1>12 DEF Dies
      <4> QED
        BY <2>1, <4>1, <4>2, NoWallet DEF Agree, IsWallet
    <3>3. Agree(mapWallet', walletFile', Known, DOMAIN blocks, running', {}, SafeCoins)
      BY <2>1, <3>2 DEF Agree
    <3>4. Agree(mapWallet', walletFile', Known', DOMAIN blocks', running', PendingHashes', SafeCoins')
      BY <1>1, <3>1, <3>3, AgreeWeaker
    <3>5. ChainTyped'
      BY <1>1, <3>1, ChainStays
    <3> QED
      BY <1>12, <3>1, <3>4, <3>5, InvAfter
  <2> QED
    BY <2>3, <2>4
<1> QED
  BY <1>1, <1>11, <1>12 DEF others

\* An operation of the running wallet starts with what it may read.
LEMMA OperationStarts ==
  ASSUME WalletInv, running, NEW X, DOMAIN blocks \subseteq X,
         NEW hashes, NEW coins, NEW at, Has(mapWallet, hashes, coins, at)
  PROVE  \E A : /\ Nat \subseteq A /\ Readable(Known, A) /\ IsFiniteSet(Known)
                /\ InMemory(mapWallet, walletFile) \in Stored(Known, A, X, hashes, coins, at)
<1> DEFINE B == Nat \cup {-1, {}}
<1>1. Agree(mapWallet, walletFile, Known, X, TRUE, PendingHashes, SafeCoins)
  <2>1. Agree(mapWallet, walletFile, Known, DOMAIN blocks, TRUE, PendingHashes, SafeCoins)
    BY AgreeRuns DEF WalletInv
  <2> QED
    BY <2>1, AgreeWeaker
<1>2. PICK A : B \subseteq A /\ InMemory(mapWallet, walletFile) \in Stored(Known, A, X, hashes, coins, at)
  <2> HIDE DEF B
  <2> QED
    BY <1>1, AgreeStarts
<1>3. Readable(Known, A) /\ IsFiniteSet(Known)
  <2>1. Nat \cup {-1, {}} \subseteq A /\ Known \in SUBSET (DOMAIN Foreign \cup DOMAIN made)
    BY <1>2 DEF Known
  <2> HIDE DEF B
  <2> QED
    BY <2>1, KnownIsReadable DEF WalletInv
<1> QED
  BY <1>2, <1>3

LEMMA PendingIsThere ==
  ASSUME WalletInv, running
  PROVE  Has(mapWallet, PendingHashes, SafeCoins, NoPlaces)
  BY DEF WalletInv, Agree, Has, Placed, NoPlaces

LEMMA ReceiveTransactionIs ==
  ASSUME NEW t, NEW refused, ReceiveTransaction(t, refused), AllWritten'
  PROVE  LET m == AddToWalletIfInvolvingMe(InMemory(mapWallet, walletFile), t, 0, TRUE) IN
         /\ running /\ t \notin Coinbases /\ Connects(t, Confirmed)
         /\ Finishes(m) /\ faults' = faults \cup m.faults
         /\ UNCHANGED <<blocks, pindexBest, made, pending>>
<1> DEFINE n == AddToWalletIfInvolvingMe(Refusing(InMemory(mapWallet, walletFile), refused), t, 0, TRUE)
<1>1. /\ running /\ Met(refused, n) /\ t \notin Coinbases /\ Connects(t, Confirmed)
      /\ Finishes(n) /\ faults' = faults \cup n.faults
      /\ UNCHANGED <<blocks, pindexBest, made, pending>>
  BY DEF ReceiveTransaction
<1>2. refused = {}
  <2> HIDE DEF n
  <2> QED
    BY <1>1 DEF Met, AllWritten
<1>3. n = AddToWalletIfInvolvingMe(InMemory(mapWallet, walletFile), t, 0, TRUE)
  BY <1>2, NoneIsRefused
<1> HIDE DEF n
<1> QED
  BY <1>1, <1>3

LEMMA ReceiveTransactionInv ==
  ASSUME WalletInv, NEW t \in Broadcast, NEW refused, ReceiveTransaction(t, refused), AllWritten'
  PROVE  WalletInv'
<1> DEFINE m == AddToWalletIfInvolvingMe(InMemory(mapWallet, walletFile), t, 0, TRUE)
<1>1. running /\ Finishes(m) /\ faults' = faults \cup m.faults /\ UNCHANGED <<blocks, pindexBest, made, pending>>
  BY ReceiveTransactionIs
<1>2. t \in Known
  BY DEF Broadcast, Known
<1>3. PICK A : /\ Nat \subseteq A /\ Readable(Known, A)
               /\ InMemory(mapWallet, walletFile) \in Stored(Known, A, DOMAIN blocks, PendingHashes, SafeCoins, NoPlaces)
  BY <1>1, OperationStarts, PendingIsThere
<1>4. m \in Stored(Known, A, DOMAIN blocks, PendingHashes, SafeCoins, NoPlaces)
  <2> DEFINE T == {<<t, 0>>}
             block == 0
  <2>1. block \in A /\ Settles(T, NoPlaces) /\ <<t, block>> \in T
    BY <1>3 DEF Settles, NoPlaces
  <2> HIDE DEF T, block
  <2>2. AddToWalletIfInvolvingMe(InMemory(mapWallet, walletFile), t, block, TRUE)
          \in Stored(Known, A, DOMAIN blocks, PendingHashes, SafeCoins, NoPlaces)
    BY <1>2, <1>3, <2>1, AddIfInvolvedKeeps
  <2> QED
    BY <2>2 DEF block
<1> HIDE DEF m
<1>5. Agree(mapWallet', walletFile', Known, DOMAIN blocks, running', PendingHashes, SafeCoins) /\ running' = TRUE
  BY <1>1, <1>4, FinishesAgrees
<1>6. /\ PaymentsTyped' /\ Known' = Known /\ PendingHashes' = PendingHashes
      /\ SafeCoins' \subseteq SafeCoins /\ (Clean' => Disjoint')
  BY <1>1, PaymentsStay
<1>7. Agree(mapWallet', walletFile', Known', DOMAIN blocks', running', PendingHashes', SafeCoins')
  BY <1>1, <1>5, <1>6, AgreeWeaker
<1>8. ChainTyped' /\ (pending # {} => running)'
  BY <1>1, <1>5, <1>6, ChainStays
<1> QED
  BY <1>6, <1>7, <1>8, InvAfter

LEMMA StartInv ==
  ASSUME WalletInv, Start
  PROVE  WalletInv'
<1> DEFINE X == DOMAIN blocks
           m0 == Loaded(walletFile)
           m1 == Rescanned(m0, walletFile)
           m == ReacceptWalletTransactions(m1)
           B == Nat \cup {-1, {}}
           none == {}
<1>1. /\ ~running /\ running' = TRUE /\ mapWallet' = m.w /\ walletFile' = Last(m.files)
      /\ UNCHANGED <<blocks, pindexBest, made, pending, faults>>
  BY DEF Start
<1>2. /\ pending = {} /\ PendingHashes = {} /\ walletFile.best \in DOMAIN blocks
      /\ Agree(mapWallet, walletFile, Known, X, running, PendingHashes, SafeCoins)
  BY <1>1 DEF WalletInv, PendingHashes, Agree
<1>3. PICK A : B \subseteq A /\ m0 \in Stored(Known, A, X, none, SafeCoins, NoPlaces)
  <2>1. Has(walletFile.txs, none, SafeCoins, NoPlaces)
    BY <1>2 DEF Agree, Has, Placed, NoPlaces
  <2> HIDE DEF B, X, m0, none
  <2> QED
    BY <1>2, <2>1, LoadedStarts DEF m0
<1>4. Nat \subseteq A /\ Readable(Known, A) /\ IsFiniteSet(Known) /\ m0 \in Stored(Known, A, X, none, SafeCoins, NoPlaces)
  <2>1. Nat \cup {-1, {}} \subseteq A /\ Known \in SUBSET (DOMAIN Foreign \cup DOMAIN made)
    BY <1>3 DEF Known
  <2>2. Readable(Known, A) /\ IsFiniteSet(Known)
    <3> HIDE DEF B
    <3> QED
      BY <2>1, KnownIsReadable DEF WalletInv
  <2> QED
    BY <1>3, <2>1, <2>2
<1>5. \A b \in X : b \in A /\ blocks[b].vtx \in Seq(Known)
  <2>1. blocks \in Seq(Blocks(Known))
    BY DEF WalletInv, ChainTyped
  <2>2. X \subseteq Nat /\ \A b \in X : blocks[b] \in Blocks(Known)
    BY <2>1
  <2> QED
    BY <1>4, <2>2 DEF Blocks
<1>6. /\ blocks \in Seq(Blocks(Known)) /\ IsTree(blocks) /\ pindexBest \in DOMAIN blocks
      /\ Main \in Seq(X)
  BY BranchesAre DEF WalletInv, ChainTyped, Main
<1>7. SinceBest(walletFile) \in Seq(X)
  <2> DEFINE i == Shared(Main, Branches(blocks)[walletFile.best])
             j == Len(Main)
  <2>1. i \in Nat \ {0}
    BY <1>2, <1>6, SharedIs DEF Main
  <2>2. j \in Int /\ j <= Len(Main)
    BY <1>6
  <2>3. SubSeq(Main, i, j) \in Seq(X)
    <3> HIDE DEF i, j, X
    <3> QED
      BY <1>6, <2>1, <2>2, PartIsSequence
  <2> QED
    BY <2>3 DEF SinceBest
<1> HIDE DEF m0, X, B, none
<1>8. m1 \in Stored(Known, A, X, none, SafeCoins, NoPlaces)
  <2>1. Scan(m0, blocks, SinceBest(walletFile), TRUE) \in Stored(Known, A, X, none, SafeCoins, NoPlaces)
    BY <1>4, <1>5, <1>7, AnyScanKeeps
  <2> QED
    BY <1>4, <2>1 DEF Rescanned
<1> HIDE DEF m1
<1>9. m \in Stored(Known, A, X, none, SafeCoins, NoPlaces)
  BY <1>4, <1>5, <1>6, <1>8, ReacceptKeeps
<1> HIDE DEF m
<1>10. Agree(mapWallet', walletFile', Known, X, TRUE, none, SafeCoins)
  BY <1>1, <1>9, StoredAgrees
<1>11. /\ PaymentsTyped' /\ Known' = Known /\ PendingHashes' = PendingHashes
       /\ SafeCoins' \subseteq SafeCoins /\ (Clean' => Disjoint')
  BY <1>1, PaymentsStay
<1>12. Agree(mapWallet', walletFile', Known', DOMAIN blocks', running', PendingHashes', SafeCoins')
  BY <1>1, <1>2, <1>10, <1>11, AgreeWeaker DEF X, none
<1>13. ChainTyped' /\ (pending # {} => running)'
  BY <1>1, <1>11, ChainStays
<1> QED
  BY <1>11, <1>12, <1>13, InvAfter

\* A block that is received.
LEMMA TreeGrows ==
  ASSUME WalletInv, NEW block \in Blocks(Known), block.prev \in DOMAIN blocks,
         NEW bs, bs = Append(blocks, block)
  PROVE  /\ bs \in Seq(Blocks(Known)) /\ IsTree(bs)
         /\ Len(bs) \in DOMAIN bs /\ Len(bs) \notin DOMAIN blocks /\ DOMAIN bs = DOMAIN blocks \cup {Len(bs)}
         /\ bs[Len(bs)] = block /\ \A b \in DOMAIN blocks : bs[b] = blocks[b]
<1> DEFINE S == Blocks(Known)
           prev == block.prev
<1>1. blocks \in Seq(S) /\ IsTree(blocks)
  BY DEF WalletInv, ChainTyped
<1>2. block \in S /\ prev \in Nat /\ prev # 0 /\ prev <= Len(blocks)
  <2>1. DOMAIN blocks = 1..Len(blocks) /\ Len(blocks) \in Nat
    <3> HIDE DEF S
    <3> QED
      BY <1>1
  <2> QED
    BY <2>1
<1> HIDE DEF S
<1>3. /\ bs \in Seq(S) /\ Len(bs) = Len(blocks) + 1 /\ DOMAIN bs = 1..(Len(blocks) + 1)
      /\ DOMAIN blocks = 1..Len(blocks) /\ Len(blocks) \in Nat
      /\ bs[Len(blocks) + 1] = block /\ \A b \in DOMAIN blocks : bs[b] = blocks[b]
  BY <1>1, <1>2
<1>4. IsTree(bs)
  <2> SUFFICES ASSUME NEW b \in DOMAIN bs PROVE bs[b].prev \in 0..(b - 1) /\ (bs[b].prev = 0 => b = 1)
    BY DEF IsTree
  <2>1. CASE b = Len(blocks) + 1
    BY <1>2, <1>3, <2>1
  <2>2. CASE b # Len(blocks) + 1
    <3>1. b \in DOMAIN blocks
      BY <1>3, <2>2
    <3> QED
      BY <1>1, <1>3, <3>1 DEF IsTree
  <2> QED
    BY <2>1, <2>2
<1>5. Len(bs) \in DOMAIN bs /\ Len(bs) \notin DOMAIN blocks /\ DOMAIN bs = DOMAIN blocks \cup {Len(bs)}
  BY <1>3
<1> QED
  BY <1>2, <1>3, <1>4, <1>5 DEF S

\* The blocks of a branch that are not on the main chain.
LEMMA NewBlocksAre ==
  ASSUME NEW X, NEW branch \in Seq(X)
  PROVE  SubSeq(branch, Shared(Main, branch) + 1, Len(branch)) \in Seq(X)
<1> DEFINE i == Shared(Main, branch) + 1
           j == Len(branch)
<1>1. IsFiniteSet(Range(Main) \cap Range(branch))
  <2>1. IsFiniteSet(Range(branch))
    BY RangeIsFinite
  <2>2. Range(Main) \cap Range(branch) \in SUBSET Range(branch)
    OBVIOUS
  <2> QED
    BY <2>1, <2>2, FS_Subset
<1>2. i \in Nat \ {0}
  <2>1. Cardinality(Range(Main) \cap Range(branch)) \in Nat
    BY <1>1, FS_CardinalityType
  <2> QED
    BY <2>1 DEF Shared
<1>3. j \in Int /\ j <= Len(branch)
  OBVIOUS
<1> HIDE DEF i, j
<1>4. SubSeq(branch, i, j) \in Seq(X)
  BY <1>2, <1>3, PartIsSequence
<1> QED
  BY <1>4 DEF i, j

\* What a new block brings to be connected, and how the file ends.
NewBlocks(bs) ==
  LET branch == Branches(bs)[Len(bs)] IN
  IF Len(branch) > Len(Main) THEN SubSeq(branch, Shared(Main, branch) + 1, Len(branch)) ELSE <<>>
Told(m, bs) == [m EXCEPT !.files = Append(@, [Last(@) EXCEPT !.best = Len(bs)])]
LastOnly(m) == [m EXCEPT !.files = <<Last(@)>>]
Strays(prev, part) == IF prev # pindexBest /\ part # <<>> THEN {"strayed"} ELSE {}

Receives(bs, new, m, told, last, strays) ==
  \/ /\ new # <<>> /\ Connecting(bs, new) = new /\ pindexBest' = Len(bs) /\ Finishes(told)
     /\ made' = made /\ pending' = pending /\ faults' = faults \cup m.faults
  \/ /\ ~(new # <<>> /\ Connecting(bs, new) = new) /\ pindexBest' = pindexBest /\ Finishes(m)
     /\ made' = made /\ pending' = pending /\ faults' = faults \cup strays \cup m.faults
  \/ /\ pindexBest' = pindexBest /\ pending' = {} /\ made' = MadeWithout(pending)
     /\ Dies(m) /\ faults' = Crashed(strays)
  \/ /\ new # <<>> /\ Connecting(bs, new) = new /\ pindexBest' = Len(bs)
     /\ pending' = {} /\ made' = MadeWithout(pending)
     /\ Dies(last) /\ faults' = Crashed({})

LEMMA ReceiveBlockIs ==
  ASSUME NEW prev, NEW vtx, NEW valid, NEW refused, ReceiveBlock(prev, vtx, valid, refused), AllWritten',
         NEW bs, bs = Append(blocks, [prev |-> prev, vtx |-> vtx, valid |-> valid]),
         NEW new, new = NewBlocks(bs),
         NEW m, m = Scan(InMemory(mapWallet, walletFile), bs, Connecting(bs, new), TRUE),
         NEW told, told = Told(m, bs), NEW last, last = LastOnly(m),
         NEW strays, strays = Strays(prev, Connecting(bs, new))
  PROVE  running /\ blocks' = bs /\ Receives(bs, new, m, told, last, strays)
<1> DEFINE n     == Scan(Refusing(InMemory(mapWallet, walletFile), refused), bs, Connecting(bs, new), TRUE)
           nTold == Told(n, bs)
           nLast == LastOnly(n)
<1>1. /\ running /\ Met(refused, n) /\ blocks' = bs
      /\ \/ /\ new # <<>> /\ Connecting(bs, new) = new /\ pindexBest' = Len(bs) /\ Finishes(nTold)
            /\ made' = made /\ pending' = pending /\ faults' = faults \cup n.faults
         \/ /\ ~(new # <<>> /\ Connecting(bs, new) = new) /\ pindexBest' = pindexBest /\ Finishes(n)
            /\ made' = made /\ pending' = pending /\ faults' = faults \cup strays \cup n.faults
         \/ /\ pindexBest' = pindexBest /\ pending' = {} /\ made' = MadeWithout(pending)
            /\ Dies(n) /\ faults' = Crashed(strays)
         \/ /\ new # <<>> /\ Connecting(bs, new) = new /\ pindexBest' = Len(bs)
            /\ pending' = {} /\ made' = MadeWithout(pending)
            /\ Dies(nLast) /\ faults' = Crashed({})
  BY DEF ReceiveBlock, Told, LastOnly, Strays, NewBlocks
<1>2. refused = {}
  <2>1. nLast.faults = n.faults
    <3> HIDE DEF n
    <3> QED
      BY DEF LastOnly
  <2> HIDE DEF n, nTold, nLast
  <2> QED
    BY <1>1, <2>1 DEF Met, Dies, AllWritten
<1>3. n = m /\ nTold = told /\ nLast = last
  BY <1>2, NoneIsRefused
<1> HIDE DEF n, nTold, nLast
<1> QED
  BY <1>1, <1>3 DEF Receives

LEMMA OtherFiles ==
  ASSUME NEW W, NEW F, NEW m \in [w: W, files: F, refused: {{}}, faults: {{}}], NEW files
  PROVE  [m EXCEPT !.files = files] = [w |-> m.w, files |-> files, refused |-> {}, faults |-> {}]
  OBVIOUS

LEMMA ReceiveBlockInv ==
  ASSUME WalletInv, NEW prev \in DOMAIN blocks, NEW vtx \in Seq(Known), NEW valid \in BOOLEAN,
         NEW refused, ReceiveBlock(prev, vtx, valid, refused), AllWritten'
  PROVE  WalletInv'
<1> DEFINE block   == [prev |-> prev, vtx |-> vtx, valid |-> valid]
           bs      == Append(blocks, block)
           X       == DOMAIN bs
           branch  == Branches(bs)[Len(bs)]
           new     == IF Len(branch) > Len(Main) THEN SubSeq(branch, Shared(Main, branch) + 1, Len(branch))
                      ELSE <<>>
           adopted == new # <<>> /\ Connecting(bs, new) = new
           m       == Scan(InMemory(mapWallet, walletFile), bs, Connecting(bs, new), TRUE)
           told    == [m EXCEPT !.files = Append(@, [Last(@) EXCEPT !.best = Len(bs)])]
           strays  == IF prev # pindexBest /\ Connecting(bs, new) # <<>> THEN {"strayed"} ELSE {}
           last    == [m EXCEPT !.files = <<Last(@)>>]
<1>0. /\ bs = Append(blocks, block) /\ new = NewBlocks(bs)
      /\ m = Scan(InMemory(mapWallet, walletFile), bs, Connecting(bs, new), TRUE)
      /\ told = Told(m, bs) /\ last = LastOnly(m) /\ strays = Strays(prev, Connecting(bs, new))
  BY DEF NewBlocks, Told, LastOnly, Strays
<1>1. running /\ blocks' = bs
  <2> HIDE DEF bs, new, m, told, last, strays
  <2> QED
    BY <1>0, ReceiveBlockIs
<1>2. \/ adopted /\ pindexBest' = Len(bs) /\ Finishes(told) /\ UNCHANGED <<made, pending>> /\ faults \subseteq faults'
      \/ ~adopted /\ UNCHANGED <<pindexBest, made, pending>> /\ Finishes(m) /\ faults \subseteq faults'
      \/ /\ UNCHANGED pindexBest /\ pending' = {} /\ made' = MadeWithout(pending)
         /\ Dies(m) /\ faults \subseteq faults'
      \/ /\ adopted /\ pindexBest' = Len(bs) /\ pending' = {} /\ made' = MadeWithout(pending)
         /\ Dies(last) /\ faults \subseteq faults'
  <2> HIDE DEF bs, new, m, told, last, strays
  <2>1. Receives(bs, new, m, told, last, strays)
    BY <1>0, ReceiveBlockIs
  <2> QED
    BY <2>1 DEF Receives, Crashed
<1>3. /\ blocks \in Seq(Blocks(Known)) /\ IsTree(blocks) /\ pindexBest \in DOMAIN blocks
  BY DEF WalletInv, ChainTyped
<1>4. bs \in Seq(Blocks(Known)) /\ IsTree(bs) /\ Len(bs) \in X /\ DOMAIN blocks \subseteq X
  <2>1. block \in Blocks(Known) /\ block.prev \in DOMAIN blocks /\ bs = Append(blocks, block)
    <3>1. DOMAIN blocks \subseteq Nat
      BY <1>3
    <3> QED
      BY <3>1 DEF Blocks
  <2> HIDE DEF block, bs
  <2>2. /\ bs \in Seq(Blocks(Known)) /\ IsTree(bs) /\ Len(bs) \in DOMAIN bs
        /\ DOMAIN bs = DOMAIN blocks \cup {Len(bs)}
    BY <2>1, TreeGrows
  <2> QED
    BY <2>2
<1>5. \A b \in DOMAIN blocks : bs[b] = blocks[b]
  BY <1>3
<1>6. PICK A : /\ Nat \subseteq A /\ Readable(Known, A)
               /\ InMemory(mapWallet, walletFile) \in Stored(Known, A, X, PendingHashes, SafeCoins, NoPlaces)
  <2> HIDE DEF bs, X
  <2> QED
    BY <1>1, <1>4, OperationStarts, PendingIsThere
<1>7. \A b \in X : b \in A /\ bs[b].vtx \in Seq(Known)
  <2> HIDE DEF bs
  <2>1. X \subseteq Nat /\ \A b \in X : bs[b] \in Blocks(Known)
    BY <1>4
  <2> QED
    BY <1>6, <2>1 DEF Blocks
<1>8. branch \in Seq(X)
  <2> HIDE DEF bs
  <2> QED
    BY <1>4, BranchesAre
<1>9. new \in Seq(X)
  <2> HIDE DEF branch, X
  <2>1. SubSeq(branch, Shared(Main, branch) + 1, Len(branch)) \in Seq(X)
    BY <1>8, NewBlocksAre
  <2> QED
    BY <2>1
<1> HIDE DEF new, branch
<1>10. m \in Stored(Known, A, X, PendingHashes, SafeCoins, NoPlaces)
  <2>1. Connecting(bs, new) \in Seq(X)
    <3> HIDE DEF bs, X
    <3> QED
      BY <1>9, ConnectingIs
  <2> HIDE DEF bs, X
  <2> QED
    BY <1>6, <1>7, <2>1, AnyScanKeeps
<1> HIDE DEF m, X
\* The file is told of the new best block.
<1>11. told \in Stored(Known, A, X, PendingHashes, SafeCoins, NoPlaces)
  <2> DEFINE f == Last(m.files)
             g == [f EXCEPT !.best = Len(bs)]
             F == Files(Known, A, X)
  <2>1. /\ m \in [w: Wallets(Known, A), files: Seq(F), refused: {{}}, faults: {{}}]
        /\ m.files # <<>> /\ m.files \in Seq(F)
        /\ Has(m.w, PendingHashes, SafeCoins, NoPlaces)
        /\ \A i \in DOMAIN m.files : Has(m.files[i].txs, PendingHashes, SafeCoins, NoPlaces)
        /\ Same(m.w, f.txs)
    BY <1>10 DEF Stored, Updates
  <2>2. f \in F /\ Has(f.txs, PendingHashes, SafeCoins, NoPlaces)
    <3>1. Len(m.files) \in DOMAIN m.files /\ f = m.files[Len(m.files)] /\ f \in F
      <4> HIDE DEF F
      <4> QED
        BY <2>1, LastIs
    <3> QED
      BY <2>1, <3>1
  <2>3. g \in F /\ g.txs = f.txs
    <3> HIDE DEF f, bs
    <3> QED
      BY <1>4, <2>2 DEF Files
  <2> HIDE DEF f, g, F, bs
  <2>4. told = [m EXCEPT !.files = Append(m.files, g)]
    BY <2>1 DEF f, g
  <2>5. /\ Append(m.files, g) \in Seq(F) /\ Append(m.files, g) # <<>> /\ Last(Append(m.files, g)) = g
        /\ \A i \in DOMAIN Append(m.files, g) :
             (i \in DOMAIN m.files /\ Append(m.files, g)[i] = m.files[i]) \/ Append(m.files, g)[i] = g
    BY <2>1, <2>3, LastIs
  <2> DEFINE files == Append(m.files, g)
  <2> HIDE DEF files, told
  <2>6. /\ told.w = m.w /\ told.files = files
        /\ told \in [w: Wallets(Known, A), files: Seq(F), refused: {{}}, faults: {{}}]
    BY <2>1, <2>4, <2>5 DEF files
  <2>7. \A i \in DOMAIN files : Has(files[i].txs, PendingHashes, SafeCoins, NoPlaces)
    BY <2>1, <2>2, <2>3, <2>5 DEF files
  <2> QED
    BY <2>1, <2>3, <2>5, <2>6, <2>7 DEF Stored, Updates, F, f, files
<1>12. last \in Stored(Known, A, X, PendingHashes, SafeCoins, NoPlaces)
  <2> DEFINE f == Last(m.files)
             F == Files(Known, A, X)
  <2>1. /\ m \in [w: Wallets(Known, A), files: Seq(F), refused: {{}}, faults: {{}}] /\ m.w \in Wallets(Known, A)
        /\ Same(m.w, f.txs) /\ Has(m.w, PendingHashes, SafeCoins, NoPlaces)
    BY <1>10 DEF Stored, Updates
  <2>2. f \in Range(m.files) /\ f \in F /\ Has(f.txs, PendingHashes, SafeCoins, NoPlaces)
    <3> HIDE DEF F
    <3> QED
      BY <1>10, StoredIs DEF F
  <2>3. last = InMemory(m.w, f)
    <3> HIDE DEF F
    <3> DEFINE one == <<f>>
               W == Wallets(Known, A)
               S == Seq(F)
    <3>1. m \in [w: W, files: S, refused: {{}}, faults: {{}}]
      BY <2>1
    <3> HIDE DEF one, W, S
    <3>2. [m EXCEPT !.files = one] = [w |-> m.w, files |-> one, refused |-> {}, faults |-> {}]
      BY <3>1, OtherFiles
    <3> QED
      BY <3>2 DEF InMemory, one
  <2> HIDE DEF f, last
  <2> QED
    BY <2>1, <2>2, <2>3, InMemoryIsStored
<1> HIDE DEF told, last
<1>13. PaymentsTyped' /\ Known' = Known /\ SafeCoins' \subseteq SafeCoins /\ (Clean' => Disjoint')
       /\ PendingHashes' \subseteq PendingHashes
  <2>1. faults \subseteq faults'
    BY <1>2
  <2>2. CASE made' = made /\ pending' = pending
    BY <2>1, <2>2, PaymentsStay
  <2>3. CASE made' = MadeWithout(pending) /\ pending' = {}
    BY <2>1, <2>3, PendingIsDropped
  <2> QED
    BY <1>2, <2>2, <2>3
<1>14. ChainTyped'
  <2>1. pindexBest' \in X
    BY <1>2, <1>3, <1>4
  <2> HIDE DEF bs
  <2> QED
    BY <1>1, <1>4, <1>13, <2>1 DEF ChainTyped, X
<1>15. /\ (pending # {} => running)'
       /\ Agree(mapWallet', walletFile', Known', DOMAIN blocks', running', PendingHashes', SafeCoins')
  <2>1. DOMAIN blocks' = X
    BY <1>1 DEF X
  <2> HIDE DEF bs, adopted, strays
  <2>2. ASSUME NEW u \in Stored(Known, A, X, PendingHashes, SafeCoins, NoPlaces), Finishes(u)
        PROVE  /\ (pending # {} => running)'
               /\ Agree(mapWallet', walletFile', Known', DOMAIN blocks', running', PendingHashes', SafeCoins')
    <3>1. Agree(mapWallet', walletFile', Known, X, running', PendingHashes, SafeCoins) /\ running' = TRUE
      BY <1>1, <2>2, FinishesAgrees
    <3>2. Agree(mapWallet', walletFile', Known', DOMAIN blocks', running', PendingHashes', SafeCoins')
      BY <1>13, <2>1, <3>1, AgreeWeaker
    <3> QED
      BY <3>1, <3>2
  <2>3. ASSUME NEW u \in Stored(Known, A, X, PendingHashes, SafeCoins, NoPlaces), Dies(u), pending' = {}
        PROVE  /\ (pending # {} => running)'
               /\ Agree(mapWallet', walletFile', Known', DOMAIN blocks', running', PendingHashes', SafeCoins')
    <3>1. Agree(mapWallet', walletFile', Known, X, running', {}, SafeCoins)
      BY <2>3, DiesAgrees
    <3>2. PendingHashes' = {}
      BY <2>3 DEF PendingHashes
    <3>3. Agree(mapWallet', walletFile', Known', DOMAIN blocks', running', PendingHashes', SafeCoins')
      BY <1>13, <2>1, <3>1, <3>2, AgreeWeaker
    <3> QED
      BY <2>3, <3>3
  <2> QED
    BY <1>2, <1>10, <1>11, <1>12, <2>2, <2>3
<1> QED
  BY <1>13, <1>14, <1>15, InvAfter

LEMMA OutputsAre ==
  ASSUME PaymentsTyped, NEW t \in DOMAIN Foreign \cup DOMAIN made
  PROVE  /\ IsFiniteSet(DOMAIN Transaction(t).vout) /\ DOMAIN Transaction(t).vout \subseteq Nat
         /\ \A i \in DOMAIN Transaction(t).vout : Transaction(t).vout[i].value \in Nat
<1> DEFINE vout == Transaction(t).vout
           S    == [mine: BOOLEAN, value: Nat]
           n    == Len(vout)
<1>1. vout \in Seq(S)
  BY WalletAssumption DEF PaymentsTyped, Transaction
<1>2. \A o \in S : o.value \in Nat
  OBVIOUS
<1> HIDE DEF vout, S
<1>3. n \in Nat /\ DOMAIN vout = 1..n /\ \A i \in DOMAIN vout : vout[i] \in S
  BY <1>1
<1>4. IsFiniteSet(1..n)
  <2> HIDE DEF n
  <2>1. n \in Int /\ 1 \in Int
    BY <1>3
  <2> QED
    BY <2>1, FS_Interval
<1>5. 1..n \subseteq Nat
  BY <1>3
<1>6. \A i \in DOMAIN vout : vout[i].value \in Nat
  BY <1>2, <1>3
<1> QED
  BY <1>3, <1>4, <1>5, <1>6 DEF vout

\* The coins that a payment is made of.
LEMMA AvailableAre ==
  ASSUME PaymentsTyped, NEW w, NEW K, IsWallet(w, K), K \subseteq DOMAIN Foreign \cup DOMAIN made
  PROVE  /\ IsCoins(AvailableCoins(w))
         /\ \A c \in AvailableCoins(w) :
              /\ c.coin = <<c.coin[1], c.coin[2]>> /\ c.coin[1] \in DOMAIN w /\ c.coin[2] \in Nat
              /\ c.coin[2] \notin w[c.coin[1]].spent
<1> DEFINE T    == {u \in DOMAIN w : IsConfirmed(w, u) /\ ~IsImmature(w, u)}
           I(t) == {j \in DOMAIN Transaction(t).vout :
                      /\ j \notin w[t].spent /\ Transaction(t).vout[j].mine
                      /\ Transaction(t).vout[j].value > 0}
           g    == [t \in T |-> {<<t, i>> : i \in I(t)}]
           all  == {g[t] : t \in T}
           f    == [p \in UNION all |-> [coin |-> p, value |-> Output(p).value, depth |-> Depth(w[p[1]].block),
                                         fromMe |-> CachedDebit(w, p[1]) > 0]]
<1>1. T \subseteq DOMAIN w /\ DOMAIN w \subseteq DOMAIN Foreign \cup DOMAIN made
  BY DEF IsWallet
<1>2. IsFiniteSet(T)
  <2> DEFINE A == Nat \cup {-1, {}}
  <2>1. T \in SUBSET (DOMAIN Foreign \cup DOMAIN made)
    BY <1>1
  <2> HIDE DEF T
  <2>2. Nat \cup {-1, {}} \subseteq A
    OBVIOUS
  <2> HIDE DEF A
  <2> QED
    BY <2>1, <2>2, KnownIsReadable
<1>3. ASSUME NEW t \in T
      PROVE  IsFiniteSet(g[t]) /\ \A p \in g[t] : \E i \in I(t) : p = <<t, i>>
  <2> DEFINE J == I(t)
             h == [i \in J |-> <<t, i>>]
  <2>1. IsFiniteSet(DOMAIN Transaction(t).vout)
    BY <1>1, <1>3, OutputsAre
  <2>2. J \subseteq DOMAIN Transaction(t).vout
    OBVIOUS
  <2>3. g[t] = {h[i] : i \in J}
    BY <1>3
  <2>4. \A p \in g[t] : \E i \in I(t) : p = <<t, i>>
    BY <1>3
  <2> HIDE DEF J, h, g, I, T
  <2>5. IsFiniteSet(J)
    BY <2>1, <2>2, FS_Subset
  <2>6. IsFiniteSet({h[i] : i \in J})
    BY <2>5, ImageIsFinite
  <2> QED
    BY <2>3, <2>4, <2>6
<1>4. AvailableCoins(w) = {f[p] : p \in UNION all}
  <2> DEFINE P == UNION {{<<t, i>> : i \in {j \in DOMAIN Transaction(t).vout :
                                     /\ j \notin w[t].spent /\ Transaction(t).vout[j].mine
                                     /\ Transaction(t).vout[j].value > 0}} :
                   t \in {u \in DOMAIN w : IsConfirmed(w, u) /\ ~IsImmature(w, u)}}
             r(p) == [coin |-> p, value |-> Output(p).value, depth |-> Depth(w[p[1]].block),
                      fromMe |-> CachedDebit(w, p[1]) > 0]
  <2>1. AvailableCoins(w) = {r(p) : p \in P}
    BY Zenon DEF AvailableCoins
  <2>2. P = UNION {{<<t, i>> : i \in I(t)} : t \in T}
    BY Zenon
  <2>3. {{<<t, i>> : i \in I(t)} : t \in T} = all
    <3> HIDE DEF I, T
    <3>1. \A t \in T : g[t] = {<<t, i>> : i \in I(t)}
      OBVIOUS
    <3> DEFINE s(t) == {<<t, i>> : i \in I(t)}
    <3>2. \A t \in T : g[t] = s(t)
      BY <3>1
    <3> HIDE DEF g, s
    <3>3. {s(t) : t \in T} = all
      BY <3>2
    <3> QED
      BY <3>3 DEF s
  <2>4. P = UNION all
    BY <2>2, <2>3
  <2>5. \A p \in UNION all : f[p] = r(p)
    <3> HIDE DEF r, all, P
    <3>1. f = [p \in UNION all |-> r(p)]
      BY DEF r
    <3> QED
      BY <3>1
  <2> HIDE DEF r, P, all, f
  <2> QED
    BY <2>1, <2>4, <2>5
<1>5. \A p \in UNION all : f[p].coin = p /\ f[p].value = Output(p).value
  OBVIOUS
<1>6. IsFiniteSet(all)
  <2> HIDE DEF T, g
  <2> QED
    BY <1>2, ImageIsFinite
<1>7. \A G \in all : IsFiniteSet(G)
  BY <1>3
<1>8. IsFiniteSet(UNION all)
  <2> HIDE DEF all
  <2> QED
    BY <1>6, <1>7, FS_UNION
<1>9. IsFiniteSet(AvailableCoins(w))
  <2> DEFINE P == UNION all
  <2> HIDE DEF P, f
  <2>1. IsFiniteSet({f[p] : p \in P})
    BY <1>8, ImageIsFinite DEF P
  <2> QED
    BY <1>4, <2>1 DEF P
<1>10. ASSUME NEW p \in UNION all
       PROVE  /\ p = <<p[1], p[2]>> /\ p[1] \in DOMAIN w /\ p[2] \in Nat /\ p[2] \notin w[p[1]].spent
              /\ Output(p).value \in Nat
  <2>1. PICK t \in T : p \in g[t]
    BY <1>10
  <2>2. PICK i \in I(t) : p = <<t, i>>
    BY <1>3, <2>1
  <2>3. p[1] = t /\ p[2] = i /\ i \in DOMAIN Transaction(t).vout /\ i \notin w[t].spent
    BY <2>2
  <2>4. t \in DOMAIN w /\ t \in DOMAIN Foreign \cup DOMAIN made
    BY <1>1
  <2>5. i \in Nat /\ Transaction(t).vout[i].value \in Nat
    BY <2>3, <2>4, OutputsAre
  <2> QED
    BY <2>2, <2>3, <2>4, <2>5 DEF Output
<1> HIDE DEF f, all
<1>11. ASSUME NEW c \in AvailableCoins(w)
       PROVE  /\ c.coin = <<c.coin[1], c.coin[2]>> /\ c.coin[1] \in DOMAIN w /\ c.coin[2] \in Nat
              /\ c.coin[2] \notin w[c.coin[1]].spent /\ c.value \in Nat
  BY <1>4, <1>5, <1>10
<1> QED
  BY <1>9, <1>11 DEF IsCoins

\* A payment is made of coins that are not spent.
LEMMA PaymentIs ==
  ASSUME PaymentsTyped, NEW w, IsWallet(w, Known), NEW nValue \in Nat,
         NEW payment \in CreateTransaction(AvailableCoins(w), nValue), payment.state = "created"
  PROVE  LET S == {c.coin : c \in payment.coins} IN
         /\ SetToSeq(S) \in Seq(S) /\ Range(SetToSeq(S)) = S /\ S \subseteq Hashes \X Nat
         /\ \A p \in S : p[1] \in DOMAIN w /\ p[2] \notin w[p[1]].spent
         /\ payment.change \in Int
<1> DEFINE S         == {c.coin : c \in payment.coins}
           available == AvailableCoins(w)
           f         == [c \in payment.coins |-> c.coin]
<1>1. DOMAIN made \subseteq 1..MaxPayments
  BY DEF PaymentsTyped
<1>2. DOMAIN w \subseteq Hashes /\ Known \subseteq DOMAIN Foreign \cup DOMAIN made
  <2>1. Known \subseteq DOMAIN Foreign \cup DOMAIN made
    BY DEF Known
  <2>2. DOMAIN made \subseteq Nat
    BY <1>1
  <2> QED
    BY <2>1, <2>2 DEF IsWallet, Hashes
<1>3. /\ IsCoins(available)
      /\ \A c \in available : /\ c.coin = <<c.coin[1], c.coin[2]>> /\ c.coin[1] \in DOMAIN w /\ c.coin[2] \in Nat
                              /\ c.coin[2] \notin w[c.coin[1]].spent
  BY <1>2, AvailableAre
<1>4. IsFunded(available, payment) /\ payment \in Payments(available, nValue)
  <2> HIDE DEF available
  <2> QED
    BY <1>3, PaymentsAreFunded DEF available
<1>5. payment.coins \subseteq available /\ payment.change \in Int
  BY <1>4 DEF IsFunded, Payments
<1>6. IsFiniteSet(payment.coins)
  BY <1>3, <1>5, FS_Subset DEF IsCoins
<1>7. S = {f[c] : c \in payment.coins}
  OBVIOUS
<1>8. IsFiniteSet(S)
  <2> DEFINE C == payment.coins
  <2>1. IsFiniteSet(C) /\ S = {f[c] : c \in C}
    BY <1>6, <1>7
  <2> HIDE DEF f, C, S
  <2>2. IsFiniteSet({f[c] : c \in C})
    BY <2>1, ImageIsFinite
  <2> QED
    BY <2>1, <2>2
<1>9. \A p \in S : /\ p = <<p[1], p[2]>> /\ p[1] \in DOMAIN w /\ p[2] \in Nat /\ p[2] \notin w[p[1]].spent
  <2> HIDE DEF available
  <2> QED
    BY <1>3, <1>5
<1> HIDE DEF S
<1>10. SetToSeq(S) \in Seq(S) /\ Range(SetToSeq(S)) = S
  BY <1>8, SetToSeqIs
<1>11. S \subseteq Hashes \X Nat
  <2> SUFFICES ASSUME NEW p \in S PROVE p \in Hashes \X Nat
    OBVIOUS
  <2>1. p = <<p[1], p[2]>> /\ p[1] \in Hashes /\ p[2] \in Nat
    BY <1>2, <1>9
  <2> QED
    BY <2>1
<1>12. \A p \in S : p[1] \in DOMAIN w /\ p[2] \notin w[p[1]].spent
  BY <1>9
<1> QED
  BY <1>5, <1>10, <1>11, <1>12 DEF S

\* What the payment adds to the others.
LEMMA PaymentIsPending ==
  ASSUME WalletInv, running, NEW t \in 1..MaxPayments, t \notin DOMAIN made,
         NEW S, S \subseteq Hashes \X Nat,
         \A p \in S : p[1] \in DOMAIN mapWallet /\ p[2] \notin mapWallet[p[1]].spent,
         NEW tx, tx.vin \in Seq(S), Range(tx.vin) = S, tx.vout \in Seq([mine: BOOLEAN, value: Nat]),
         tx.after = DOMAIN made \ pending,
         made' = Put(made, t, tx), pending' = pending \cup {t}, faults' = faults
  PROVE  /\ PaymentsTyped' /\ Known' = Known /\ PendingHashes' \subseteq DOMAIN mapWallet
         /\ SafeCoins' = SafeCoins /\ (Clean' => Disjoint')
<1>1. /\ DOMAIN made \subseteq 1..MaxPayments /\ pending \subseteq DOMAIN made
      /\ \A s \in DOMAIN made :
           /\ made[s].vin \in Seq(Hashes \X Nat)
           /\ made[s].vout \in Seq([mine: BOOLEAN, value: Nat])
           /\ made[s].after \subseteq DOMAIN made \ pending
  BY DEF WalletInv, PaymentsTyped
<1>2. DOMAIN made' = DOMAIN made \cup {t} /\ made'[t] = tx /\ \A s \in DOMAIN made : made'[s] = made[s]
  BY DEF Put
<1>3. DOMAIN made' \ pending' = DOMAIN made \ pending
  BY <1>1, <1>2
<1>4. tx.vin \in Seq(Hashes \X Nat)
  <2> DEFINE T == Hashes \X Nat
  <2>1. S \subseteq T
    OBVIOUS
  <2> HIDE DEF T
  <2>2. tx.vin \in Seq(T)
    BY <2>1, SequencesGrow
  <2> QED
    BY <2>2 DEF T
<1>5. PaymentsTyped'
  <2>1. DOMAIN made' \subseteq 1..MaxPayments /\ pending' \subseteq DOMAIN made'
    BY <1>1, <1>2
  <2>2. ASSUME NEW s \in DOMAIN made'
        PROVE  /\ made'[s].vin \in Seq(Hashes \X Nat)
               /\ made'[s].vout \in Seq([mine: BOOLEAN, value: Nat])
               /\ made'[s].after \subseteq DOMAIN made' \ pending'
    <3>1. CASE s = t
      BY <1>2, <1>3, <1>4, <3>1
    <3>2. CASE s # t
      BY <1>1, <1>2, <1>3, <3>2
    <3> QED
      BY <3>1, <3>2
  <2> QED
    BY <2>1, <2>2 DEF PaymentsTyped, Hashes
<1>6. Known' = Known
  BY <1>3 DEF Known
<1>7. (Clean' <=> Clean) /\ CoinsOf(t)' = S /\ \A s \in DOMAIN made : CoinsOf(s)' = CoinsOf(s)
  BY <1>2 DEF Clean, CoinsOf
<1>8. PendingHashes' \subseteq DOMAIN mapWallet
  <2>1. PendingHashes' = {p[1] : p \in UNION {CoinsOf(s)' : s \in pending'}}
    BY DEF PendingHashes
  <2>2. \A s \in pending' : (s \in pending /\ CoinsOf(s)' = CoinsOf(s)) \/ CoinsOf(s)' = S
    BY <1>1, <1>7
  <2>3. PendingHashes \subseteq DOMAIN mapWallet
    BY DEF WalletInv, Agree
  <2> QED
    BY <2>1, <2>2, <2>3 DEF PendingHashes
<1>9. SafeCoins' = SafeCoins
  <2>1. SafeCoins' = IF Clean' THEN UNION {CoinsOf(s)' : s \in DOMAIN made' \ pending'} ELSE {}
    BY DEF SafeCoins
  <2>2. UNION {CoinsOf(s)' : s \in DOMAIN made \ pending} = UNION {CoinsOf(s) : s \in DOMAIN made \ pending}
    BY <1>7
  <2> QED
    BY <1>3, <1>7, <2>1, <2>2 DEF SafeCoins
\* The coins of what was committed are spent, and those of the new payment are not.
<1>10. ASSUME Clean', NEW s \in DOMAIN made \ pending PROVE CoinsOf(s) \cap S = {}
  <2>1. CoinsOf(s) \subseteq SafeCoins
    BY <1>7, <1>10 DEF SafeCoins
  <2>2. Marked(mapWallet, SafeCoins)
    BY DEF WalletInv, Agree
  <2> QED
    BY <2>1, <2>2 DEF Marked
<1>11. Clean' => Disjoint'
  <2> SUFFICES ASSUME Clean' PROVE Disjoint'
    OBVIOUS
  <2>1. Disjoint' <=> \A r \in DOMAIN made' : \A s \in made'[r].after : CoinsOf(s)' \cap CoinsOf(r)' = {}
    BY DEF Disjoint
  <2>2. \A r \in DOMAIN made : \A s \in made[r].after : CoinsOf(s) \cap CoinsOf(r) = {}
    BY <1>7 DEF WalletInv, Disjoint
  <2>3. ASSUME NEW r \in DOMAIN made', NEW s \in made'[r].after PROVE CoinsOf(s)' \cap CoinsOf(r)' = {}
    <3>1. CASE r = t
      <4>1. s \in DOMAIN made \ pending /\ CoinsOf(s)' = CoinsOf(s) /\ CoinsOf(r)' = S
        BY <1>2, <1>7, <2>3, <3>1
      <4> QED
        BY <1>10, <4>1
    <3>2. CASE r # t
      <4>1. r \in DOMAIN made /\ s \in made[r].after /\ s \in DOMAIN made
        BY <1>1, <1>2, <2>3, <3>2
      <4> QED
        BY <1>7, <2>2, <4>1
    <3> QED
      BY <3>1, <3>2
  <2> QED
    BY <2>1, <2>3
<1> QED
  BY <1>5, <1>6, <1>8, <1>9, <1>11

LEMMA SendMoneyIs ==
  ASSUME PaymentsTyped, NEW nValue, SendMoney(nValue)
  PROVE  \E t \in 1..MaxPayments :
           /\ running /\ t \notin DOMAIN made /\ pending' = pending \cup {t}
           /\ mapWallet' = Caches(mapWallet, Unconfirmed(mapWallet)
                                            \cup {c.coin[1] : c \in AvailableCoins(mapWallet)}, {})
           /\ UNCHANGED <<blocks, pindexBest, walletFile, running, faults>>
           /\ \E payment \in CreateTransaction(AvailableCoins(mapWallet), nValue) :
                /\ payment.state = "created"
                /\ LET vin == SetToSeq({c.coin : c \in payment.coins})
                       payee == [mine |-> FALSE, value |-> nValue]
                       change == [mine |-> TRUE, value |-> payment.change]
                   IN  made' = Put(made, t,
                                   [vin |-> vin, prev |-> SupportingTransactions(mapWallet, vin),
                                    vout |-> IF payment.change > 0 THEN <<change, payee>> ELSE <<payee>>,
                                    after |-> DOMAIN made \ pending])
<1> DEFINE t == CHOOSE n \in 1..MaxPayments : n \notin DOMAIN made
<1>1. DOMAIN made # 1..MaxPayments
  BY DEF SendMoney
<1>2. t \in 1..MaxPayments /\ t \notin DOMAIN made
  <2>1. \E n \in 1..MaxPayments : n \notin DOMAIN made
    BY <1>1 DEF PaymentsTyped
  <2> QED
    BY <2>1
<1>3. /\ running /\ pending' = pending \cup {t}
      /\ mapWallet' = Caches(mapWallet, Unconfirmed(mapWallet)
                                       \cup {c.coin[1] : c \in AvailableCoins(mapWallet)}, {})
      /\ UNCHANGED <<blocks, pindexBest, walletFile, running, faults>>
  BY DEF SendMoney
<1>4. \E payment \in CreateTransaction(AvailableCoins(mapWallet), nValue) :
        /\ payment.state = "created"
        /\ LET vin == SetToSeq({c.coin : c \in payment.coins})
               payee == [mine |-> FALSE, value |-> nValue]
               change == [mine |-> TRUE, value |-> payment.change]
           IN  made' = Put(made, t,
                           [vin |-> vin, prev |-> SupportingTransactions(mapWallet, vin),
                            vout |-> IF payment.change > 0 THEN <<change, payee>> ELSE <<payee>>,
                            after |-> DOMAIN made \ pending])
  BY DEF SendMoney
<1> HIDE DEF t
<1> QED
  BY <1>2, <1>3, <1>4

LEMMA SendMoneyInv ==
  ASSUME WalletInv, NEW nValue \in Payees, SendMoney(nValue)
  PROVE  WalletInv'
<1> DEFINE available == AvailableCoins(mapWallet)
<1>1. PaymentsTyped /\ IsWallet(mapWallet, Known)
  BY DEF WalletInv, Agree
<1>2. PICK t \in 1..MaxPayments :
        /\ running /\ t \notin DOMAIN made /\ pending' = pending \cup {t}
        /\ mapWallet' = Caches(mapWallet, Unconfirmed(mapWallet) \cup {c.coin[1] : c \in available}, {})
        /\ UNCHANGED <<blocks, pindexBest, walletFile, running, faults>>
        /\ \E payment \in CreateTransaction(available, nValue) :
             /\ payment.state = "created"
             /\ LET vin == SetToSeq({c.coin : c \in payment.coins})
                    payee == [mine |-> FALSE, value |-> nValue]
                    change == [mine |-> TRUE, value |-> payment.change]
                IN  made' = Put(made, t,
                                [vin |-> vin, prev |-> SupportingTransactions(mapWallet, vin),
                                 vout |-> IF payment.change > 0 THEN <<change, payee>> ELSE <<payee>>,
                                 after |-> DOMAIN made \ pending])
  BY <1>1, SendMoneyIs
<1>3. PICK payment \in CreateTransaction(available, nValue) :
        /\ payment.state = "created"
        /\ LET vin == SetToSeq({c.coin : c \in payment.coins})
               payee == [mine |-> FALSE, value |-> nValue]
               change == [mine |-> TRUE, value |-> payment.change]
           IN  made' = Put(made, t,
                           [vin |-> vin, prev |-> SupportingTransactions(mapWallet, vin),
                            vout |-> IF payment.change > 0 THEN <<change, payee>> ELSE <<payee>>,
                            after |-> DOMAIN made \ pending])
  BY <1>2
<1> DEFINE S      == {c.coin : c \in payment.coins}
           vin    == SetToSeq(S)
           payee  == [mine |-> FALSE, value |-> nValue]
           change == [mine |-> TRUE, value |-> payment.change]
           vout   == IF payment.change > 0 THEN <<change, payee>> ELSE <<payee>>
           tx     == [vin |-> vin, prev |-> SupportingTransactions(mapWallet, vin), vout |-> vout,
                      after |-> DOMAIN made \ pending]
<1>5. made' = Put(made, t, tx)
  BY <1>3
<1>6. nValue \in Nat
  BY WalletAssumption
<1>8. /\ vin \in Seq(S) /\ Range(vin) = S /\ S \subseteq Hashes \X Nat
      /\ \A p \in S : p[1] \in DOMAIN mapWallet /\ p[2] \notin mapWallet[p[1]].spent
      /\ payment.change \in Int
  BY <1>1, <1>3, <1>6, PaymentIs
<1>9. vout \in Seq([mine: BOOLEAN, value: Nat])
  <2> DEFINE O == [mine: BOOLEAN, value: Nat]
  <2>1. payee \in O /\ (payment.change > 0 => change \in O)
    BY <1>6, <1>8
  <2> HIDE DEF O, payee, change
  <2>2. <<payee>> \in Seq(O) /\ (payment.change > 0 => <<change, payee>> \in Seq(O))
    BY <2>1
  <2>3. vout \in Seq(O)
    BY <2>2
  <2> QED
    BY <2>3 DEF O
<1> HIDE DEF S, vin, vout, available
<1>10. tx.vin = vin /\ tx.vout = vout /\ tx.after = DOMAIN made \ pending
  OBVIOUS
<1> HIDE DEF tx
<1>11. /\ PaymentsTyped' /\ Known' = Known /\ PendingHashes' \subseteq DOMAIN mapWallet
       /\ SafeCoins' = SafeCoins /\ (Clean' => Disjoint')
  <2>1. tx.vin \in Seq(S) /\ Range(tx.vin) = S /\ tx.vout \in Seq([mine: BOOLEAN, value: Nat])
    BY <1>8, <1>9, <1>10
  <2> QED
    BY <1>2, <1>5, <1>8, <1>10, <2>1, PaymentIsPending
<1>12. Agree(mapWallet, walletFile, Known, DOMAIN blocks, TRUE, PendingHashes', SafeCoins)
  BY <1>2, <1>11 DEF WalletInv, Agree
<1>13. Agree(mapWallet', walletFile, Known, DOMAIN blocks, TRUE, PendingHashes', SafeCoins)
  BY <1>2, <1>12, CachesAgree
<1>14. Agree(mapWallet', walletFile', Known', DOMAIN blocks', running', PendingHashes', SafeCoins')
  <2>1. running' = running /\ DOMAIN blocks' = DOMAIN blocks /\ walletFile' = walletFile
    BY <1>2
  <2> QED
    BY <1>2, <1>11, <1>13, <2>1 DEF Agree
<1>15. ChainTyped' /\ (pending # {} => running)'
  BY <1>2, <1>11, ChainStays
<1> QED
  BY <1>11, <1>14, <1>15, InvAfter

----------------------------------------------------------------------------

LEMMA OneIsSequence ==
  ASSUME NEW S, NEW e \in S
  PROVE  <<e>> \in Seq(S) /\ <<>> \in Seq(S)
  OBVIOUS

\* What went wrong stays so.
LEMMA FaultsStay ==
  ASSUME [WalletNext]_walletVars
  PROVE  faults \subseteq faults'
<1>1. CASE UNCHANGED walletVars
  BY <1>1 DEF walletVars
<1>2. ASSUME NEW prev, NEW vtx, NEW valid, NEW refused, ReceiveBlock(prev, vtx, valid, refused)
      PROVE  faults \subseteq faults'
  BY <1>2 DEF ReceiveBlock, Crashed
<1>3. ASSUME NEW t, NEW refused, ReceiveTransaction(t, refused) PROVE faults \subseteq faults'
  BY <1>3 DEF ReceiveTransaction
<1>4. ASSUME NEW t, NEW refused, CommitTransaction(t, refused) PROVE faults \subseteq faults'
  BY <1>4 DEF CommitTransaction, Crashed
<1>5. ASSUME NEW t, Abandon(t) PROVE faults \subseteq faults'
  BY <1>5 DEF Abandon
<1>6. ASSUME NEW nValue, SendMoney(nValue) PROVE faults \subseteq faults'
  BY <1>6 DEF SendMoney
<1>7. CASE GetBalance \/ Start
  BY <1>7 DEF GetBalance, Start
<1>8. CASE Stop \/ RestoreBackup
  BY <1>8 DEF Stop, RestoreBackup, Crashed
<1> QED
  BY <1>1, <1>2, <1>3, <1>4, <1>5, <1>6, <1>7, <1>8 DEF WalletNext

LEMMA AllWasWritten ==
  ASSUME [WalletNext]_walletVars, AllWritten'
  PROVE  AllWritten
  BY FaultsStay DEF AllWritten

\* The transactions of a new block are known.
LEMMA BlockIsKnown ==
  ASSUME NEW prev \in DOMAIN blocks, NEW valid \in BOOLEAN,
         NEW vtx \in {<<>>} \cup
           {<<t>> : t \in {u \in Broadcast : valid /\ Connects(u, TxsOf(Branches(blocks)[prev]))}}
  PROVE  vtx \in Seq(Known)
<1> DEFINE K == Known
<1>1. vtx = <<>> \/ \E t \in K : vtx = <<t>>
  BY DEF Broadcast, Known
<1> HIDE DEF K
<1>2. vtx \in Seq(K)
  <2>1. CASE vtx = <<>>
    BY <2>1
  <2>2. ASSUME NEW t \in K, vtx = <<t>> PROVE vtx \in Seq(K)
    <3>1. <<t>> \in Seq(K)
      BY OneIsSequence
    <3> QED
      BY <2>2, <3>1
  <2> QED
    BY <1>1, <2>1, <2>2
<1> QED
  BY <1>2 DEF K

LEMMA WalletNextInv ==
  ASSUME WalletInv, [WalletNext]_walletVars, AllWritten'
  PROVE  WalletInv'
<1>1. CASE UNCHANGED walletVars
  <2>1. UNCHANGED <<blocks, pindexBest, mapWallet, walletFile, made, pending, running, faults>>
    BY <1>1 DEF walletVars
  <2>2. /\ PaymentsTyped' /\ Known' = Known /\ PendingHashes' = PendingHashes
        /\ SafeCoins' \subseteq SafeCoins /\ (Clean' => Disjoint')
    BY <2>1, PaymentsStay
  <2>3. Agree(mapWallet', walletFile', Known', DOMAIN blocks', running', PendingHashes', SafeCoins')
    BY <2>1, <2>2, AgreeWeaker DEF WalletInv
  <2>4. ChainTyped' /\ (pending # {} => running)'
    BY <2>1, <2>2, ChainStays DEF WalletInv
  <2> QED
    BY <2>2, <2>3, <2>4, InvAfter
<1>2. ASSUME NEW nValue \in Payees, SendMoney(nValue) PROVE WalletInv'
  BY <1>2, SendMoneyInv
<1>3. ASSUME NEW prev \in DOMAIN blocks, NEW valid \in BOOLEAN,
             NEW vtx \in {<<>>} \cup
               {<<t>> : t \in {u \in Broadcast : valid /\ Connects(u, TxsOf(Branches(blocks)[prev]))}},
             NEW refused, ReceiveBlock(prev, vtx, valid, refused)
      PROVE  WalletInv'
  BY <1>3, BlockIsKnown, ReceiveBlockInv
<1>4. ASSUME NEW t \in Broadcast, NEW refused, ReceiveTransaction(t, refused) PROVE WalletInv'
  BY <1>4, ReceiveTransactionInv
<1>5. ASSUME NEW t, NEW refused, CommitTransaction(t, refused) PROVE WalletInv'
  BY <1>5, CommitTransactionInv
<1>6. ASSUME NEW t \in pending, Abandon(t) PROVE WalletInv'
  BY <1>6, AbandonInv
<1>7. CASE GetBalance
  BY <1>7, GetBalanceInv
<1>8. CASE Stop
  BY <1>8, StopInv
<1>9. CASE RestoreBackup
  BY <1>9, RestoreBackupInv
<1>10. CASE Start
  BY <1>10, StartInv
<1> QED
  BY <1>1, <1>2, <1>3, <1>4, <1>5, <1>6, <1>7, <1>8, <1>9, <1>10 DEF WalletNext

\* As long as the database refused no record: memory and wallet.dat are about the
\* same transactions, all of them known to the chain or committed, and the outputs
\* a pending payment spends belong to transactions of the wallet; the coins of every
\* committed payment are marked as spent in both, and a payment spends no coin of
\* one that was committed before it was created, unless a crash came between the
\* record of a payment and the marks of its coins or an older file was put back.
\* This is so through reorganisations, crashes at the writes of the file and the
\* rescan that follows, with any number of payments created and not yet committed,
\* for wallets and chains of any size.
THEOREM WalletHoldsTogether == WalletSpec => [](AllWritten => WalletInv)
<1>1. WalletInit => (AllWritten => WalletInv)
  BY WalletInitInv
<1>2. (AllWritten => WalletInv) /\ [WalletNext]_walletVars => (AllWritten => WalletInv)'
  BY WalletNextInv, AllWasWritten
<1> QED
  BY <1>1, <1>2, PTL DEF WalletSpec

\* A payment spends no coin of a payment that was committed before it was created
\* (CWallet::CreateTransaction, CommitTransaction), the faults excepted that the
\* property names.  Of two that are created before either is committed nothing is
\* said: CreateTransaction does not know the other, and CommitTransaction does not
\* look at the coins again.
THEOREM NoCoinIsSharedByPayments == WalletSpec => []PaymentsShareNoCoin
<1>1. (AllWritten => WalletInv) => PaymentsShareNoCoin
  <2> SUFFICES ASSUME AllWritten => WalletInv, faults \cap {"halfPaid", "restored", "unwritten"} = {},
                      NEW s \in DOMAIN made, NEW t \in DOMAIN made, s \in made[t].after
               PROVE  Inputs(s) \cap Inputs(t) = {}
    BY DEF PaymentsShareNoCoin
  <2>1. WalletInv /\ Clean
    BY DEF AllWritten, Clean
  <2>2. ASSUME NEW u \in DOMAIN made PROVE Inputs(u) = CoinsOf(u)
    <3>1. u \in 1..MaxPayments
      BY <2>1 DEF WalletInv, PaymentsTyped
    <3>2. u \notin DOMAIN Foreign
      BY <3>1, WalletAssumption
    <3> QED
      BY <3>2 DEF Inputs, CoinsOf, Transaction
  <2> QED
    BY <2>1, <2>2 DEF WalletInv, Disjoint
<1> QED
  BY <1>1, WalletHoldsTogether, PTL

----------------------------------------------------------------------------
(* The places of blocks on branches: a branch goes up, and where two of them *)
(* have a block in common they have all blocks before it.                    *)

\* The first k members of a sequence.
First(s, k) == {s[i] : i \in 1..k}

\* The branch of block b.
IsLine(bs, b) ==
  LET s == Branches(bs)[b] IN
  /\ s \in Seq(Nat) /\ (b # 0 => Len(s) # 0 /\ s[Len(s)] = b)
  /\ \A j \in 1..Len(s) : s[j] \in DOMAIN bs /\ s[j] <= b
  /\ \A i, j \in 1..Len(s) : i < j => s[i] < s[j]
  /\ \A j \in 1..Len(s) : Range(Branches(bs)[bs[s[j]].prev]) = First(s, j - 1)

LEMMA LineGoesOn ==
  ASSUME NEW R, NEW bs \in Seq(R), IsTree(bs), NEW b \in DOMAIN bs, IsLine(bs, bs[b].prev)
  PROVE  IsLine(bs, b)
<1> DEFINE c == bs[b].prev
           v == Branches(bs)[c]
           n == Len(v)
           s == Branches(bs)[b]
<1>1. b \in Nat /\ c \in Nat /\ c < b /\ (c = 0 => b = 1)
  BY DEF IsTree
<1>2. /\ v \in Seq(Nat) /\ n \in Nat
      /\ \A j \in 1..n : v[j] \in DOMAIN bs /\ v[j] <= c /\ v[j] \in Nat
      /\ \A i, j \in 1..n : i < j => v[i] < v[j]
      /\ \A j \in 1..n : Range(Branches(bs)[bs[v[j]].prev]) = First(v, j - 1)
  <2>1. IsLine(bs, c)
    OBVIOUS
  <2> HIDE DEF c
  <2>2. /\ v \in Seq(Nat)
        /\ \A j \in 1..n : v[j] \in DOMAIN bs /\ v[j] <= c
        /\ \A i, j \in 1..n : i < j => v[i] < v[j]
        /\ \A j \in 1..n : Range(Branches(bs)[bs[v[j]].prev]) = First(v, j - 1)
    BY <2>1 DEF IsLine
  <2> HIDE DEF v
  <2>3. n \in Nat /\ \A j \in 1..n : v[j] \in Nat
    BY <2>2
  <2> QED
    BY <2>2, <2>3
<1>3. s = Append(v, b)
  BY BranchesWalk
<1> HIDE DEF v, c, s
<1>4. /\ s \in Seq(Nat) /\ Len(s) = n + 1 /\ s[n + 1] = b /\ \A i \in 1..n : s[i] = v[i]
  BY <1>1, <1>2, <1>3
<1>5. Range(v) = First(v, n)
  BY <1>2 DEF Range, First
<1> HIDE DEF n
<1>6. ASSUME NEW k \in 0..n PROVE First(s, k) = First(v, k)
  <2>1. \A i \in 1..k : s[i] = v[i]
    BY <1>2, <1>4
  <2> QED
    BY <2>1 DEF First
<1>7. ASSUME NEW j \in 1..Len(s)
      PROVE  /\ s[j] \in DOMAIN bs /\ s[j] <= b
             /\ Range(Branches(bs)[bs[s[j]].prev]) = First(s, j - 1)
             /\ \A i \in 1..Len(s) : i < j => s[i] < s[j]
  <2>1. CASE j = n + 1
    <3>1. j - 1 = n /\ n \in 0..n
      BY <1>2, <2>1
    <3>2. Range(Branches(bs)[bs[s[j]].prev]) = First(s, j - 1)
      BY <1>4, <1>5, <1>6, <2>1, <3>1 DEF v, c
    <3>3. ASSUME NEW i \in 1..Len(s), i < j PROVE s[i] < s[j]
      <4>1. i \in 1..n
        BY <1>2, <1>4, <2>1, <3>3
      <4>2. s[i] = v[i] /\ v[i] <= c /\ v[i] \in Nat /\ s[j] = b
        BY <1>2, <1>4, <2>1, <4>1
      <4> QED
        BY <1>1, <4>2
    <3> QED
      BY <1>1, <1>4, <2>1, <3>2, <3>3
  <2>2. CASE j # n + 1
    <3>1. j \in 1..n /\ j - 1 \in 0..n
      BY <1>2, <1>4, <2>2
    <3>2. Range(Branches(bs)[bs[s[j]].prev]) = First(s, j - 1)
      BY <1>2, <1>4, <1>6, <3>1
    <3>3. ASSUME NEW i \in 1..Len(s), i < j PROVE s[i] < s[j]
      <4>1. i \in 1..n
        <5>1. n \in Nat /\ Len(s) = n + 1
          BY <1>2, <1>4
        <5> QED
          BY <3>1, <3>3, <5>1
      <4>2. s[i] = v[i] /\ s[j] = v[j] /\ v[i] < v[j]
        BY <1>2, <1>4, <3>1, <3>3, <4>1
      <4> QED
        BY <4>2
    <3>4. s[j] \in DOMAIN bs /\ s[j] <= c /\ s[j] \in Nat
      BY <1>2, <1>4, <3>1
    <3>5. s[j] <= b
      BY <1>1, <3>4
    <3> QED
      BY <3>2, <3>3, <3>4, <3>5
  <2> QED
    BY <2>1, <2>2
<1>8. Len(s) # 0 /\ s[Len(s)] = b
  BY <1>2, <1>4
<1> QED
  BY <1>4, <1>7, <1>8 DEF IsLine, s

LEMMA LinesAre ==
  ASSUME NEW R, NEW bs \in Seq(R), IsTree(bs)
  PROVE  \A b \in 0..Len(bs) : IsLine(bs, b)
<1> DEFINE D == 0..Len(bs)
           root == 0
           p == [b \in 0..Len(bs) |-> IF b = 0 THEN 0 ELSE bs[b].prev]
           S == {b \in D : IsLine(bs, b)}
<1>1. Grounded(D, root, p)
  BY TreeGrounded
<1>2. Len(bs) \in Nat /\ root \in D /\ \A b \in D \ {root} : b \in DOMAIN bs /\ p[b] = bs[b].prev
  OBVIOUS
<1>3. root \in S
  <2>1. Branches(bs)[0] = <<>>
    BY BranchesWalk
  <2>2. IsLine(bs, 0)
    BY <2>1 DEF IsLine
  <2> QED
    BY <1>2, <2>2
<1>4. ASSUME NEW b \in D \ {root}, p[b] \in S PROVE b \in S
  <2>1. b \in DOMAIN bs /\ IsLine(bs, bs[b].prev)
    BY <1>2, <1>4
  <2> HIDE DEF D, p, root
  <2> QED
    BY <2>1, LineGoesOn
<1>5. D \subseteq S
  <2> HIDE DEF S, D, p, root
  <2> QED
    BY <1>1, <1>3, <1>4, WalkInduction
<1> QED
  BY <1>5

LEMMA FirstCounts ==
  ASSUME NEW s, NEW n \in Nat, \A i \in 1..n : s[i] \in Nat,
         \A i, j \in 1..n : i < j => s[i] < s[j]
  PROVE  Cardinality(First(s, n)) = n
<1> DEFINE S == First(s, n)
           D == 1..n
           g == [i \in D |-> s[i]]
<1>1. g \in [D -> S] /\ \A x \in S : \E i \in D : g[i] = x
  BY DEF First
<1>2. ASSUME NEW i \in D, NEW j \in D, g[i] = g[j] PROVE i = j
  <2>1. s[i] = s[j] /\ s[i] \in Nat /\ s[j] \in Nat /\ i \in Nat /\ j \in Nat
    BY <1>2
  <2>2. i < j => s[i] < s[j]
    OBVIOUS
  <2>3. j < i => s[j] < s[i]
    OBVIOUS
  <2> HIDE DEF D, g
  <2> QED
    BY <2>1, <2>2, <2>3
<1> HIDE DEF S, g, D
<1>3. g \in Bijection(D, S)
  BY <1>1, <1>2 DEF Bijection, Injection, Surjection, IsInjective
<1>4. ExistsBijection(1..n, S)
  BY <1>3 DEF ExistsBijection, D
<1>5. Cardinality(S) = n
  BY <1>4, FS_CountingElements
<1> QED
  BY <1>5 DEF S

\* The blocks that a branch has in common with another are the first ones of it.
LEMMA SharedSplits ==
  ASSUME NEW R, NEW bs \in Seq(R), IsTree(bs), NEW a \in DOMAIN bs, NEW b \in DOMAIN bs
  PROVE  /\ Shared(Branches(bs)[a], Branches(bs)[b]) \in 1..Len(Branches(bs)[a])
         /\ First(Branches(bs)[a], Shared(Branches(bs)[a], Branches(bs)[b]))
              = Range(Branches(bs)[a]) \cap Range(Branches(bs)[b])
<1> DEFINE x == Branches(bs)[a]
           y == Branches(bs)[b]
           n == Len(x)
           J == {j \in 1..n : x[j] \in Range(y)}
<1>1. IsLine(bs, a) /\ IsLine(bs, b)
  <2>1. a \in 0..Len(bs) /\ b \in 0..Len(bs)
    OBVIOUS
  <2> QED
    BY <2>1, LinesAre
<1>2. /\ x \in Seq(Nat) /\ \A i, j \in 1..n : i < j => x[i] < x[j]
      /\ \A j \in 1..n : Range(Branches(bs)[bs[x[j]].prev]) = First(x, j - 1)
  BY <1>1 DEF IsLine
<1>3. y \in Seq(Nat) /\ \A k \in 1..Len(y) : Range(Branches(bs)[bs[y[k]].prev]) = First(y, k - 1)
  BY <1>1 DEF IsLine
<1> HIDE DEF x, y
<1>4. n \in Nat /\ DOMAIN x = 1..n /\ \A i \in 1..n : x[i] \in Nat
  <2>1. x \in Seq(Nat)
    BY <1>2
  <2> QED
    BY <2>1
<1>5. Len(y) \in Nat /\ DOMAIN y = 1..Len(y)
  BY <1>3
<1> HIDE DEF n
<1>6. ASSUME NEW j \in J, NEW i \in 1..n, i < j PROVE i \in J
  <2>1. j \in 1..n /\ x[j] \in Range(y)
    OBVIOUS
  <2>2. PICK k \in 1..Len(y) : x[j] = y[k]
    BY <1>5, <2>1 DEF Range
  <2>3. First(x, j - 1) = First(y, k - 1)
    BY <1>2, <1>3, <2>1, <2>2
  <2>4. i \in 1..(j - 1)
    BY <1>6, <2>1
  <2>5. x[i] \in First(x, j - 1)
    BY <2>4 DEF First
  <2>6. First(y, k - 1) \subseteq Range(y)
    <3>1. \A l \in 1..(k - 1) : l \in 1..Len(y)
      BY <1>5
    <3> QED
      BY <1>5, <3>1 DEF First, Range
  <2> QED
    BY <2>3, <2>5, <2>6
<1>7. PICK m \in 0..n : J = 1..m
  <2> DEFINE T == {k \in 1..(n + 1) : k \notin J}
  <2>1. T \subseteq Nat /\ n + 1 \in T
    BY <1>4
  <2>2. PICK k \in T : \A l \in T : k <= l
    <3> HIDE DEF T
    <3> QED
      BY <2>1, LeastNumber
  <2>3. k \in 1..(n + 1) /\ k \notin J /\ \A l \in 1..(n + 1) : l \notin J => k <= l
    BY <2>2
  <2>4. \A j \in J : j \in 1..n
    OBVIOUS
  <2> HIDE DEF J, T
  <2> DEFINE m == k - 1
  <2>5. m \in 0..n /\ k = m + 1
    BY <1>4, <2>3
  <2>6. ASSUME NEW i \in 1..m PROVE i \in J
    <3>1. i \in 1..(n + 1) /\ ~(k <= i)
      BY <1>4, <2>3, <2>5
    <3> QED
      BY <2>3, <3>1
  <2>7. ASSUME NEW j \in J PROVE j \in 1..m
    <3>1. j \in 1..n /\ j # k
      BY <2>3, <2>4
    <3>2. ~(k < j)
      <4>1. k < j => k \in 1..n
        BY <1>4, <2>3, <3>1
      <4> QED
        BY <1>6, <2>3, <4>1
    <3>3. n \in Nat /\ m \in 0..n /\ k = m + 1
      BY <1>4, <2>5
    <3> QED
      BY <3>1, <3>2, <3>3
  <2>8. J = 1..m
    BY <2>6, <2>7
  <2> HIDE DEF m
  <2> QED
    BY <2>5, <2>8
<1>8. Range(x) \cap Range(y) = First(x, m)
  <2>1. Range(x) \cap Range(y) = {x[j] : j \in J}
    BY <1>4 DEF Range
  <2> HIDE DEF J
  <2> QED
    BY <1>7, <2>1 DEF First
<1>9. Cardinality(First(x, m)) = m
  <2>1. m \in Nat /\ \A i \in 1..m : i \in 1..n
    BY <1>4, <1>7
  <2>2. /\ \A i \in 1..m : x[i] \in Nat
        /\ \A i, j \in 1..m : i < j => x[i] < x[j]
    BY <1>2, <1>4, <2>1
  <2> QED
    BY <2>1, <2>2, FirstCounts
<1>10. Shared(x, y) = m
  BY <1>8, <1>9 DEF Shared
<1>11. m # 0
  BY <1>10, SharedIs DEF x, y
<1>12. m \in 1..n
  BY <1>4, <1>7, <1>11
<1> QED
  BY <1>8, <1>10, <1>12 DEF x, y, n

\* A new block changes no branch that was there.
LEMMA BranchesStay ==
  ASSUME NEW R, NEW bs \in Seq(R), IsTree(bs), NEW block \in R, IsTree(Append(bs, block))
  PROVE  \A b \in 0..Len(bs) : Branches(Append(bs, block))[b] = Branches(bs)[b]
<1> DEFINE new == Append(bs, block)
           D == 0..Len(bs)
           root == 0
           p == [b \in 0..Len(bs) |-> IF b = 0 THEN 0 ELSE bs[b].prev]
           S == {b \in D : Branches(new)[b] = Branches(bs)[b]}
<1>1. Grounded(D, root, p)
  BY TreeGrounded
<1>2. Len(bs) \in Nat /\ root \in D /\ \A b \in D \ {root} : b \in DOMAIN bs /\ p[b] = bs[b].prev
  OBVIOUS
<1>3. new \in Seq(R) /\ \A b \in DOMAIN bs : b \in DOMAIN new /\ new[b] = bs[b]
  OBVIOUS
<1> HIDE DEF new
<1>4. /\ Branches(bs)[0] = <<>> /\ Branches(new)[0] = <<>>
      /\ \A b \in DOMAIN bs : Branches(bs)[b] = Append(Branches(bs)[bs[b].prev], b)
      /\ \A b \in DOMAIN new : Branches(new)[b] = Append(Branches(new)[new[b].prev], b)
  BY <1>3, BranchesWalk DEF new
<1>5. root \in S
  BY <1>2, <1>4
<1>6. ASSUME NEW b \in D \ {root}, p[b] \in S PROVE b \in S
  <2>1. b \in DOMAIN bs /\ Branches(new)[bs[b].prev] = Branches(bs)[bs[b].prev]
    BY <1>2, <1>6
  <2>2. b \in DOMAIN new /\ new[b] = bs[b]
    BY <1>3, <2>1
  <2>3. Branches(bs)[b] = Append(Branches(bs)[bs[b].prev], b)
    BY <1>4, <2>1
  <2>4. Branches(new)[b] = Append(Branches(new)[new[b].prev], b)
    BY <1>4, <2>2
  <2>5. Branches(new)[b] = Branches(bs)[b]
    BY <2>1, <2>2, <2>3, <2>4
  <2> QED
    BY <2>5
<1>7. D \subseteq S
  <2> HIDE DEF S, D, p, root
  <2> QED
    BY <1>1, <1>5, <1>6, WalkInduction
<1> QED
  BY <1>7 DEF new

----------------------------------------------------------------------------
(* What a scan adds: a transaction that pays the wallet or spends something  *)
(* of its own is put into it, with the block, and what it spends is marked.  *)

TxsIn(bs, B) == UNION {Range(bs[b].vtx) : b \in B}
PlacesIn(bs, B) == UNION {Range(bs[b].vtx) \X {b} : b \in B}

Involves(t) == PaysMe(t) \/ \E p \in Inputs(t) : Output(p).mine /\ Output(p).value > 0
OwnTxs(txs) == {t \in txs : Involves(t)}
OwnCoins(txs) == {p \in SpentBy(txs) : Output(p).mine}

\* The wallet knows what concerns it of these transactions.
Follows(w, txs, at) == Has(w, OwnTxs(txs), OwnCoins(txs), at)

\* The debit of a transaction, whichever input is counted first.
LEMMA DebitIs ==
  ASSUME NEW S, IsFiniteSet(S), \A p \in S : Output(p).value \in Nat
  PROVE  MapThenSumSet(LAMBDA p : Output(p).value, S) > 0 <=> \E p \in S : Output(p).value > 0
<1> DEFINE val == [p \in S |-> Output(p).value]
<1>1. val \in [S -> Nat]
  OBVIOUS
<1>2. PICK f \in [SUBSET S -> Nat] : IsSum(f, S, val)
  <2> HIDE DEF val
  <2> QED
    BY <1>1, SumExists
<1> DEFINE Step(h, s) == IF s = {} THEN 0 ELSE Output(CHOOSE x \in s : TRUE).value + h[s \ {CHOOSE x \in s : TRUE}]
           iter == CHOOSE h : h = [s \in SUBSET S |-> Step(h, s)]
<1>3. ASSUME NEW s \in SUBSET S PROVE f[s] = Step(f, s)
  <2>1. f[s] = IF s = {} THEN 0 ELSE val[OneOf(s)] + f[s \ {OneOf(s)}]
    BY <1>2 DEF IsSum
  <2>2. s # {} => OneOf(s) \in S /\ val[OneOf(s)] = Output(OneOf(s)).value
    BY DEF OneOf
  <2> HIDE DEF val
  <2> QED
    BY <2>1, <2>2 DEF OneOf
<1>4. f = [s \in SUBSET S |-> Step(f, s)]
  <2> HIDE DEF Step
  <2> QED
    BY <1>3
<1>5. iter = [s \in SUBSET S |-> Step(iter, s)]
  <2> HIDE DEF Step
  <2> QED
    BY <1>4
<1>6. \A s \in SUBSET S : iter[s] = Step(iter, s)
  <2> HIDE DEF Step, iter
  <2> QED
    BY <1>5
<1>7. IsSum(iter, S, val)
  <2> SUFFICES ASSUME NEW s \in SUBSET S
               PROVE  iter[s] = IF s = {} THEN 0 ELSE val[OneOf(s)] + iter[s \ {OneOf(s)}]
    BY DEF IsSum
  <2>1. s # {} => OneOf(s) \in S /\ val[OneOf(s)] = Output(OneOf(s)).value
    BY DEF OneOf
  <2> HIDE DEF iter, val
  <2> QED
    BY <1>6, <2>1 DEF OneOf
<1>8. f[S] = iter[S]
  <2> HIDE DEF iter, val
  <2> QED
    BY <1>1, <1>2, <1>7, SumAgrees
<1>9. MapThenSumSet(LAMBDA p : Output(p).value, S) = iter[S]
  BY DEF MapThenSumSet, MapThenFoldSet
<1>10. AddsUp(f, S, val)
  <2> HIDE DEF val
  <2> QED
    BY <1>1, <1>2, SumStep
<1>11. ASSUME NEW p \in S, Output(p).value > 0 PROVE f[S] > 0
  <2>1. f[S] = val[p] + f[S \ {p}] /\ f[S \ {p}] \in Nat /\ val[p] = Output(p).value /\ val[p] \in Nat
    BY <1>1, <1>10 DEF AddsUp
  <2> HIDE DEF val
  <2> QED
    BY <1>11, <2>1
<1>12. ASSUME \A p \in S : ~(Output(p).value > 0) PROVE f[S] = 0
  <2> DEFINE g == [s \in SUBSET S |-> 0]
  <2>1. \A p \in S : val[p] = 0
    BY <1>12
  <2>2. IsSum(g, S, val)
    <3> SUFFICES ASSUME NEW s \in SUBSET S
                 PROVE  g[s] = IF s = {} THEN 0 ELSE val[OneOf(s)] + g[s \ {OneOf(s)}]
      BY DEF IsSum
    <3>1. s # {} => OneOf(s) \in S
      BY DEF OneOf
    <3>2. g[s] = 0 /\ g[s \ {OneOf(s)}] = 0
      OBVIOUS
    <3> HIDE DEF g, val
    <3> QED
      BY <2>1, <3>1, <3>2
  <2>3. f[S] = g[S]
    <3> HIDE DEF g, val
    <3> QED
      BY <1>2, <2>2, SumAgrees
  <2> QED
    BY <2>3
<1> HIDE DEF iter, val
<1>13. f[S] \in Nat
  BY <1>2
<1> QED
  BY <1>8, <1>9, <1>11, <1>12, <1>13

\* A transaction that can be told to a wallet that follows those before it.
Fits(t, txs) ==
  /\ IsFiniteSet(Inputs(t))
  /\ \A p \in Inputs(t) : Output(p).value \in Nat /\ (Output(p).mine => p[1] \in OwnTxs(txs))

LEMMA OneLearns ==
  ASSUME NEW w, NEW txs, NEW at, Follows(w, txs, at), NEW t, Fits(t, txs), NEW b, b # 0,
         NEW T, Settles(T, at), NEW v, Grows(w, v, T), TakesIn(w, v, t, b)
  PROVE  Follows(v, txs \cup {t}, at \cup {<<t, b>>})
<1> DEFINE own == {p \in Inputs(t) : Own(w, p)}
<1>1. Has(v, OwnTxs(txs), OwnCoins(txs), at)
  <2> DEFINE hashes == OwnTxs(txs)
             coins == OwnCoins(txs)
  <2>1. Has(w, hashes, coins, at)
    BY DEF Follows
  <2> HIDE DEF hashes, coins
  <2> QED
    BY <2>1, GrownHas DEF hashes, coins
<1>2. OwnTxs(txs) \subseteq DOMAIN w /\ OwnTxs(txs) \subseteq DOMAIN v
  BY <1>1 DEF Follows, Has
<1>3. \A p \in Inputs(t) : Output(p).mine => Own(w, p)
  BY <1>2 DEF Fits, Own
<1>4. Involves(t) => t \in DOMAIN v
  <2>1. CASE PaysMe(t)
    BY <2>1 DEF TakesIn
  <2>2. ASSUME NEW p \in Inputs(t), Output(p).mine, Output(p).value > 0 PROVE t \in DOMAIN v
    <3>1. IsFiniteSet(own) /\ \A q \in own : Output(q).value \in Nat
      <4>1. own \subseteq Inputs(t) /\ IsFiniteSet(Inputs(t)) /\ \A q \in own : Output(q).value \in Nat
        BY DEF Fits
      <4> HIDE DEF own
      <4> QED
        BY <4>1, FS_Subset
    <3>2. p \in own
      BY <1>3, <2>2
    <3> HIDE DEF own
    <3>3. MapThenSumSet(LAMBDA q : Output(q).value, own) > 0
      BY <2>2, <3>1, <3>2, DebitIs
    <3>4. IsFromMe(w, t)
      BY <3>3 DEF IsFromMe, GetDebit, own
    <3> QED
      BY <3>4 DEF TakesIn
  <2> QED
    BY <2>1, <2>2 DEF Involves
<1>5. OwnTxs(txs \cup {t}) \subseteq DOMAIN v
  BY <1>2, <1>4 DEF OwnTxs
<1>6. Marked(v, OwnCoins(txs \cup {t}))
  <2> SUFFICES ASSUME NEW p \in OwnCoins(txs \cup {t}) PROVE p[1] \in DOMAIN v /\ p[2] \in v[p[1]].spent
    BY DEF Marked
  <2>1. CASE p \in OwnCoins(txs)
    BY <1>1, <2>1 DEF Has, Marked
  <2>2. CASE p \notin OwnCoins(txs)
    <3>1. p \in Inputs(t) /\ Output(p).mine
      BY <2>2 DEF OwnCoins, SpentBy
    <3>2. Own(w, p)
      BY <1>3, <3>1
    <3>3. p[1] \in DOMAIN w /\ DOMAIN w \subseteq DOMAIN v
      BY <3>2 DEF Own, Grows
    <3> QED
      BY <3>1, <3>2, <3>3 DEF TakesIn
  <2> QED
    BY <2>1, <2>2
<1>7. Placed(v, at \cup {<<t, b>>})
  <2>1. Placed(v, at)
    BY <1>1 DEF Has
  <2>2. t \in DOMAIN v => v[t].block = b
    BY DEF TakesIn
  <2> QED
    BY <2>1, <2>2 DEF Placed
<1> QED
  BY <1>5, <1>6, <1>7 DEF Follows, Has

LEMMA FitsMore ==
  ASSUME NEW txs, NEW more, txs \subseteq more, NEW t, Fits(t, txs)
  PROVE  Fits(t, more)
  BY DEF Fits, OwnTxs

\* A block that is told to the wallet.
LEMMA ScanBlockLearns ==
  ASSUME NEW K, NEW A, NEW X, NEW hashes, NEW coins, Readable(K, A),
         NEW m \in Stored(K, A, X, hashes, coins, NoPlaces), NEW b \in A, b # 0, NEW vtx \in Seq(K),
         NEW txs, NEW at, Follows(m.w, txs, at), Settles(Range(vtx) \X {b}, at),
         \A t \in Range(vtx) : Fits(t, txs)
  PROVE  LET n == ScanBlock(m, b, vtx, TRUE) IN
         /\ n \in Stored(K, A, X, hashes, coins, NoPlaces)
         /\ Follows(n.w, txs \cup Range(vtx), at \cup Range(vtx) \X {b})
<1> DEFINE V == Stored(K, A, X, hashes, coins, NoPlaces)
           Q == Range(vtx)
           T == Q \X {b}
           n == Len(vtx)
           none == NoPlaces
<1>1. vtx \in Seq(Q) /\ Q \subseteq K
  BY SequenceOfRange, RangeIsWithin
<1>2. n \in Nat /\ DOMAIN vtx = 1..n /\ (\A k \in 1..n : vtx[k] \in Q) /\ First(vtx, n) = Q /\ First(vtx, 0) = {}
  BY DEF Range, First
<1>3. ASSUME NEW v \in V, NEW t \in Q
      PROVE  LET x == AddToWalletIfInvolvingMe(v, t, b, TRUE) IN
             x \in V /\ Grows(v.w, x.w, T) /\ TakesIn(v.w, x.w, t, b)
  <2>1. Settles(T, none) /\ <<t, b>> \in T /\ t \in K /\ v \in Stored(K, A, X, hashes, coins, none)
    BY <1>1 DEF Settles, NoPlaces
  <2> DEFINE yes == TRUE
  <2> HIDE DEF T, none, Q, yes
  <2>2. /\ AddToWalletIfInvolvingMe(v, t, b, yes) \in Stored(K, A, X, hashes, coins, none)
        /\ Grows(v.w, AddToWalletIfInvolvingMe(v, t, b, yes).w, T)
        /\ yes = TRUE => TakesIn(v.w, AddToWalletIfInvolvingMe(v, t, b, yes).w, t, b)
    BY <2>1, AddIfInvolvedKeeps
  <2> QED
    BY <2>2 DEF none, yes
<1>4. PICK h : /\ h[0] = m /\ h[Len(vtx)] = ScanBlock(m, b, vtx, TRUE)
               /\ \A k \in 0..Len(vtx) : h[k] \in V
               /\ \A k \in 1..Len(vtx) : h[k] = AddToWalletIfInvolvingMe(h[k - 1], vtx[k], b, TRUE)
  <2> DEFINE yes == TRUE
  <2>1. \A v \in V, t \in Q : AddToWalletIfInvolvingMe(v, t, b, yes) \in V
    BY <1>3
  <2> HIDE DEF V, Q, yes
  <2>2. \E h : /\ h[0] = m /\ h[Len(vtx)] = ScanBlock(m, b, vtx, yes)
               /\ \A k \in 0..Len(vtx) : h[k] \in V
               /\ \A k \in 1..Len(vtx) : h[k] = AddToWalletIfInvolvingMe(h[k - 1], vtx[k], b, yes)
    <3>1. m \in V
      BY DEF V
    <3> QED
      BY <1>1, <2>1, <3>1, ScanBlockSteps
  <2> QED
    BY <2>2 DEF yes
<1> DEFINE told(k) == txs \cup First(vtx, k)
           places(k) == at \cup First(vtx, k) \X {b}
           D == {k \in 0..n : Follows(h[k].w, told(k), places(k))}
<1>5. 0 \in D
  <2>1. told(0) = txs /\ places(0) = at
    BY <1>2
  <2>2. 0 \in 0..n /\ h[0].w = m.w
    BY <1>2, <1>4
  <2> HIDE DEF told, places, n
  <2>3. Follows(h[0].w, told(0), places(0))
    BY <2>1, <2>2
  <2> QED
    BY <2>2, <2>3
<1>6. ASSUME NEW k \in 1..n, k - 1 \in D PROVE k \in D
  <2> DEFINE j == k - 1
             t == vtx[k]
             v == h[j]
             x == h[k]
  <2>1. j \in 0..n /\ k \in 0..n /\ 1..k = (1..j) \cup {k}
    BY <1>2
  <2>2. First(vtx, k) = First(vtx, j) \cup {t} /\ First(vtx, j) \subseteq Q
    <3> HIDE DEF j
    <3>1. First(vtx, k) = First(vtx, j) \cup {t}
      BY <2>1 DEF First
    <3>2. \A i \in 1..j : i \in 1..n
      BY <1>2, <2>1
    <3> QED
      BY <1>2, <3>1, <3>2 DEF First
  <2>3. t \in Q /\ v \in V /\ Follows(v.w, told(j), places(j))
    BY <1>2, <1>4, <1>6, <2>1
  <2>4. x \in V /\ Grows(v.w, x.w, T) /\ TakesIn(v.w, x.w, t, b)
    <3>1. x = AddToWalletIfInvolvingMe(v, t, b, TRUE)
      BY <1>2, <1>4
    <3> HIDE DEF x, v, t, V, T, Q
    <3> QED
      BY <1>3, <2>3, <3>1
  <2> HIDE DEF j
  <2>5. Settles(T, places(j))
    <3> DEFINE F == First(vtx, j)
    <3>1. Settles(T, at)
      OBVIOUS
    <3> HIDE DEF F, Q
    <3>2. (\A q \in T : q[2] = b) /\ \A p \in F \X {b} : p[2] = b
      OBVIOUS
    <3> HIDE DEF T
    <3>3. Settles(T, F \X {b})
      BY <3>2 DEF Settles
    <3> DEFINE P == F \X {b}
    <3> HIDE DEF P
    <3>4. Settles(T, at \cup P)
      BY <3>1, <3>3 DEF Settles, P
    <3> QED
      BY <3>4 DEF P, F
  <2>6. Fits(t, told(j))
    <3> DEFINE all == told(j)
    <3>1. txs \subseteq all /\ Fits(t, txs)
      BY <2>3
    <3> HIDE DEF all, told
    <3> QED
      BY <3>1, FitsMore DEF all
  <2> DEFINE ww == v.w
             xw == x.w
             all == told(j)
             where == places(j)
  <2>7. told(k) = all \cup {t} /\ places(k) = where \cup {<<t, b>>}
    BY <2>2
  <2>8. Follows(ww, all, where) /\ Fits(t, all) /\ Settles(T, where) /\ Grows(ww, xw, T) /\ TakesIn(ww, xw, t, b)
    BY <2>3, <2>4, <2>5, <2>6
  <2> HIDE DEF ww, xw, all, where, told, places, T, t
  <2>9. Follows(xw, all \cup {t}, where \cup {<<t, b>>})
    BY <2>8, OneLearns
  <2> QED
    BY <2>1, <2>7, <2>9 DEF xw
<1>7. n \in D
  <2> HIDE DEF D, n
  <2>1. 0..n \subseteq D
    BY <1>2, <1>5, <1>6, CountInduction
  <2> QED
    BY <1>2, <2>1
<1>8. h[n] \in V
  <2>1. n \in 0..n
    BY <1>2
  <2> HIDE DEF V
  <2> QED
    BY <1>4, <2>1
<1> HIDE DEF V
<1> QED
  BY <1>2, <1>4, <1>7, <1>8 DEF V
----------------------------------------------------------------------------
(* A branch that is told to the wallet, from a block on before which the       *)
(* wallet follows it.                                                        *)

\* A transaction is on a branch once, and spends from one that is before it on the
\* branch what is the wallet's own.
Connected(bs) ==
  /\ bs[1].vtx = FirstBlock
  /\ \A b \in DOMAIN bs : \A t \in Range(bs[b].vtx) :
       LET before == TxsIn(bs, Range(Branches(bs)[bs[b].prev])) IN
       /\ t \notin before
       /\ \A p \in Inputs(t) : /\ p[1] \in Known /\ p[2] \in DOMAIN Transaction(p[1]).vout
                               /\ Output(p).mine => p[1] \in before

\* The blocks of its transactions count only as long as they are kept.
Where(bs, B, kept) == IF kept THEN PlacesIn(bs, B) ELSE NoPlaces
FollowsIn(w, bs, B, kept) == Follows(w, TxsIn(bs, B), Where(bs, B, kept))

LEMMA FollowsLess ==
  ASSUME NEW w, NEW txs, NEW at, Follows(w, txs, at), NEW less, less \subseteq txs, NEW lessAt, lessAt \subseteq at
  PROVE  Follows(w, less, lessAt)
<1>1. OwnTxs(less) \subseteq OwnTxs(txs) /\ OwnCoins(less) \subseteq OwnCoins(txs)
  BY DEF OwnTxs, OwnCoins, SpentBy
<1> QED
  BY <1>1 DEF Follows, Has, Marked, Placed

LEMMA FollowsInLess ==
  ASSUME NEW w, NEW bs, NEW B, NEW kept, FollowsIn(w, bs, B, kept), NEW C, C \subseteq B,
         NEW keeps, keeps => kept
  PROVE  FollowsIn(w, bs, C, keeps)
<1> DEFINE less == TxsIn(bs, C)
           lessAt == Where(bs, C, keeps)
           txs == TxsIn(bs, B)
           at == Where(bs, B, kept)
<1>1. less \subseteq txs
  BY DEF TxsIn
<1>2. lessAt \subseteq at
  BY DEF Where, PlacesIn, NoPlaces
<1>3. Follows(w, txs, at)
  BY DEF FollowsIn
<1> HIDE DEF less, lessAt, txs, at
<1>4. Follows(w, less, lessAt)
  BY <1>1, <1>2, <1>3, FollowsLess
<1> QED
  BY <1>4 DEF FollowsIn, less, lessAt

LEMMA TxsAreKnown ==
  ASSUME NEW K, NEW bs, NEW B, \A b \in B : bs[b].vtx \in Seq(K)
  PROVE  TxsIn(bs, B) \subseteq K
<1> SUFFICES ASSUME NEW b \in B PROVE Range(bs[b].vtx) \subseteq K
  BY DEF TxsIn
<1>1. bs[b].vtx \in Seq(K)
  OBVIOUS
<1> DEFINE s == bs[b].vtx
<1> HIDE DEF s
<1>2. Range(s) \subseteq K
  BY <1>1, RangeIsWithin DEF s
<1> QED
  BY <1>2 DEF s

LEMMA PlacesAreOfTxs ==
  ASSUME NEW bs, NEW B, NEW kept, NEW p \in Where(bs, B, kept)
  PROVE  p[1] \in TxsIn(bs, B)
<1>1. kept /\ p \in PlacesIn(bs, B)
  BY DEF Where, NoPlaces
<1>2. PICK b \in B : p \in Range(bs[b].vtx) \X {b}
  BY <1>1 DEF PlacesIn
<1>3. p[1] \in Range(bs[b].vtx)
  BY <1>2
<1> QED
  BY <1>3 DEF TxsIn

LEMMA BlockFits ==
  ASSUME PaymentsTyped, NEW bs, Connected(bs), \A b \in DOMAIN bs : bs[b].vtx \in Seq(Known),
         NEW b \in DOMAIN bs, NEW B, Range(Branches(bs)[bs[b].prev]) = B, B \subseteq DOMAIN bs, NEW kept
  PROVE  /\ \A t \in Range(bs[b].vtx) : Fits(t, TxsIn(bs, B))
         /\ Settles(Range(bs[b].vtx) \X {b}, Where(bs, B, kept))
<1> DEFINE txs == TxsIn(bs, B)
           Q == Range(bs[b].vtx)
           K == Known
           A == Nat \cup {-1, {}}
<1>1. \A t \in Q : /\ t \notin txs
                   /\ \A p \in Inputs(t) : /\ p[1] \in Known /\ p[2] \in DOMAIN Transaction(p[1]).vout
                                           /\ Output(p).mine => p[1] \in txs
  BY DEF Connected
<1>2. Q \subseteq K /\ txs \subseteq K
  <2> DEFINE C == {b}
  <2>1. \A c \in C : bs[c].vtx \in Seq(K)
    OBVIOUS
  <2>2. \A c \in B : bs[c].vtx \in Seq(K)
    OBVIOUS
  <2> HIDE DEF C, K
  <2>3. TxsIn(bs, C) \subseteq K /\ TxsIn(bs, B) \subseteq K
    BY <2>1, <2>2, TxsAreKnown
  <2> QED
    BY <2>3 DEF TxsIn, C
<1>3. Readable(K, A)
  <2>1. K \in SUBSET (DOMAIN Foreign \cup DOMAIN made)
    BY DEF Known
  <2>2. Nat \cup {-1, {}} \subseteq A
    OBVIOUS
  <2> HIDE DEF K, A
  <2> QED
    BY <2>1, <2>2, KnownIsReadable
<1> HIDE DEF txs, Q, K, A
<1>4. ASSUME NEW t \in Q PROVE Fits(t, txs)
  <2>1. IsFiniteSet(Inputs(t))
    <3>1. t \in K
      BY <1>2
    <3>2. PICK S : Transaction(t).vin \in Seq(S)
      BY <1>3, <3>1 DEF Readable
    <3> QED
      BY <3>2, RangeIsFinite DEF Inputs
  <2>2. ASSUME NEW p \in Inputs(t) PROVE Output(p).value \in Nat /\ (Output(p).mine => p[1] \in OwnTxs(txs))
    <3>1. p[1] \in Known /\ p[2] \in DOMAIN Transaction(p[1]).vout /\ (Output(p).mine => p[1] \in txs)
      BY <1>1
    <3>2. p[1] \in DOMAIN Foreign \cup DOMAIN made
      BY <3>1 DEF Known
    <3>3. Output(p).value \in Nat
      BY <3>1, <3>2, OutputsAre DEF Output
    <3>4. Output(p).mine => PaysMe(p[1])
      BY <3>1 DEF Output, PaysMe
    <3> QED
      BY <3>1, <3>3, <3>4 DEF OwnTxs, Involves
  <2> QED
    BY <2>1, <2>2 DEF Fits
<1>5. ASSUME NEW q \in Q \X {b}, NEW p \in Where(bs, B, kept), p[1] = q[1] PROVE FALSE
  <2>1. q[1] \in Q /\ p[1] \in txs
    BY PlacesAreOfTxs DEF txs
  <2> QED
    BY <1>1, <1>5, <2>1
<1>6. Settles(Q \X {b}, Where(bs, B, kept))
  BY <1>5 DEF Settles
<1> QED
  BY <1>4, <1>6 DEF txs, Q

\* One block more.
LEMMA ScanOneLearns ==
  ASSUME PaymentsTyped, NEW A, NEW X, NEW hashes, NEW coins, Readable(Known, A), NEW bs, Connected(bs),
         \A c \in DOMAIN bs : c \in A /\ c # 0 /\ bs[c].vtx \in Seq(Known),
         NEW m \in Stored(Known, A, X, hashes, coins, NoPlaces),
         NEW b \in DOMAIN bs, NEW B, Range(Branches(bs)[bs[b].prev]) = B, B \subseteq DOMAIN bs,
         NEW kept, FollowsIn(m.w, bs, B, kept)
  PROVE  LET n == ScanOne(m, bs, b, TRUE) IN
         n \in Stored(Known, A, X, hashes, coins, NoPlaces) /\ FollowsIn(n.w, bs, B \cup {b}, kept)
<1> DEFINE K == Known
           txs == TxsIn(bs, B)
           at == Where(bs, B, kept)
           vtx == bs[b].vtx
           n == ScanBlock(m, b, vtx, TRUE)
<1>1. b \in A /\ b # 0 /\ vtx \in Seq(K) /\ Readable(K, A) /\ m \in Stored(K, A, X, hashes, coins, NoPlaces)
  OBVIOUS
<1>2. (\A t \in Range(vtx) : Fits(t, txs)) /\ Settles(Range(vtx) \X {b}, at)
  BY BlockFits
<1>3. Follows(m.w, txs, at)
  BY DEF FollowsIn
<1> HIDE DEF K, txs, at, vtx
<1>4. /\ n \in Stored(K, A, X, hashes, coins, NoPlaces)
      /\ Follows(n.w, txs \cup Range(vtx), at \cup Range(vtx) \X {b})
  BY <1>1, <1>2, <1>3, ScanBlockLearns
<1>5. TxsIn(bs, B \cup {b}) \subseteq txs \cup Range(vtx)
  BY DEF TxsIn, txs, vtx
<1>6. Where(bs, B \cup {b}, kept) \subseteq at \cup Range(vtx) \X {b}
  <2> DEFINE f == [c \in B \cup {b} |-> Range(bs[c].vtx) \X {c}]
  <2>1. PlacesIn(bs, B \cup {b}) \subseteq PlacesIn(bs, B) \cup f[b]
    BY DEF PlacesIn
  <2>2. f[b] = Range(vtx) \X {b}
    BY DEF vtx
  <2> HIDE DEF f
  <2>3. CASE kept
    BY <2>1, <2>2, <2>3 DEF Where, at
  <2>4. CASE ~kept
    BY <2>4 DEF Where, NoPlaces
  <2> QED
    BY <2>3, <2>4
<1> HIDE DEF n
<1> DEFINE more == txs \cup Range(vtx)
           moreAt == at \cup Range(vtx) \X {b}
           less == TxsIn(bs, B \cup {b})
           lessAt == Where(bs, B \cup {b}, kept)
<1>7. less \subseteq more /\ lessAt \subseteq moreAt /\ Follows(n.w, more, moreAt)
  BY <1>4, <1>5, <1>6
<1> DEFINE w == n.w
<1> HIDE DEF less, lessAt, more, moreAt, w
<1>8. Follows(w, less, lessAt)
  BY <1>7, FollowsLess DEF w
<1>9. n = ScanOne(m, bs, b, TRUE)
  BY DEF n, ScanOne, vtx
<1> QED
  BY <1>4, <1>8, <1>9 DEF FollowsIn, less, lessAt, w, K

LEMMA ScanLearns ==
  ASSUME PaymentsTyped, NEW A, NEW X, NEW hashes, NEW coins, Readable(Known, A), NEW R, NEW bs \in Seq(R),
         IsTree(bs), Connected(bs), \A c \in DOMAIN bs : c \in A /\ c # 0 /\ bs[c].vtx \in Seq(Known),
         NEW m \in Stored(Known, A, X, hashes, coins, NoPlaces),
         NEW b \in DOMAIN bs, NEW x, x = Branches(bs)[b], NEW i \in 1..(Len(x) + 1),
         NEW kept, FollowsIn(m.w, bs, First(x, i - 1), kept)
  PROVE  LET n == Scan(m, bs, SubSeq(x, i, Len(x)), TRUE) IN
         n \in Stored(Known, A, X, hashes, coins, NoPlaces) /\ FollowsIn(n.w, bs, Range(x), kept)
<1> DEFINE V == Stored(Known, A, X, hashes, coins, NoPlaces)
           D == DOMAIN bs
           j == Len(x)
           part == SubSeq(x, i, j)
           n == j - (i - 1)
           yes == TRUE
<1>1. IsLine(bs, b)
  <2>1. b \in 0..Len(bs)
    OBVIOUS
  <2> QED
    BY <2>1, LinesAre
<1>2. /\ x \in Seq(D) /\ j \in Nat /\ DOMAIN x = 1..j
      /\ \A k \in 1..j : x[k] \in D /\ Range(Branches(bs)[bs[x[k]].prev]) = First(x, k - 1)
  <2>1. x \in Seq(D)
    BY BranchesAre
  <2> HIDE DEF D
  <2>2. j \in Nat /\ DOMAIN x = 1..j
    BY <2>1
  <2>3. \A k \in 1..j : x[k] \in D /\ Range(Branches(bs)[bs[x[k]].prev]) = First(x, k - 1)
    BY <1>1 DEF IsLine, D
  <2> QED
    BY <2>1, <2>2, <2>3
<1>3. /\ part \in Seq(D) /\ Len(part) = n /\ n \in Nat
      /\ \A k \in 1..n : part[k] = x[i + k - 1] /\ i + k - 1 \in 1..j
  <2> HIDE DEF D
  <2>1. i \in Nat \ {0} /\ j \in Int /\ j <= Len(x)
    BY <1>2
  <2>2. part \in Seq(D)
    <3> HIDE DEF j
    <3> QED
      BY <1>2, <2>1, PartIsSequence
  <2>3. Len(part) = n /\ n \in Nat
    BY <1>2
  <2>4. \A k \in 1..n : part[k] = x[i + k - 1] /\ i + k - 1 \in 1..j
    BY <1>2
  <2> QED
    BY <2>2, <2>3, <2>4
<1>4. ASSUME NEW k \in 0..j PROVE First(x, k) \subseteq D
  <2> HIDE DEF D
  <2>1. \A l \in 1..k : l \in 1..j
    BY <1>2
  <2> QED
    BY <1>2, <2>1 DEF First
<1>5. ASSUME NEW v \in V, NEW c \in D PROVE ScanOne(v, bs, c, yes) \in V
  <2> DEFINE vtx == bs[c].vtx
             T == Range(vtx) \X {c}
             none == NoPlaces
             K == Known
  <2>1. c \in A /\ vtx \in Seq(K) /\ Settles(T, none) /\ (\A t \in Range(vtx) : <<t, c>> \in T)
        /\ Readable(K, A) /\ v \in Stored(K, A, X, hashes, coins, none)
    BY DEF Settles, NoPlaces
  <2> HIDE DEF vtx, T, none, K, yes
  <2>2. ScanBlock(v, c, vtx, yes) \in Stored(K, A, X, hashes, coins, none)
    BY <2>1, ScanBlockKeeps
  <2> QED
    BY <2>2 DEF ScanOne, vtx, none, K
<1>6. PICK h : IsScan(h, m, bs, part, yes, V)
  <2>1. m \in V
    OBVIOUS
  <2> HIDE DEF V, D, yes, part
  <2> QED
    BY <1>3, <1>5, <2>1, ScanSteps
<1> DEFINE from(k) == First(x, i - 1 + k)
           S == {k \in 0..n : FollowsIn(h[k].w, bs, from(k), kept)}
<1>7. 0 \in S
  <2>1. h[0] = m /\ 0 \in 0..n /\ i - 1 + 0 = i - 1
    BY <1>3, <1>6 DEF IsScan
  <2> HIDE DEF n
  <2>2. FollowsIn(h[0].w, bs, from(0), kept)
    BY <2>1
  <2> QED
    BY <2>1, <2>2
<1>8. ASSUME NEW k \in 1..n, k - 1 \in S PROVE k \in S
  <2> DEFINE l == i + k - 1
             B == First(x, l - 1)
             c == x[l]
             v == h[k - 1]
             u == h[k]
  <2>1. l \in 1..j /\ l - 1 = i - 1 + (k - 1) /\ l = i - 1 + k /\ k - 1 \in 0..n /\ k \in 0..n /\ l - 1 \in 0..j
        /\ 1..l = (1..(l - 1)) \cup {l}
    <3>1. l \in 1..j /\ n \in Nat /\ j \in Nat
      BY <1>2, <1>3
    <3> HIDE DEF n, j
    <3>2. k \in Nat /\ i \in Nat /\ k # 0 /\ k <= n
      BY <1>2, <3>1
    <3>3. l - 1 = i - 1 + (k - 1) /\ l = i - 1 + k /\ k - 1 \in 0..n /\ k \in 0..n
      BY <3>1, <3>2
    <3>4. l - 1 \in 0..j
      BY <3>1
    <3> HIDE DEF l
    <3>5. 1..l = (1..(l - 1)) \cup {l}
      BY <3>1
    <3> QED
      BY <3>1, <3>3, <3>4, <3>5
  <2>2. part[k] = c
    BY <1>3
  <2>3. u = ScanOne(v, bs, c, yes) /\ v \in V
    <3> HIDE DEF V, part, n, c, yes
    <3> QED
      BY <1>3, <1>6, <2>1, <2>2 DEF IsScan
  <2>4. FollowsIn(v.w, bs, B, kept)
    <3>1. FollowsIn(h[k - 1].w, bs, from(k - 1), kept)
      BY <1>8
    <3>2. from(k - 1) = B
      BY <2>1
    <3> QED
      BY <3>1, <3>2
  <2>5. c \in D /\ Range(Branches(bs)[bs[c].prev]) = B /\ B \subseteq D
    <3>1. c \in D /\ Range(Branches(bs)[bs[c].prev]) = B
      BY <1>2, <2>1
    <3>2. B \subseteq D
      BY <1>4, <2>1
    <3> QED
      BY <3>1, <3>2
  <2>6. First(x, l) = B \cup {c}
    <3> DEFINE p == l - 1
    <3>1. 1..l = (1..p) \cup {l}
      BY <2>1
    <3> HIDE DEF p, l
    <3>2. First(x, l) = First(x, p) \cup {x[l]}
      BY <3>1 DEF First
    <3> QED
      BY <3>2 DEF p
  <2> DEFINE all == B \cup {c}
  <2> HIDE DEF B, c, v, u
  <2>7. FollowsIn(u.w, bs, B \cup {c}, kept)
    <3>1. v \in Stored(Known, A, X, hashes, coins, NoPlaces)
      BY <2>3
    <3>2. c \in DOMAIN bs /\ B \subseteq DOMAIN bs
      BY <2>5
    <3> HIDE DEF V, D
    <3>3. LET q == ScanOne(v, bs, c, TRUE) IN
          q \in Stored(Known, A, X, hashes, coins, NoPlaces) /\ FollowsIn(q.w, bs, B \cup {c}, kept)
      BY <2>4, <2>5, <3>1, <3>2, ScanOneLearns
    <3> QED
      BY <2>3, <3>3 DEF yes
  <2>8. FollowsIn(u.w, bs, from(k), kept)
    <3>1. from(k) = B \cup {c}
      BY <2>1, <2>6
    <3> HIDE DEF from
    <3> QED
      BY <2>7, <3>1
  <2> QED
    BY <2>1, <2>8 DEF u
<1>9. n \in S /\ n \in 0..n
  <2>1. n \in Nat
    BY <1>3
  <2> HIDE DEF S, n
  <2>2. 0..n \subseteq S
    BY <2>1, <1>7, <1>8, CountInduction
  <2> QED
    BY <2>1, <2>2
<1>10. h[n] \in V /\ h[n] = Scan(m, bs, part, TRUE)
  <2>1. h[n] \in V /\ h[n] = Scan(m, bs, part, yes)
    <3> HIDE DEF V, part, n, yes
    <3> QED
      BY <1>3, <1>6, <1>9 DEF IsScan
  <2> QED
    BY <2>1
<1>11. FollowsIn(h[n].w, bs, Range(x), kept)
  <2>1. i - 1 + n = j
    BY <1>2
  <2>2. from(n) = First(x, j)
    BY <2>1
  <2>3. First(x, j) = Range(x)
    BY <1>2 DEF First, Range
  <2>4. FollowsIn(h[n].w, bs, from(n), kept)
    BY <1>9
  <2> HIDE DEF from, n
  <2> QED
    BY <2>2, <2>3, <2>4
<1> HIDE DEF V, n
<1> QED
  BY <1>10, <1>11 DEF V
----------------------------------------------------------------------------
(* What a wallet that follows the chain keeps to: in memory the main chain,    *)
(* in the file of one that is stopped the blocks up to where it was told of.   *)

Kept == "strayed" \notin faults

FollowInv ==
  /\ Connected(blocks)
  /\ running => FollowsIn(mapWallet, blocks, Range(Main), Kept)
  /\ ~running =>
       FollowsIn(walletFile.txs, blocks, Range(Main) \cap Range(Branches(blocks)[walletFile.best]), Kept)

\* Transactions do not change.
TxsStay == Known \subseteq Known' /\ \A t \in Known : Transaction(t)' = Transaction(t)

LEMMA OwnStays ==
  ASSUME TxsStay, NEW txs, txs \subseteq Known, \A t \in txs : \A p \in Inputs(t) : p[1] \in Known
  PROVE  OwnTxs(txs)' = OwnTxs(txs) /\ OwnCoins(txs)' = OwnCoins(txs)
<1>1. ASSUME NEW t \in txs PROVE Transaction(t)' = Transaction(t) /\ Inputs(t)' = Inputs(t)
  BY DEF TxsStay, Inputs
<1>2. ASSUME NEW t \in txs, NEW p \in Inputs(t) PROVE Output(p)' = Output(p)
  <2>1. p[1] \in Known
    BY <1>2
  <2>2. Transaction(p[1])' = Transaction(p[1])
    BY <2>1 DEF TxsStay
  <2> QED
    BY <2>2 DEF Output
<1>3. ASSUME NEW t \in txs PROVE Involves(t)' <=> Involves(t)
  <2>1. PaysMe(t)' <=> PaysMe(t)
    BY <1>1 DEF PaysMe
  <2>2. Involves(t)' <=> PaysMe(t)' \/ \E p \in Inputs(t)' : Output(p)'.mine /\ Output(p)'.value > 0
    BY DEF Involves
  <2>3. Involves(t)' <=> PaysMe(t) \/ \E p \in Inputs(t) : Output(p)'.mine /\ Output(p)'.value > 0
    BY <1>1, <2>1, <2>2
  <2> QED
    BY <1>2, <2>3 DEF Involves
<1>4. OwnTxs(txs)' = OwnTxs(txs)
  <2>1. OwnTxs(txs)' = {t \in txs : Involves(t)'}
    BY DEF OwnTxs
  <2> QED
    BY <1>3, <2>1 DEF OwnTxs
<1>5. SpentBy(txs)' = SpentBy(txs)
  <2>1. SpentBy(txs)' = UNION {Inputs(t)' : t \in txs}
    BY DEF SpentBy
  <2> QED
    BY <1>1, <2>1 DEF SpentBy
<1>6. \A p \in SpentBy(txs) : Output(p)' = Output(p)
  BY <1>2 DEF SpentBy
<1>7. OwnCoins(txs)' = OwnCoins(txs)
  <2>1. OwnCoins(txs)' = {p \in SpentBy(txs)' : Output(p)'.mine}
    BY DEF OwnCoins
  <2> QED
    BY <1>5, <1>6, <2>1 DEF OwnCoins
<1> QED
  BY <1>4, <1>7

\* The transactions of blocks that are connected.
LEMMA ConnectedAre ==
  ASSUME NEW bs, Connected(bs), \A b \in DOMAIN bs : bs[b].vtx \in Seq(Known), NEW B, B \subseteq DOMAIN bs
  PROVE  /\ TxsIn(bs, B) \subseteq Known
         /\ \A t \in TxsIn(bs, B) : \A p \in Inputs(t) : p[1] \in Known
<1>1. TxsIn(bs, B) \subseteq Known
  <2> DEFINE K == Known
  <2>1. \A b \in B : bs[b].vtx \in Seq(K)
    OBVIOUS
  <2> HIDE DEF K
  <2>2. TxsIn(bs, B) \subseteq K
    BY <2>1, TxsAreKnown
  <2> QED
    BY <2>2 DEF K
<1>2. ASSUME NEW t \in TxsIn(bs, B), NEW p \in Inputs(t) PROVE p[1] \in Known
  <2>1. PICK b \in B : t \in Range(bs[b].vtx)
    BY DEF TxsIn
  <2> QED
    BY <2>1 DEF Connected
<1> QED
  BY <1>1, <1>2

LEMMA FollowAfter ==
  ASSUME TxsStay, NEW bs, blocks' = bs, Connected(bs), \A b \in DOMAIN bs : bs[b].vtx \in Seq(Known),
         NEW main, Range(Main)' = main, main \subseteq DOMAIN bs, NEW kept, Kept' = kept,
         NEW w, mapWallet' = w, NEW f, walletFile' = f,
         running' => FollowsIn(w, bs, main, kept),
         ~running' => FollowsIn(f.txs, bs, main \cap Range(Branches(bs)[f.best]), kept)
  PROVE  FollowInv'
<1>1. ASSUME NEW v, NEW B, B \subseteq DOMAIN bs, FollowsIn(v, bs, B, kept)
      PROVE  Has(v, OwnTxs(TxsIn(bs, B))', OwnCoins(TxsIn(bs, B))', Where(bs, B, kept))
  <2> DEFINE txs == TxsIn(bs, B)
  <2>1. txs \subseteq Known /\ \A t \in txs : \A p \in Inputs(t) : p[1] \in Known
    BY <1>1, ConnectedAre
  <2>2. Has(v, OwnTxs(txs), OwnCoins(txs), Where(bs, B, kept))
    BY <1>1 DEF FollowsIn, Follows
  <2> HIDE DEF txs
  <2>3. OwnTxs(txs)' = OwnTxs(txs) /\ OwnCoins(txs)' = OwnCoins(txs)
    BY <2>1, OwnStays
  <2> QED
    BY <2>2, <2>3 DEF txs
<1>2. Connected(bs)'
  <2> SUFFICES ASSUME NEW b \in DOMAIN bs, NEW t \in Range(bs[b].vtx)
               PROVE  LET before == TxsIn(bs, Range(Branches(bs)[bs[b].prev])) IN
                      /\ t \notin before
                      /\ \A p \in Inputs(t)' : /\ p[1] \in Known' /\ p[2] \in DOMAIN Transaction(p[1])'.vout
                                               /\ Output(p)'.mine => p[1] \in before
    BY DEF Connected
  <2> DEFINE before == TxsIn(bs, Range(Branches(bs)[bs[b].prev]))
  <2>1. /\ t \notin before
        /\ \A p \in Inputs(t) : /\ p[1] \in Known /\ p[2] \in DOMAIN Transaction(p[1]).vout
                                /\ Output(p).mine => p[1] \in before
    BY DEF Connected
  <2>2. t \in Known
    <3> DEFINE D == DOMAIN bs
    <3>1. TxsIn(bs, D) \subseteq Known
      BY ConnectedAre
    <3> QED
      BY <3>1 DEF TxsIn
  <2>3. Inputs(t)' = Inputs(t)
    BY <2>2 DEF TxsStay, Inputs
  <2> HIDE DEF before
  <2>4. ASSUME NEW p \in Inputs(t)
        PROVE  /\ p[1] \in Known' /\ p[2] \in DOMAIN Transaction(p[1])'.vout
               /\ Output(p)'.mine => p[1] \in before
    <3>1. p[1] \in Known
      BY <2>1
    <3>2. Transaction(p[1])' = Transaction(p[1])
      BY <3>1 DEF TxsStay
    <3>3. Output(p)' = Output(p)
      BY <3>2 DEF Output
    <3> QED
      BY <2>1, <3>1, <3>2, <3>3 DEF TxsStay
  <2> QED
    BY <2>1, <2>3, <2>4 DEF before
<1> DEFINE part == main \cap Range(Branches(bs)[f.best])
<1>3. part \subseteq DOMAIN bs
  OBVIOUS
<1>4. running' => Has(w, OwnTxs(TxsIn(bs, main))', OwnCoins(TxsIn(bs, main))', Where(bs, main, kept))
  BY <1>1
<1>5. ~running' => Has(f.txs, OwnTxs(TxsIn(bs, part))', OwnCoins(TxsIn(bs, part))', Where(bs, part, kept))
  <2> SUFFICES ASSUME ~running'
               PROVE  Has(f.txs, OwnTxs(TxsIn(bs, part))', OwnCoins(TxsIn(bs, part))', Where(bs, part, kept))
    OBVIOUS
  <2> DEFINE x == f.txs
  <2>1. FollowsIn(x, bs, part, kept)
    OBVIOUS
  <2> HIDE DEF part, x
  <2>2. Has(x, OwnTxs(TxsIn(bs, part))', OwnCoins(TxsIn(bs, part))', Where(bs, part, kept))
    BY <1>1, <1>3, <2>1
  <2> QED
    BY <2>2 DEF x
<1>6. (running => FollowsIn(mapWallet, blocks, Range(Main), Kept))'
  BY <1>4 DEF FollowsIn, Follows
<1>7. (~running => FollowsIn(walletFile.txs, blocks, Range(Main) \cap Range(Branches(blocks)[walletFile.best]), Kept))'
  BY <1>5 DEF FollowsIn, Follows
<1>8. Connected(blocks)'
  BY <1>2 DEF Connected
<1> QED
  BY <1>6, <1>7, <1>8 DEF FollowInv

LEMMA ChainIs ==
  ASSUME WalletInv
  PROVE  /\ blocks \in Seq(Blocks(Known)) /\ IsTree(blocks) /\ pindexBest \in DOMAIN blocks
         /\ Main \in Seq(DOMAIN blocks) /\ Range(Main) \subseteq DOMAIN blocks
         /\ \A b \in DOMAIN blocks : b \in Nat /\ b # 0 /\ blocks[b].vtx \in Seq(Known)
         /\ PaymentsTyped
<1>1. blocks \in Seq(Blocks(Known)) /\ IsTree(blocks) /\ pindexBest \in DOMAIN blocks /\ PaymentsTyped
  BY DEF WalletInv, ChainTyped
<1>2. Main \in Seq(DOMAIN blocks)
  BY <1>1, BranchesAre DEF Main
<1>3. Range(Main) \subseteq DOMAIN blocks
  <2> DEFINE D == DOMAIN blocks
  <2> HIDE DEF D
  <2>1. Main \in Seq(D)
    BY <1>2 DEF D
  <2> QED
    BY <2>1, RangeIsWithin DEF D
<1>4. \A b \in DOMAIN blocks : b \in Nat /\ b # 0 /\ blocks[b] \in Blocks(Known)
  <2> DEFINE S == Blocks(Known)
  <2>1. blocks \in Seq(S)
    BY <1>1
  <2> HIDE DEF S
  <2>2. \A b \in DOMAIN blocks : b \in Nat /\ b # 0 /\ blocks[b] \in S
    BY <2>1
  <2> QED
    BY <2>2 DEF S
<1>5. \A b \in DOMAIN blocks : blocks[b].vtx \in Seq(Known)
  BY <1>4 DEF Blocks
<1> QED
  BY <1>1, <1>2, <1>3, <1>4, <1>5

\* The chain stays and the wallet knows as much of it as before.
LEMMA FollowStays ==
  ASSUME WalletInv, FollowInv, UNCHANGED <<blocks, pindexBest>>, TxsStay,
         NEW kept, Kept' = kept, NEW w, mapWallet' = w, NEW f, walletFile' = f,
         running' => FollowsIn(w, blocks, Range(Main), kept),
         ~running' => FollowsIn(f.txs, blocks, Range(Main) \cap Range(Branches(blocks)[f.best]), kept)
  PROVE  FollowInv'
<1> DEFINE main == Range(Main)
           bs == blocks
<1>1. blocks' = bs /\ Connected(bs)
  BY DEF FollowInv
<1>2. main \subseteq DOMAIN bs /\ \A b \in DOMAIN bs : bs[b].vtx \in Seq(Known)
  BY ChainIs
<1>3. Range(Main)' = main
  BY DEF Main
<1> QED
  BY <1>1, <1>2, <1>3, FollowAfter

LEMMA StoredFollows ==
  ASSUME NEW K, NEW A, NEW X, NEW bs, NEW B, NEW kept, NEW hashes, OwnTxs(TxsIn(bs, B)) \subseteq hashes,
         NEW m \in Stored(K, A, X, hashes, OwnCoins(TxsIn(bs, B)), Where(bs, B, kept))
  PROVE  FollowsIn(m.w, bs, B, kept) /\ \A f \in Range(m.files) : FollowsIn(f.txs, bs, B, kept)
<1> DEFINE coins == OwnCoins(TxsIn(bs, B))
           at == Where(bs, B, kept)
<1>1. m \in Stored(K, A, X, hashes, coins, at)
  OBVIOUS
<1> HIDE DEF coins, at
<1>2. Has(m.w, hashes, coins, at) /\ \A f \in Range(m.files) : Has(f.txs, hashes, coins, at)
  BY <1>1, StoredIs
<1> QED
  BY <1>2 DEF FollowsIn, Follows, Has, coins, at

\* An operation ends, or is cut short, and the chain stays.
LEMMA FollowEnds ==
  ASSUME WalletInv, FollowInv, running, UNCHANGED <<blocks, pindexBest>>, TxsStay,
         NEW kept, Kept' = kept, NEW K, NEW A, NEW X, NEW main, main = Range(Main),
         NEW hashes, OwnTxs(TxsIn(blocks, main)) \subseteq hashes,
         NEW m \in Stored(K, A, X, hashes, OwnCoins(TxsIn(blocks, main)), Where(blocks, main, kept)),
         Finishes(m) \/ Dies(m)
  PROVE  FollowInv'
<1>1. FollowsIn(m.w, blocks, main, kept) /\ \A f \in Range(m.files) : FollowsIn(f.txs, blocks, main, kept)
  BY StoredFollows
<1>2. CASE Finishes(m)
  <2>1. mapWallet' = m.w /\ running'
    BY <1>2 DEF Finishes
  <2> DEFINE w == m.w
             f == Last(m.files)
  <2>2. mapWallet' = w /\ walletFile' = f /\ (running' => FollowsIn(w, blocks, Range(Main), kept))
    BY <1>1, <1>2 DEF Finishes
  <2> HIDE DEF w, f
  <2> QED
    BY <2>1, <2>2, FollowStays
<1>3. CASE Dies(m)
  <2>1. walletFile' \in Range(m.files) /\ ~running'
    BY <1>3 DEF Dies
  <2>2. PICK f \in Range(m.files) : walletFile' = f
    BY <2>1
  <2> DEFINE part == main \cap Range(Branches(blocks)[f.best])
             w == <<>>
             x == f.txs
  <2>3. mapWallet' = w /\ FollowsIn(x, blocks, main, kept) /\ part \subseteq main
    BY <1>1, <1>3, <2>2 DEF Dies
  <2> HIDE DEF part, w, x
  <2>4. FollowsIn(x, blocks, part, kept)
    BY <2>3, FollowsInLess
  <2>5. FollowsIn(f.txs, blocks, Range(Main) \cap Range(Branches(blocks)[f.best]), kept)
    BY <2>4 DEF x, part
  <2> QED
    BY <2>1, <2>2, <2>3, <2>5, FollowStays
<1> QED
  BY <1>2, <1>3

\* An operation of a wallet that follows the chain starts with that.
LEMMA FollowStarts ==
  ASSUME WalletInv, FollowInv, running, NEW X, DOMAIN blocks \subseteq X, NEW some, some \subseteq DOMAIN mapWallet
  PROVE  \E A : /\ Nat \subseteq A /\ Readable(Known, A)
                /\ InMemory(mapWallet, walletFile) \in
                     Stored(Known, A, X, some \cup OwnTxs(TxsIn(blocks, Range(Main))),
                            OwnCoins(TxsIn(blocks, Range(Main))), Where(blocks, Range(Main), Kept))
<1> DEFINE own == OwnTxs(TxsIn(blocks, Range(Main)))
           hashes == some \cup own
           coins == OwnCoins(TxsIn(blocks, Range(Main)))
           at == Where(blocks, Range(Main), Kept)
<1>1. Has(mapWallet, own, coins, at)
  BY DEF FollowInv, FollowsIn, Follows
<1> HIDE DEF own, coins, at
<1>2. Has(mapWallet, hashes, coins, at)
  BY <1>1 DEF Has
<1> HIDE DEF hashes
<1>3. \E A : /\ Nat \subseteq A /\ Readable(Known, A)
             /\ InMemory(mapWallet, walletFile) \in Stored(Known, A, X, hashes, coins, at)
  BY <1>2, OperationStarts
<1> QED
  BY <1>3 DEF hashes, own, coins, at

LEMMA TxsStayWith ==
  ASSUME made' = made \/ \E D \in SUBSET pending : made' = MadeWithout(D),
         pending' \subseteq pending
  PROVE  TxsStay
<1>1. \A t \in DOMAIN made \ pending : t \in DOMAIN made' \ pending' /\ made'[t] = made[t]
  BY DEF MadeWithout
<1>2. Known \subseteq Known'
  BY <1>1 DEF Known
<1>3. ASSUME NEW t \in Known PROVE Transaction(t)' = Transaction(t)
  BY <1>1 DEF Transaction, Known
<1> QED
  BY <1>2, <1>3 DEF TxsStay

LEMMA UnchangedFollows ==
  ASSUME WalletInv, FollowInv, UNCHANGED <<blocks, pindexBest, mapWallet, walletFile, running, faults>>, TxsStay
  PROVE  FollowInv'
<1> DEFINE w == mapWallet
           f == walletFile
           kept == Kept
<1>1. Kept' = kept /\ mapWallet' = w /\ walletFile' = f /\ running' = running
  BY DEF Kept
<1>2. /\ running' => FollowsIn(w, blocks, Range(Main), kept)
      /\ ~running' => FollowsIn(f.txs, blocks, Range(Main) \cap Range(Branches(blocks)[f.best]), kept)
  BY <1>1 DEF FollowInv
<1> HIDE DEF w, f, kept
<1> QED
  BY <1>1, <1>2, FollowStays

LEMMA CachesFollow ==
  ASSUME NEW K, NEW w, IsWallet(w, K), NEW debits, NEW credits, NEW bs, NEW B, NEW kept, FollowsIn(w, bs, B, kept)
  PROVE  FollowsIn(Caches(w, debits, credits), bs, B, kept)
<1> DEFINE v == Caches(w, debits, credits)
           hashes == OwnTxs(TxsIn(bs, B))
           coins == OwnCoins(TxsIn(bs, B))
           at == Where(bs, B, kept)
<1>1. DOMAIN v = DOMAIN w /\ \A t \in DOMAIN w : v[t].spent = w[t].spent /\ v[t].block = w[t].block
  BY CachesAre
<1>2. Has(w, hashes, coins, at)
  BY DEF FollowsIn, Follows
<1> HIDE DEF v, hashes, coins, at
<1>3. Has(v, hashes, coins, at)
  BY <1>1, <1>2 DEF Has, Marked, Placed
<1> QED
  BY <1>3 DEF FollowsIn, Follows, v, hashes, coins, at

LEMMA CachedFollows ==
  ASSUME WalletInv, FollowInv, running, UNCHANGED <<blocks, pindexBest, walletFile, running, faults>>, TxsStay,
         NEW debits, NEW credits, mapWallet' = Caches(mapWallet, debits, credits)
  PROVE  FollowInv'
<1> DEFINE w == mapWallet
           v == Caches(w, debits, credits)
           f == walletFile
           kept == Kept
           K == Known
           B == Range(Main)
           bs == blocks
<1>1. Kept' = kept /\ mapWallet' = v /\ walletFile' = f /\ running'
  BY DEF Kept
<1>2. FollowsIn(w, bs, B, kept) /\ IsWallet(w, K)
  BY DEF FollowInv, WalletInv, Agree
<1> HIDE DEF w, f, kept, K, B, bs
<1>3. FollowsIn(v, bs, B, kept)
  BY <1>2, CachesFollow
<1> HIDE DEF v
<1> QED
  BY <1>1, <1>3, FollowStays DEF B, bs

LEMMA GetBalanceFollows ==
  ASSUME WalletInv, FollowInv, GetBalance
  PROVE  FollowInv'
<1>1. PICK debits, credits : mapWallet' = Caches(mapWallet, debits, credits)
  BY DEF GetBalance
<1>2. running /\ UNCHANGED <<blocks, pindexBest, walletFile, made, pending, running, faults>>
  BY DEF GetBalance
<1>3. TxsStay
  BY <1>2, TxsStayWith
<1> QED
  BY <1>1, <1>2, <1>3, CachedFollows

LEMMA SendMoneyFollows ==
  ASSUME WalletInv, FollowInv, NEW nValue \in Payees, SendMoney(nValue)
  PROVE  FollowInv'
<1>1. PICK t \in 1..MaxPayments :
        /\ running /\ t \notin DOMAIN made /\ pending' = pending \cup {t} /\ \E tx : made' = Put(made, t, tx)
        /\ UNCHANGED <<blocks, pindexBest, walletFile, running, faults>>
        /\ \E debits, credits : mapWallet' = Caches(mapWallet, debits, credits)
  <2>1. PaymentsTyped
    BY DEF WalletInv
  <2> QED
    BY <2>1, SendMoneyIs
<1>2. \A s \in DOMAIN made \ pending : s \in DOMAIN made' \ pending' /\ made'[s] = made[s]
  BY <1>1 DEF Put
<1>3. TxsStay
  <2>1. Known \subseteq Known'
    BY <1>2 DEF Known
  <2>2. ASSUME NEW s \in Known PROVE Transaction(s)' = Transaction(s)
    BY <1>2 DEF Transaction, Known
  <2> QED
    BY <2>1, <2>2 DEF TxsStay
<1> QED
  BY <1>1, <1>3, CachedFollows

LEMMA StopFollows ==
  ASSUME WalletInv, FollowInv, Stop
  PROVE  FollowInv'
<1> DEFINE none == {}
           kept == Kept
           main == Range(Main)
           X == DOMAIN blocks
           hashes == none \cup OwnTxs(TxsIn(blocks, main))
           m == InMemory(mapWallet, walletFile)
           K == Known
<1>1. /\ running /\ Dies(m) /\ UNCHANGED <<blocks, pindexBest>>
      /\ pending' = {} /\ made' = MadeWithout(pending) /\ faults' = Crashed({})
  BY DEF Stop
<1>2. TxsStay
  BY <1>1, TxsStayWith
<1>3. Kept' = kept
  BY <1>1 DEF Kept, Crashed
<1>4. PICK A : m \in Stored(K, A, X, hashes, OwnCoins(TxsIn(blocks, main)), Where(blocks, main, kept))
  <2>1. none \subseteq DOMAIN mapWallet /\ DOMAIN blocks \subseteq X
    OBVIOUS
  <2> HIDE DEF none, X
  <2> QED
    BY <1>1, <2>1, FollowStarts
<1>5. OwnTxs(TxsIn(blocks, main)) \subseteq hashes
  OBVIOUS
<1> HIDE DEF kept, X, hashes, m, K, main
<1> QED
  BY <1>1, <1>2, <1>3, <1>4, <1>5, FollowEnds DEF main

LEMMA ReceiveTransactionFollows ==
  ASSUME WalletInv, FollowInv, NEW t \in Broadcast, NEW refused, ReceiveTransaction(t, refused), AllWritten'
  PROVE  FollowInv'
<1> DEFINE none == {}
           block == 0
           yes == TRUE
           kept == Kept
           main == Range(Main)
           X == DOMAIN blocks
           hashes == none \cup OwnTxs(TxsIn(blocks, main))
           coins == OwnCoins(TxsIn(blocks, main))
           at == Where(blocks, main, kept)
           K == Known
           T == {<<t, block>>}
           m0 == InMemory(mapWallet, walletFile)
           m == AddToWalletIfInvolvingMe(m0, t, block, yes)
<1>1. /\ running /\ Finishes(m) /\ UNCHANGED <<blocks, pindexBest, made, pending>>
      /\ t \notin Confirmed /\ faults' = faults \cup m.faults
  BY ReceiveTransactionIs DEF Connects
<1>2. TxsStay
  BY <1>1, TxsStayWith
<1>3. PICK A : Nat \subseteq A /\ Readable(K, A) /\ m0 \in Stored(K, A, X, hashes, coins, at)
  <2>1. none \subseteq DOMAIN mapWallet /\ DOMAIN blocks \subseteq X
    OBVIOUS
  <2> HIDE DEF none, X
  <2> QED
    BY <1>1, <2>1, FollowStarts
<1>4. t \in K /\ block \in A /\ <<t, block>> \in T
  BY <1>3 DEF Broadcast, Known
<1>5. Settles(T, at)
  <2> SUFFICES ASSUME NEW p \in at, p[1] = t PROVE FALSE
    BY DEF Settles
  <2>1. p[1] \in TxsIn(blocks, main)
    BY PlacesAreOfTxs
  <2>2. TxsIn(blocks, main) = Confirmed
    BY DEF TxsIn, Confirmed, TxsOf
  <2> QED
    BY <1>1, <2>1, <2>2
<1> HIDE DEF none, block, yes, kept, hashes, coins, at, X, K, T, m0, main
<1>6. m \in Stored(K, A, X, hashes, coins, at)
  BY <1>3, <1>4, <1>5, AddIfInvolvedKeeps
<1>7. m \in Stored(K, A, X, hashes, OwnCoins(TxsIn(blocks, main)), Where(blocks, main, kept))
  BY <1>6 DEF coins, at
<1>8. OwnTxs(TxsIn(blocks, main)) \subseteq hashes
  BY DEF hashes
<1> HIDE DEF m
<1>9. Kept' = kept
  <2>1. m.faults = {}
    BY <1>6 DEF Stored, Updates
  <2> QED
    BY <1>1, <2>1 DEF Kept, kept
<1> QED
  BY <1>1, <1>2, <1>7, <1>8, <1>9, FollowEnds DEF main

LEMMA CommitTransactionFollows ==
  ASSUME WalletInv, FollowInv, NEW t, NEW refused, CommitTransaction(t, refused), AllWritten'
  PROVE  FollowInv'
<1> DEFINE kept == Kept
           main == Range(Main)
           X == DOMAIN blocks
           some == PendingHashes
           hashes == some \cup OwnTxs(TxsIn(blocks, main))
           coins == OwnCoins(TxsIn(blocks, main))
           at == Where(blocks, main, kept)
           K == Known
           more == DOMAIN Foreign \cup DOMAIN made
           Q == CoinsOf(t)
           m0 == InMemory(mapWallet, walletFile)
           m == Committed(m0, t)
<1>1. /\ running /\ t \in pending /\ pending' \subseteq pending /\ UNCHANGED <<blocks, pindexBest>>
      /\ Finishes(m) \/ Dies(m)
      /\ made' = made \/ \E D \in SUBSET pending : made' = MadeWithout(D)
      /\ faults' = faults \cup m.faults \/ \E what \in {{"halfPaid"}, {}} : faults' = Crashed(what)
  BY CommitIs
<1>2. TxsStay
  BY <1>1, TxsStayWith
<1>4. /\ t \in DOMAIN made /\ t \notin K /\ K \subseteq more
      /\ \A p \in Q : p[1] \in some /\ p[2] \in Nat
      /\ made[t].vin \in Seq(Q)
  BY <1>1, PendingIs
<1>5. Has(mapWallet, hashes, coins, at)
  <2>1. Has(mapWallet, OwnTxs(TxsIn(blocks, main)), coins, at)
    BY <1>1 DEF FollowInv, FollowsIn, Follows
  <2>2. some \subseteq DOMAIN mapWallet
    BY DEF WalletInv, Agree
  <2> HIDE DEF some, coins, at
  <2> QED
    BY <2>1, <2>2 DEF Has
<1>6. Agree(mapWallet, walletFile, more, X, TRUE, some, SafeCoins)
  <2> HIDE DEF K, more, X, some
  <2>1. Agree(mapWallet, walletFile, K, X, TRUE, some, SafeCoins)
    BY <1>1, AgreeRuns DEF WalletInv, K, X, some
  <2> QED
    BY <1>4, <2>1, AgreeWeaker
<1> DEFINE B == Nat \cup {-1, {}, made[t].prev}
<1>7. PICK A : B \subseteq A /\ m0 \in Stored(more, A, X, hashes, coins, at)
  <2> HIDE DEF B, more, X, some, hashes, coins, at
  <2> QED
    BY <1>5, <1>6, AgreeStarts
<1>8. Readable(more, A) /\ made[t].prev \in A
  <2>1. Nat \cup {-1, {}} \subseteq A /\ made[t].prev \in A /\ more \in SUBSET (DOMAIN Foreign \cup DOMAIN made)
    BY <1>7
  <2> HIDE DEF more, B
  <2> QED
    BY <2>1, KnownIsReadable DEF WalletInv
<1>9. \A p \in at : p[1] # t
  <2>1. TxsIn(blocks, main) \subseteq K
    BY ConnectedAre, ChainIs DEF FollowInv
  <2> SUFFICES ASSUME NEW p \in at PROVE p[1] \in TxsIn(blocks, main)
    BY <1>4, <2>1
  <2> QED
    BY PlacesAreOfTxs
<1>10. t \in more /\ \A q \in Q : q[1] \in hashes /\ q[2] \in A
  <2>1. Nat \subseteq A
    BY <1>7
  <2> HIDE DEF Q, B
  <2> QED
    BY <1>4, <2>1
<1> HIDE DEF kept, main, X, some, hashes, coins, at, K, more, Q, m0, B
<1>11. m \in Stored(more, A, X, hashes, coins, at)
  BY <1>4, <1>7, <1>8, <1>9, <1>10, CommittedKeeps
<1>12. m \in Stored(more, A, X, hashes, OwnCoins(TxsIn(blocks, main)), Where(blocks, main, kept))
  BY <1>11 DEF coins, at
<1>13. OwnTxs(TxsIn(blocks, main)) \subseteq hashes
  BY DEF hashes
<1>3. Kept' = kept
  <2>1. m.faults = {}
    BY <1>11 DEF Stored, Updates
  <2> HIDE DEF m
  <2> QED
    BY <1>1, <2>1 DEF Kept, Crashed, kept
<1> HIDE DEF m
<1> QED
  BY <1>1, <1>2, <1>3, <1>12, <1>13, FollowEnds DEF main

LEMMA FirstFollows ==
  ASSUME NEW bs, bs[1].vtx = FirstBlock, NEW kept
  PROVE  FollowsIn(FirstFile.txs, bs, {1}, kept)
<1> DEFINE txs == TxsIn(bs, {1})
           mine == {t \in Range(FirstBlock) : \E i \in DOMAIN Foreign[t].vout : Foreign[t].vout[i].mine}
           w == FirstFile.txs
<1>1. txs = Range(FirstBlock) /\ txs \subseteq DOMAIN Foreign
  <2>1. txs = Range(FirstBlock)
    BY DEF TxsIn
  <2>2. Range(FirstBlock) \subseteq DOMAIN Foreign
    BY RangeIsFinite, WalletAssumption
  <2> QED
    BY <2>1, <2>2
<1>2. DOMAIN w = mine /\ \A t \in mine : w[t].block = 1
  BY DEF FirstFile, WalletTx
<1>3. \A t \in txs : \A p \in Inputs(t) : ~Output(p).mine
  <2>1. \A t \in Range(FirstBlock) : \A p \in Range(Foreign[t].vin) :
          p[1] \in DOMAIN Foreign /\ ~Foreign[p[1]].vout[p[2]].mine
    BY WalletAssumption
  <2> QED
    BY <1>1, <2>1 DEF Inputs, Output, Transaction
<1>4. OwnTxs(txs) \subseteq DOMAIN w
  <2> SUFFICES ASSUME NEW t \in txs, Involves(t) PROVE t \in mine
    BY <1>2 DEF OwnTxs
  <2>1. PaysMe(t)
    BY <1>3 DEF Involves
  <2> QED
    BY <1>1, <2>1 DEF PaysMe, Transaction
<1>5. OwnCoins(txs) = {}
  BY <1>3 DEF OwnCoins, SpentBy
<1>6. Placed(w, Where(bs, {1}, kept))
  <2> SUFFICES ASSUME NEW p \in PlacesIn(bs, {1}), p[1] \in DOMAIN w PROVE w[p[1]].block = p[2]
    BY DEF Placed, Where, NoPlaces
  <2>1. p[2] = 1
    BY DEF PlacesIn
  <2> QED
    BY <1>2, <2>1
<1> HIDE DEF w, txs, mine
<1>7. Has(w, OwnTxs(txs), OwnCoins(txs), Where(bs, {1}, kept))
  BY <1>4, <1>5, <1>6 DEF Has, Marked
<1> QED
  BY <1>7 DEF FollowsIn, Follows, w, txs

LEMMA RestoreBackupFollows ==
  ASSUME WalletInv, FollowInv, RestoreBackup
  PROVE  FollowInv'
<1> DEFINE f == FirstFile
           w == mapWallet
           kept == Kept
           bs == blocks
           first == {1}
           part == Range(Main) \cap Range(Branches(bs)[f.best])
<1>1. /\ UNCHANGED <<blocks, pindexBest, mapWallet, made, pending, running>>
      /\ ~running /\ walletFile' = f /\ faults' = faults \cup {"restored"}
  BY DEF RestoreBackup
<1>2. TxsStay /\ Kept' = kept
  BY <1>1, TxsStayWith DEF Kept
<1>3. FollowsIn(f.txs, bs, first, kept)
  BY FirstFollows DEF FollowInv, Connected
<1>4. part \subseteq first
  <2>1. bs \in Seq(Blocks(Known)) /\ IsTree(bs) /\ pindexBest \in DOMAIN bs
    BY ChainIs
  <2>2. 1 \in DOMAIN bs
    <3> DEFINE S == Blocks(Known)
    <3> HIDE DEF S, bs
    <3>1. DOMAIN bs = 1..Len(bs) /\ Len(bs) \in Nat
      BY <2>1 DEF S
    <3> QED
      BY <2>1, <3>1
  <2> HIDE DEF bs
  <2>3. bs[1].prev = 0
    BY <2>1, <2>2 DEF IsTree
  <2>4. Branches(bs)[1] = Append(<<>>, 1)
    <3> DEFINE R == Blocks(Known)
    <3>1. bs \in Seq(R)
      BY <2>1
    <3> HIDE DEF R
    <3>2. /\ Branches(bs)[0] = <<>>
          /\ \A b \in DOMAIN bs : Branches(bs)[b] = Append(Branches(bs)[bs[b].prev], b)
      BY <2>1, <3>1, BranchesWalk
    <3>3. Branches(bs)[1] = Append(Branches(bs)[bs[1].prev], 1)
      BY <2>2, <3>2
    <3> QED
      BY <2>3, <3>2, <3>3
  <2>5. Range(Branches(bs)[1]) = first
    BY <2>4 DEF Range
  <2>6. f.best = 1
    BY FirstFileIs
  <2> HIDE DEF first
  <2> QED
    BY <2>5, <2>6
<1> DEFINE x == f.txs
<1> HIDE DEF part, first, bs, kept, f, w, x
<1>5. FollowsIn(x, bs, part, kept)
  BY <1>3, <1>4, FollowsInLess DEF x
<1>6. FollowsIn(f.txs, blocks, Range(Main) \cap Range(Branches(blocks)[f.best]), kept)
  BY <1>5 DEF x, part, bs
<1>7. mapWallet' = w /\ ~running'
  BY <1>1 DEF w
<1> QED
  BY <1>1, <1>2, <1>6, <1>7, FollowStays

\* A wallet that follows the chain has every output as spent that the chain spends.
LEMMA NothingOverlooked ==
  ASSUME NEW m, NEW kept, FollowsIn(m.w, blocks, Range(Main), kept)
  PROVE  ReacceptOnce(m) = m
<1> DEFINE confirmed == Confirmed
           w == m.w
           all == UNION {Overlooked(w, t, confirmed) : t \in DOMAIN w}
           txs == TxsIn(blocks, Range(Main))
<1>1. txs = confirmed
  BY DEF TxsIn, Confirmed, TxsOf
<1>2. Marked(w, OwnCoins(confirmed))
  <2>1. Marked(w, OwnCoins(txs))
    BY DEF FollowsIn, Follows, Has
  <2> HIDE DEF txs, confirmed, w
  <2> QED
    BY <1>1, <2>1
<1> HIDE DEF confirmed, w
<1>3. ASSUME NEW t \in DOMAIN w, NEW p \in Overlooked(w, t, confirmed) PROVE FALSE
  <2>1. p \in SpentBy(confirmed) /\ p[1] = t /\ p[2] \notin w[t].spent /\ Output(p).mine
    BY <1>3 DEF Overlooked
  <2>2. p \in OwnCoins(confirmed)
    BY <2>1 DEF OwnCoins
  <2> QED
    BY <1>2, <2>1, <2>2 DEF Marked
<1>4. all = {}
  BY <1>3
<1> QED
  BY <1>4 DEF ReacceptOnce, all, w, confirmed

LEMMA StartFollows ==
  ASSUME WalletInv, FollowInv, Start
  PROVE  FollowInv'
<1> DEFINE f == walletFile
           kept == Kept
           K == Known
           X == DOMAIN blocks
           none == {}
           bs == blocks
           a == pindexBest
           b == f.best
           x == Branches(bs)[a]
           y == Branches(bs)[b]
           i == Shared(x, y)
           m0 == Loaded(f)
           m1 == Rescanned(m0, f)
           m == ReacceptWalletTransactions(m1)
           B == Nat \cup {-1, {}}
<1>1. /\ ~running /\ running' = TRUE /\ mapWallet' = m.w
      /\ UNCHANGED <<blocks, pindexBest, made, pending, faults>>
  BY DEF Start
<1>2. TxsStay /\ Kept' = kept
  BY <1>1, TxsStayWith DEF Kept
<1>3. /\ bs \in Seq(Blocks(K)) /\ IsTree(bs) /\ a \in DOMAIN bs /\ Connected(bs) /\ PaymentsTyped
      /\ Main \in Seq(X) /\ x = Main
      /\ \A c \in DOMAIN bs : c \in Nat /\ c # 0 /\ bs[c].vtx \in Seq(K)
  BY ChainIs DEF FollowInv, Main
<1>4. b \in DOMAIN bs /\ Agree(mapWallet, f, K, X, running, PendingHashes, SafeCoins)
  BY DEF WalletInv, Agree
<1>5. FollowsIn(f.txs, bs, Range(x) \cap Range(y), kept)
  BY <1>1 DEF FollowInv, Main
<1>6. PICK A : B \subseteq A /\ m0 \in Stored(K, A, X, none, none, none)
  <2>1. Has(f.txs, none, none, none)
    BY DEF Has, Marked, Placed
  <2> HIDE DEF B, X, m0, none, f, K
  <2> QED
    BY <1>4, <2>1, LoadedStarts DEF m0
<1>7. Nat \subseteq A /\ Readable(K, A) /\ IsFiniteSet(K)
  <2>1. Nat \cup {-1, {}} \subseteq A /\ K \in SUBSET (DOMAIN Foreign \cup DOMAIN made)
    BY <1>6 DEF Known
  <2> HIDE DEF B, K
  <2> QED
    BY <1>3, <1>6, <2>1, KnownIsReadable DEF B
<1>8. m0.w = f.txs
  BY DEF Loaded, InMemory
<1>9. FollowsIn(m1.w, bs, Range(x), kept)
  <2>1. CASE b = a
    <3>1. m1 = m0 /\ Range(x) \cap Range(y) = Range(x)
      BY <2>1 DEF Rescanned
    <3> HIDE DEF m1, m0, x, y, bs, kept
    <3> QED
      BY <1>5, <1>8, <3>1
  <2>2. CASE b # a
    <3>1. m1 = Scan(m0, bs, SubSeq(x, i, Len(x)), TRUE)
      BY <2>2 DEF Rescanned, SinceBest, Main
    <3>2. i \in 1..Len(x) /\ First(x, i) = Range(x) \cap Range(y)
      <4> HIDE DEF a, b, bs, K
      <4> QED
        BY <1>3, <1>4, SharedSplits DEF i, x, y
    <3>3. i \in 1..(Len(x) + 1) /\ First(x, i - 1) \subseteq First(x, i)
      <4>1. x \in Seq(X)
        BY <1>3
      <4> HIDE DEF x, i, X
      <4>2. Len(x) \in Nat
        BY <4>1
      <4> DEFINE n == Len(x)
      <4> HIDE DEF n
      <4>3. n \in Nat /\ i \in 1..n
        BY <3>2, <4>2 DEF n
      <4>4. i \in 1..(n + 1) /\ 1..(i - 1) \subseteq 1..i
        BY <4>3
      <4> QED
        BY <4>4 DEF First, n
    <3> DEFINE part == First(x, i - 1)
               whole == First(x, i)
               w == m0.w
    <3>4. FollowsIn(w, bs, whole, kept)
      <4> HIDE DEF w, bs, kept, x, y, i, m0, f
      <4> QED
        BY <1>5, <1>8, <3>2 DEF w
    <3>5. FollowsIn(w, bs, part, kept)
      <4> HIDE DEF w, bs, kept, part, whole
      <4> QED
        BY <3>3, <3>4, FollowsInLess DEF part, whole
    <3>6. /\ Readable(Known, A) /\ bs \in Seq(Blocks(K)) /\ \A c \in DOMAIN bs : c \in A /\ c # 0 /\ bs[c].vtx \in Seq(Known)
          /\ m0 \in Stored(Known, A, X, none, none, NoPlaces)
      BY <1>3, <1>6, <1>7 DEF NoPlaces
    <3>7. FollowsIn(m0.w, bs, First(x, i - 1), kept)
      BY <3>5
    <3>8. x = Branches(bs)[a]
      OBVIOUS
    <3> DEFINE R == Blocks(K)
    <3>9. bs \in Seq(R) /\ IsTree(bs) /\ Connected(bs) /\ a \in DOMAIN bs /\ PaymentsTyped
      BY <1>3
    <3> HIDE DEF m0, m1, X, none, bs, x, i, kept, a, K, R
    <3>10. FollowsIn(Scan(m0, bs, SubSeq(x, i, Len(x)), TRUE).w, bs, Range(x), kept)
      BY <3>3, <3>6, <3>7, <3>8, <3>9, ScanLearns
    <3> QED
      BY <3>1, <3>10
  <2> QED
    BY <2>1, <2>2
<1>10. m = m1
  <2> DEFINE V == {m1}
  <2>1. ReacceptOnce(m1) = m1
    <3>1. FollowsIn(m1.w, blocks, Range(Main), kept)
      BY <1>9 DEF Main
    <3> HIDE DEF m1, kept
    <3> QED
      BY <3>1, NothingOverlooked
  <2>2. IsFiniteSet(Confirmed)
    <3>1. Confirmed \in SUBSET K
      <4> DEFINE Q == X
      <4>1. Main \in Seq(Q) /\ \A c \in Q : blocks[c].vtx \in Seq(K)
        BY <1>3
      <4> HIDE DEF Q, K
      <4> QED
        BY <4>1, ConfirmedIsKnown DEF Confirmed
    <3> HIDE DEF K
    <3> QED
      BY <1>7, <3>1, FS_Subset
  <2> HIDE DEF m1
  <2>3. \A v \in V : ReacceptOnce(v) \in V
    BY <2>1
  <2>4. m1 \in V
    OBVIOUS
  <2> HIDE DEF V
  <2>5. ReacceptWalletTransactions(m1) \in V
    BY <2>2, <2>3, <2>4, ReacceptSteps
  <2> QED
    BY <2>5 DEF V
<1> DEFINE w == m1.w
<1>11. mapWallet' = w /\ FollowsIn(w, blocks, Range(Main), kept) /\ running'
  BY <1>1, <1>9, <1>10 DEF Main
<1> HIDE DEF w, m, m1, kept
<1>12. \E g : walletFile' = g
  OBVIOUS
<1> QED
  BY <1>1, <1>2, <1>11, <1>12, FollowStays

\* A block whose transactions connect keeps the tree what it is.
LEMMA ConnectedGrows ==
  ASSUME WalletInv, Connected(blocks), NEW block \in Blocks(Known), block.prev \in DOMAIN blocks,
         \A t \in Range(block.vtx) : Connects(t, TxsOf(Branches(blocks)[block.prev])),
         NEW bs, bs = Append(blocks, block)
  PROVE  /\ Connected(bs)
         /\ \A b \in DOMAIN blocks : Branches(bs)[b] = Branches(blocks)[b]
         /\ \A B \in SUBSET (DOMAIN blocks) : TxsIn(bs, B) = TxsIn(blocks, B) /\ PlacesIn(bs, B) = PlacesIn(blocks, B)
         /\ \A b \in DOMAIN bs : b \in Nat /\ b # 0 /\ bs[b].vtx \in Seq(Known)
<1> DEFINE S == Blocks(Known)
           last == Len(bs)
<1>1. blocks \in Seq(S) /\ IsTree(blocks) /\ block \in S /\ pindexBest \in DOMAIN blocks
  BY DEF WalletInv, ChainTyped
<1>2. /\ bs \in Seq(S) /\ IsTree(bs)
      /\ last \in DOMAIN bs /\ last \notin DOMAIN blocks /\ DOMAIN bs = DOMAIN blocks \cup {last}
      /\ bs[last] = block /\ \A b \in DOMAIN blocks : bs[b] = blocks[b]
  <2>1. /\ bs \in Seq(Blocks(Known)) /\ IsTree(bs)
        /\ Len(bs) \in DOMAIN bs /\ Len(bs) \notin DOMAIN blocks /\ DOMAIN bs = DOMAIN blocks \cup {Len(bs)}
        /\ bs[Len(bs)] = block /\ \A b \in DOMAIN blocks : bs[b] = blocks[b]
    <3>1. bs \in Seq(Blocks(Known)) /\ IsTree(bs)
      BY TreeGrows
    <3>2. Len(bs) \in DOMAIN bs /\ Len(bs) \notin DOMAIN blocks /\ DOMAIN bs = DOMAIN blocks \cup {Len(bs)}
      BY TreeGrows
    <3>3. bs[Len(bs)] = block
      BY TreeGrows
    <3>4. \A b \in DOMAIN blocks : bs[b] = blocks[b]
      BY <1>1
    <3> QED
      BY <3>1, <3>2, <3>3, <3>4
  <2> QED
    BY <2>1
<1>3. \A b \in DOMAIN bs : b \in Nat /\ b # 0 /\ bs[b].vtx \in Seq(Known)
  <2>1. DOMAIN bs \subseteq Nat \ {0} /\ \A b \in DOMAIN bs : bs[b] \in S
    <3> HIDE DEF S
    <3> QED
      BY <1>2
  <2> QED
    BY <2>1 DEF Blocks
<1> HIDE DEF S, last
<1>4. \A b \in 0..Len(blocks) : Branches(bs)[b] = Branches(blocks)[b]
  <2>1. bs = Append(blocks, block) /\ IsTree(Append(blocks, block))
    BY <1>2
  <2>2. \A b \in 0..Len(blocks) : Branches(Append(blocks, block))[b] = Branches(blocks)[b]
    BY <1>1, <2>1, BranchesStay
  <2> QED
    BY <2>1, <2>2
<1>5. /\ Len(blocks) \in Nat /\ DOMAIN blocks = 1..Len(blocks) /\ 1 \in DOMAIN blocks
      /\ block.prev \in 0..Len(blocks) /\ \A b \in DOMAIN blocks : b \in 0..Len(blocks) /\ blocks[b].prev \in 0..Len(blocks)
  <2>1. Len(blocks) \in Nat /\ DOMAIN blocks = 1..Len(blocks)
    BY <1>1
  <2> QED
    BY <1>1, <2>1 DEF IsTree
<1>6. \A b \in 0..Len(blocks) : Range(Branches(blocks)[b]) \subseteq DOMAIN blocks
  <2> SUFFICES ASSUME NEW b \in 0..Len(blocks) PROVE Range(Branches(blocks)[b]) \subseteq DOMAIN blocks
    OBVIOUS
  <2>1. IsLine(blocks, b)
    BY <1>1, LinesAre
  <2>2. Branches(blocks)[b] \in Seq(Nat) /\ \A j \in 1..Len(Branches(blocks)[b]) : Branches(blocks)[b][j] \in DOMAIN blocks
    BY <2>1 DEF IsLine
  <2> DEFINE s == Branches(blocks)[b]
  <2>3. s \in Seq(Nat) /\ \A j \in 1..Len(s) : s[j] \in DOMAIN blocks
    BY <2>2
  <2> HIDE DEF s
  <2>4. Range(s) \subseteq DOMAIN blocks
    <3> SUFFICES ASSUME NEW i \in DOMAIN s PROVE s[i] \in DOMAIN blocks
      BY Zenon DEF Range
    <3>1. i \in 1..Len(s)
      BY <2>3
    <3> QED
      BY <2>3, <3>1
  <2> QED
    BY <2>4 DEF s
<1>7. \A B \in SUBSET (DOMAIN blocks) : TxsIn(bs, B) = TxsIn(blocks, B) /\ PlacesIn(bs, B) = PlacesIn(blocks, B)
  BY <1>2 DEF TxsIn, PlacesIn
<1>8. Connected(bs)
  <2>1. bs[1].vtx = FirstBlock
    BY <1>2, <1>5 DEF Connected
  <2>2. \A b \in DOMAIN bs : \A t \in Range(bs[b].vtx) :
          LET before == TxsIn(bs, Range(Branches(bs)[bs[b].prev])) IN
          /\ t \notin before
          /\ \A p \in Inputs(t) : /\ p[1] \in Known /\ p[2] \in DOMAIN Transaction(p[1]).vout
                                  /\ Output(p).mine => p[1] \in before
    <3> SUFFICES ASSUME NEW b \in DOMAIN bs, NEW t \in Range(bs[b].vtx)
                 PROVE  LET before == TxsIn(bs, Range(Branches(bs)[bs[b].prev])) IN
                        /\ t \notin before
                        /\ \A p \in Inputs(t) : /\ p[1] \in Known /\ p[2] \in DOMAIN Transaction(p[1]).vout
                                                /\ Output(p).mine => p[1] \in before
      OBVIOUS
    <3> DEFINE before == TxsIn(bs, Range(Branches(bs)[bs[b].prev]))
    <3>1. before = TxsIn(bs, Range(Branches(bs)[bs[b].prev]))
      OBVIOUS
    <3> HIDE DEF before
    <3>2. /\ t \notin before
          /\ \A p \in Inputs(t) : /\ p[1] \in Known /\ p[2] \in DOMAIN Transaction(p[1]).vout
                                  /\ Output(p).mine => p[1] \in before
      <4>1. CASE b = last
        <5>1. before = TxsIn(blocks, Range(Branches(blocks)[block.prev]))
          BY <1>2, <1>4, <1>5, <1>6, <1>7, <3>1, <4>1
        <5>2. Connects(t, before)
          BY <1>2, <4>1, <5>1 DEF TxsOf, TxsIn
        <5>3. before \subseteq Known
          <6> DEFINE B == Range(Branches(blocks)[block.prev])
          <6>1. \A c \in B : blocks[c].vtx \in Seq(Known)
            BY <1>2, <1>3, <1>5, <1>6
          <6> HIDE DEF B
          <6>2. TxsIn(blocks, B) \subseteq Known
            BY <6>1, TxsAreKnown
          <6> QED
            BY <5>1, <6>2 DEF B
        <5> QED
          BY <5>2, <5>3 DEF Connects
      <4>2. CASE b \in DOMAIN blocks
        <5>1. before = TxsIn(blocks, Range(Branches(blocks)[blocks[b].prev])) /\ t \in Range(blocks[b].vtx)
          BY <1>2, <1>4, <1>5, <1>6, <1>7, <3>1, <4>2
        <5> QED
          BY <4>2, <5>1 DEF Connected
      <4> QED
        BY <1>2, <4>1, <4>2
    <3> QED
      BY <3>2 DEF before
  <2> QED
    BY <2>1, <2>2, Zenon DEF Connected
<1>9. \A b \in DOMAIN blocks : Branches(bs)[b] = Branches(blocks)[b]
  BY <1>4, <1>5
<1> QED
  BY <1>3, <1>7, <1>8, <1>9

LEMMA SameFollows ==
  ASSUME NEW w, NEW v, Same(w, v), NEW bs, NEW B, NEW kept, FollowsIn(w, bs, B, kept)
  PROVE  FollowsIn(v, bs, B, kept)
<1> DEFINE txs == TxsIn(bs, B)
           at == Where(bs, B, kept)
           hashes == OwnTxs(txs)
           coins == OwnCoins(txs)
<1>1. Has(w, hashes, coins, at)
  BY DEF FollowsIn, Follows
<1> HIDE DEF txs, at, hashes, coins
<1>2. Has(v, hashes, coins, at)
  BY <1>1 DEF Same, Has, Marked, Placed
<1> QED
  BY <1>2 DEF FollowsIn, Follows, txs, at, hashes, coins

\* A wallet that follows the main chain and is told of a branch that parts from it
\* follows the branch.
LEMMA BranchIsLearnt ==
  ASSUME WalletInv, FollowInv, running, NEW block \in Blocks(Known), block.prev \in DOMAIN blocks,
         \A t \in Range(block.vtx) : Connects(t, TxsOf(Branches(blocks)[block.prev])),
         NEW bs, bs = Append(blocks, block), NEW branch, branch = Branches(bs)[Len(bs)],
         NEW m, m = Scan(InMemory(mapWallet, walletFile), bs,
                         SubSeq(branch, Shared(Main, branch) + 1, Len(branch)), TRUE)
  PROVE  FollowsIn(m.w, bs, Range(branch), Kept) /\ FollowsIn(Last(m.files).txs, bs, Range(branch), Kept)
<1> DEFINE X == DOMAIN bs
           R == Blocks(Known)
           a == pindexBest
           b == Len(bs)
           n == Shared(branch, Main)
           i == n + 1
           none == {}
           kept == Kept
           m0 == InMemory(mapWallet, walletFile)
           part == First(branch, n)
           len == Len(branch)
<1>1. /\ bs \in Seq(R) /\ IsTree(bs) /\ b \in DOMAIN bs /\ DOMAIN blocks \subseteq X
      /\ Connected(bs)
      /\ \A B \in SUBSET (DOMAIN blocks) : TxsIn(bs, B) = TxsIn(blocks, B) /\ PlacesIn(bs, B) = PlacesIn(blocks, B)
      /\ \A c \in DOMAIN bs : c \in Nat /\ c # 0 /\ bs[c].vtx \in Seq(Known)
      /\ \A c \in DOMAIN blocks : Branches(bs)[c] = Branches(blocks)[c]
  <2>1. Connected(blocks)
    BY DEF FollowInv
  <2>2. /\ bs \in Seq(Blocks(Known)) /\ IsTree(bs) /\ Len(bs) \in DOMAIN bs
        /\ DOMAIN bs = DOMAIN blocks \cup {Len(bs)}
    BY TreeGrows
  <2>3. Connected(bs) /\ \A c \in DOMAIN blocks : Branches(bs)[c] = Branches(blocks)[c]
    BY <2>1, ConnectedGrows
  <2>4. \A B \in SUBSET (DOMAIN blocks) : TxsIn(bs, B) = TxsIn(blocks, B) /\ PlacesIn(bs, B) = PlacesIn(blocks, B)
    BY <2>1, ConnectedGrows
  <2>5. \A c \in DOMAIN bs : c \in Nat /\ c # 0 /\ bs[c].vtx \in Seq(Known)
    BY <2>1, ConnectedGrows
  <2> QED
    BY <2>2, <2>3, <2>4, <2>5
<1>2. /\ a \in DOMAIN blocks /\ a \in DOMAIN bs /\ Main = Branches(bs)[a] /\ Range(Main) \subseteq DOMAIN blocks
      /\ PaymentsTyped
  BY <1>1, ChainIs DEF Main
<1>3. FollowsIn(mapWallet, bs, Range(Main), kept)
  <2> DEFINE B == Range(Main)
  <2>1. FollowsIn(mapWallet, blocks, B, kept)
    BY DEF FollowInv
  <2>2. TxsIn(bs, B) = TxsIn(blocks, B) /\ PlacesIn(bs, B) = PlacesIn(blocks, B)
    BY <1>1, <1>2
  <2> HIDE DEF B
  <2>3. Where(bs, B, kept) = Where(blocks, B, kept)
    BY <2>2 DEF Where
  <2> DEFINE k == kept
             old == Where(blocks, B, k)
             oldTxs == TxsIn(blocks, B)
  <2>4. Follows(mapWallet, oldTxs, old) /\ Where(bs, B, k) = old /\ TxsIn(bs, B) = oldTxs
    BY <2>1, <2>2, <2>3 DEF FollowsIn
  <2> HIDE DEF k, old, oldTxs
  <2>5. FollowsIn(mapWallet, bs, B, k)
    BY <2>4 DEF FollowsIn
  <2> QED
    BY <2>5 DEF k, B
<1>4. n \in 1..len /\ part = Range(branch) \cap Range(Main)
  <2> HIDE DEF a, b, R
  <2> QED
    BY <1>1, <1>2, SharedSplits DEF b, n, part, len
<1>5. len \in Nat
  <2>1. branch \in Seq(X)
    <3> HIDE DEF R, X
    <3> QED
      BY <1>1, BranchesAre DEF X
  <2> HIDE DEF X
  <2> QED
    BY <2>1
<1>6. FollowsIn(mapWallet, bs, part, kept)
  <2> DEFINE B == Range(Main)
  <2>1. FollowsIn(mapWallet, bs, B, kept) /\ part \subseteq B
    BY <1>3, <1>4
  <2> HIDE DEF B, part, kept
  <2> QED
    BY <2>1, FollowsInLess
<1>7. PICK A : /\ Nat \subseteq A /\ Readable(Known, A)
               /\ m0 \in Stored(Known, A, X, none, none, NoPlaces)
  <2>1. Has(mapWallet, none, none, NoPlaces)
    BY DEF Has, Marked, Placed, NoPlaces
  <2> HIDE DEF none, X
  <2> QED
    BY <1>1, <2>1, OperationStarts
<1>8. m = Scan(m0, bs, SubSeq(branch, i, len), TRUE)
  <2>1. Shared(Main, branch) = n
    BY DEF Shared
  <2> QED
    BY <2>1
<1>9. m0.w = mapWallet
  BY DEF InMemory
<1>10. i \in 1..(len + 1) /\ 1..(i - 1) = 1..n
  <2> HIDE DEF n, len
  <2> QED
    BY <1>4, <1>5
<1>11. FollowsIn(m0.w, bs, First(branch, i - 1), kept)
  <2>1. First(branch, i - 1) = part
    <3> HIDE DEF n, i
    <3> QED
      BY <1>10 DEF First, part
  <2> HIDE DEF part, m0, kept
  <2> QED
    BY <1>6, <1>9, <2>1
<1>12. m \in Stored(Known, A, X, none, none, NoPlaces) /\ FollowsIn(m.w, bs, Range(branch), kept)
  <2>1. /\ bs \in Seq(R) /\ IsTree(bs) /\ Connected(bs) /\ b \in DOMAIN bs
        /\ \A c \in DOMAIN bs : c \in A /\ c # 0 /\ bs[c].vtx \in Seq(Known)
        /\ branch = Branches(bs)[b] /\ i \in 1..(Len(branch) + 1)
    BY <1>1, <1>7, <1>10
  <2> HIDE DEF R, b, i, m0, X, none, kept, n
  <2>2. LET u == Scan(m0, bs, SubSeq(branch, i, Len(branch)), TRUE) IN
        u \in Stored(Known, A, X, none, none, NoPlaces) /\ FollowsIn(u.w, bs, Range(branch), kept)
    BY <1>2, <1>7, <1>11, <2>1, ScanLearns
  <2> QED
    BY <1>8, <2>2
<1>13. Same(m.w, Last(m.files).txs)
  BY <1>12 DEF Stored
<1>14. FollowsIn(Last(m.files).txs, bs, Range(branch), kept)
  <2> DEFINE w == m.w
             v == Last(m.files).txs
             B == Range(branch)
  <2>1. FollowsIn(w, bs, B, kept) /\ Same(w, v)
    BY <1>12, <1>13
  <2> HIDE DEF w, v, B, kept
  <2>2. FollowsIn(v, bs, B, kept)
    BY <2>1, SameFollows
  <2> QED
    BY <2>2 DEF v, B
<1> QED
  BY <1>12, <1>14

\* Of a branch that goes on from the main chain only its last block is new.
LEMMA OnlyTheLastIsNew ==
  ASSUME NEW R, NEW bs \in Seq(R), IsTree(bs), NEW a \in DOMAIN bs, NEW b \in DOMAIN bs, bs[b].prev = a,
         NEW x, x = Branches(bs)[b], NEW y, y = Branches(bs)[a]
  PROVE  SubSeq(x, Shared(y, x) + 1, Len(x)) \in Seq({b})
<1> DEFINE n == Shared(x, y)
           len == Len(x)
<1>1. IsLine(bs, b)
  <2>1. b \in 0..Len(bs)
    OBVIOUS
  <2> QED
    BY <2>1, LinesAre
<1>2. b # 0
  OBVIOUS
<1>3. /\ x \in Seq(Nat) /\ len # 0 /\ x[len] = b
      /\ \A i, j \in 1..len : i < j => x[i] < x[j]
      /\ \A j \in 1..len : Range(Branches(bs)[bs[x[j]].prev]) = First(x, j - 1)
  BY <1>1, <1>2 DEF IsLine
<1>4. len \in Nat
  BY <1>3
<1>5. n \in 1..len /\ First(x, n) = Range(x) \cap Range(y)
  <2> HIDE DEF len
  <2> QED
    BY SharedSplits DEF n, len
<1>6. Shared(y, x) = n
  BY DEF Shared
<1>7. \A j \in 1..len : x[j] \in Nat
  <2> DEFINE T == Nat
  <2>1. x \in Seq(T) /\ Len(x) = len /\ \A j \in 1..len : x[j] \in T <=> x[j] \in Nat
    BY <1>3
  <2> HIDE DEF T, len
  <2>2. \A j \in 1..Len(x) : x[j] \in T
    BY <2>1
  <2> QED
    BY <2>1, <2>2
<1>8. \A i, j \in 1..len : i < j => x[i] < x[j]
  BY <1>3
<1> HIDE DEF n, len
<1>9. First(x, len - 1) = Range(y)
  <2>1. len \in 1..len
    BY <1>3, <1>4
  <2>2. Range(Branches(bs)[bs[x[len]].prev]) = First(x, len - 1)
    BY <1>3, <2>1
  <2> QED
    BY <1>3, <2>2
<1>10. First(x, len - 1) \subseteq First(x, n)
  <2>1. x \in Seq(Nat) /\ DOMAIN x = 1..len
    BY <1>3 DEF len
  <2>2. First(x, len - 1) \subseteq Range(x)
    <3>1. 1..(len - 1) \subseteq DOMAIN x
      BY <1>4, <2>1
    <3> QED
      BY <3>1 DEF First, Range
  <2> QED
    BY <1>5, <1>9, <2>2
<1>11. ASSUME NEW j \in 1..len, j > n PROVE j = len
  <2> SUFFICES ASSUME j # len PROVE FALSE
    OBVIOUS
  <2>1. j \in 1..(len - 1) /\ j \in Nat /\ n \in Nat
    BY <1>4, <1>5, <1>11
  <2>2. x[j] \in First(x, n)
    BY <1>10, <2>1 DEF First
  <2>3. PICK i \in 1..n : x[i] = x[j]
    BY <2>2 DEF First
  <2>4. i \in 1..len /\ i < j
    BY <1>4, <1>5, <1>11, <2>1
  <2>5. x[i] < x[j] /\ x[j] \in Nat
    <3>1. x[i] < x[j]
      BY <1>8, <2>4
    <3>2. x[j] \in Nat
      BY <1>7
    <3> QED
      BY <3>1, <3>2
  <2> QED
    BY <2>3, <2>5
<1> DEFINE p == SubSeq(x, n + 1, len)
<1>12. p \in Seq(Nat) /\ \A k \in DOMAIN p : k \in Nat /\ k >= 1 /\ n + k \in 1..len /\ p[k] = x[n + k]
  <2> DEFINE i == n + 1
             T == Nat
  <2>1. i \in Nat \ {0} /\ len \in Int /\ len <= Len(x) /\ x \in Seq(T)
    <3>1. len <= Len(x)
      BY <1>4 DEF len
    <3> QED
      BY <1>3, <1>4, <1>5, <3>1
  <2>2. p = [k \in 1..(IF i <= len THEN len - i + 1 ELSE 0) |-> x[i + k - 1]]
    <3>1. p = SubSeq(x, i, len)
      OBVIOUS
    <3> HIDE DEF i, T, p
    <3> QED
      BY <2>1, <3>1
  <2>3. SubSeq(x, i, len) \in Seq(T)
    <3> HIDE DEF i, T
    <3> QED
      BY <2>1, PartIsSequence
  <2>4. ASSUME NEW k \in DOMAIN p PROVE k \in Nat /\ k >= 1 /\ n + k \in 1..len /\ p[k] = x[n + k]
    <3>1. k \in 1..(IF i <= len THEN len - i + 1 ELSE 0)
      BY <2>2
    <3>2. k \in Nat /\ k >= 1 /\ n + k \in 1..len
      BY <1>4, <1>5, <3>1
    <3>3. p[k] = x[i + k - 1] /\ i + k - 1 = n + k
      <4>1. i + k - 1 = n + k
        BY <1>5, <3>2
      <4>2. p[k] = x[i + k - 1]
        <5> HIDE DEF p, i
        <5> QED
          BY <2>2, <3>1
      <4> QED
        BY <4>1, <4>2
    <3> QED
      BY <3>2, <3>3
  <2> QED
    BY <2>3, <2>4
<1>13. \A k \in DOMAIN p : p[k] = b
  <2> SUFFICES ASSUME NEW k \in DOMAIN p PROVE p[k] = b
    OBVIOUS
  <2> HIDE DEF p
  <2>1. k \in Nat /\ k >= 1 /\ n + k \in 1..len /\ p[k] = x[n + k]
    BY <1>12
  <2>2. n + k > n
    BY <1>5, <2>1
  <2> DEFINE j == n + k
  <2>3. j \in 1..len /\ j > n /\ p[k] = x[j]
    BY <2>1, <2>2
  <2> HIDE DEF j
  <2>4. j = len
    BY <1>11, <2>3
  <2> QED
    BY <1>3, <2>3, <2>4
<1>14. p \in Seq({b})
  <2> HIDE DEF p
  <2> QED
    BY <1>12, <1>13
<1>15. SubSeq(x, Shared(y, x) + 1, Len(x)) = p
  BY <1>6 DEF len
<1> QED
  BY <1>14, <1>15

\* A wallet that follows the main chain and is told of other blocks that connect
\* goes on following it, but for the places of transactions when the blocks are
\* those of another branch.
IsUpdate(m) == m = [w |-> m.w, files |-> m.files, refused |-> {}, faults |-> {}]

LEMMA ChainIsKept ==
  ASSUME WalletInv, FollowInv, running, NEW block \in Blocks(Known), block.prev \in DOMAIN blocks,
         \A t \in Range(block.vtx) : Connects(t, TxsOf(Branches(blocks)[block.prev])),
         NEW bs, bs = Append(blocks, block), NEW kept, kept => Kept,
         NEW part \in Seq(DOMAIN bs),
         kept => part \in Seq({Len(bs)}) /\ (part = <<>> \/ block.prev = pindexBest),
         NEW m, m = Scan(InMemory(mapWallet, walletFile), bs, part, TRUE)
  PROVE  /\ FollowsIn(m.w, bs, Range(Main), kept)
         /\ \A f \in Range(m.files) : FollowsIn(f.txs, bs, Range(Main), kept)
         /\ IsUpdate(m) /\ m.files # <<>>
<1> DEFINE X == DOMAIN bs
           B == Range(Main)
           at == Where(bs, B, kept)
           hashes == OwnTxs(TxsIn(bs, B))
           coins == OwnCoins(TxsIn(bs, B))
           m0 == InMemory(mapWallet, walletFile)
           b == Len(bs)
<1>1. /\ bs[b] = block /\ DOMAIN blocks \subseteq X
      /\ TxsIn(bs, B) = TxsIn(blocks, B) /\ PlacesIn(bs, B) = PlacesIn(blocks, B)
      /\ \A c \in DOMAIN bs : c \in Nat /\ c # 0 /\ bs[c].vtx \in Seq(Known)
  <2>1. Connected(blocks)
    BY DEF FollowInv
  <2>2. bs[Len(bs)] = block
    BY TreeGrows
  <2>3. DOMAIN bs = DOMAIN blocks \cup {Len(bs)}
    BY TreeGrows
  <2>4. \A Z \in SUBSET (DOMAIN blocks) : TxsIn(bs, Z) = TxsIn(blocks, Z) /\ PlacesIn(bs, Z) = PlacesIn(blocks, Z)
    BY <2>1, ConnectedGrows
  <2>5. \A c \in DOMAIN bs : c \in Nat /\ c # 0 /\ bs[c].vtx \in Seq(Known)
    BY <2>1, ConnectedGrows
  <2>6. Range(Main) \subseteq DOMAIN blocks
    BY ChainIs
  <2> QED
    BY <2>2, <2>3, <2>4, <2>5, <2>6
<1>2. Has(mapWallet, hashes, coins, at)
  <2> DEFINE k == Kept
             old == Where(blocks, B, k)
             oldTxs == TxsIn(blocks, B)
  <2>1. Follows(mapWallet, oldTxs, old) /\ TxsIn(bs, B) = oldTxs
    BY <1>1 DEF FollowInv, FollowsIn
  <2>2. at \subseteq old
    <3>1. CASE kept
      BY <1>1, <3>1 DEF Where
    <3>2. CASE ~kept
      BY <3>2 DEF Where, NoPlaces
    <3> QED
      BY <3>1, <3>2
  <2> HIDE DEF k, old, oldTxs, B, at
  <2>3. oldTxs \subseteq oldTxs
    OBVIOUS
  <2>4. Follows(mapWallet, oldTxs, at)
    BY <2>1, <2>2, <2>3, FollowsLess
  <2> QED
    BY <2>1, <2>4 DEF Follows
<1>3. PICK A : Nat \subseteq A /\ Readable(Known, A) /\ m0 \in Stored(Known, A, X, hashes, coins, at)
  <2> HIDE DEF hashes, coins, at, X
  <2> QED
    BY <1>1, <1>2, OperationStarts
<1>4. m \in Stored(Known, A, X, hashes, coins, at)
  <2>1. CASE ~kept
    <3>1. at = NoPlaces
      BY <2>1 DEF Where
    <3>2. part \in Seq(X) /\ \A c \in X : c \in A /\ bs[c].vtx \in Seq(Known)
      BY <1>1, <1>3
    <3>3. m0 \in Stored(Known, A, X, hashes, coins, NoPlaces)
      BY <1>3, <3>1
    <3> DEFINE fUpdate == TRUE
    <3>4. m = Scan(m0, bs, part, fUpdate)
      OBVIOUS
    <3> HIDE DEF hashes, coins, at, X, m0, fUpdate
    <3>5. Scan(m0, bs, part, fUpdate) \in Stored(Known, A, X, hashes, coins, NoPlaces)
      BY <1>3, <3>2, <3>3, AnyScanKeeps
    <3> QED
      BY <3>1, <3>4, <3>5
  <2>2. CASE kept
    <3> DEFINE Q == {b}
               T == IF part = <<>> THEN {} ELSE Range(block.vtx) \X {b}
               fUpdate == TRUE
    <3>1. part \in Seq(Q) /\ (part = <<>> \/ block.prev = pindexBest)
      BY <2>2
    <3>2. b \in X /\ \A c \in Q : c \in A /\ bs[c].vtx \in Seq(Known)
      <4>1. Len(bs) \in DOMAIN bs
        BY TreeGrows
      <4> QED
        BY <1>1, <1>3, <4>1
    <3>3. Settles(T, at)
      <4> SUFFICES ASSUME NEW q \in T, NEW p \in at, p[1] = q[1] PROVE FALSE
        BY DEF Settles
      <4>1. q[1] \in Range(block.vtx) /\ block.prev = pindexBest
        BY <3>1
      <4>2. p[1] \in TxsIn(bs, B)
        <5> HIDE DEF B
        <5> QED
          BY PlacesAreOfTxs
      <4>3. q[1] \notin TxsOf(Main)
        BY <4>1 DEF Main, Connects
      <4> QED
        BY <1>1, <4>2, <4>3 DEF TxsIn, TxsOf
    <3>4. \A c \in Range(part) : \A t \in Range(bs[c].vtx) : <<t, c>> \in T
      <4> SUFFICES ASSUME NEW c \in Range(part), NEW t \in Range(bs[c].vtx) PROVE <<t, c>> \in T
        BY Zenon
      <4>1. c = b /\ part # <<>>
        <5>1. Range(part) \subseteq Q
          <6> HIDE DEF Q
          <6> QED
            BY <3>1, RangeIsWithin
        <5>2. part # <<>>
          BY DEF Range
        <5> QED
          BY <5>1, <5>2
      <4> QED
        BY <1>1, <4>1
    <3>5. m = Scan(m0, bs, part, fUpdate)
      OBVIOUS
    <3> HIDE DEF hashes, coins, at, X, m0, fUpdate, Q, T, b
    <3>6. LET n == Scan(m0, bs, part, fUpdate) IN
          n \in Stored(Known, A, X, hashes, coins, at) /\ Grows(m0.w, n.w, T)
      BY <1>3, <3>1, <3>2, <3>3, <3>4, ScanKeeps
    <3> QED
      BY <3>5, <3>6
  <2> QED
    BY <2>1, <2>2
<1> QED
  <2>1. OwnTxs(TxsIn(bs, B)) \subseteq hashes
    <3> HIDE DEF hashes, B
    <3>1. hashes \subseteq hashes
      OBVIOUS
    <3> QED
      BY <3>1 DEF hashes
  <2>2. m \in Stored(Known, A, X, hashes, OwnCoins(TxsIn(bs, B)), Where(bs, B, kept))
    BY <1>4
  <2> DEFINE K == Known
  <2>3. m \in Stored(K, A, X, hashes, OwnCoins(TxsIn(bs, B)), Where(bs, B, kept))
    BY <2>2
  <2> HIDE DEF hashes, X, B, K
  <2>4. FollowsIn(m.w, bs, B, kept) /\ \A f \in Range(m.files) : FollowsIn(f.txs, bs, B, kept)
    BY <2>1, <2>3, StoredFollows
  <2>5. IsUpdate(m) /\ m.files # <<>>
    <3> DEFINE W == Wallets(Known, A)
               F == Seq(Files(Known, A, X))
    <3>1. m \in [w: W, files: F, refused: {{}}, faults: {{}}] /\ m.files # <<>>
      BY <1>4 DEF Stored, Updates
    <3> HIDE DEF W, F
    <3> QED
      BY <3>1 DEF IsUpdate
  <2> QED
    BY <2>4, <2>5 DEF B

LEMMA ReceiveBlockFollows ==
  ASSUME WalletInv, FollowInv, NEW prev \in DOMAIN blocks, NEW vtx \in Seq(Known), NEW valid \in BOOLEAN,
         \A t \in Range(vtx) : Connects(t, TxsOf(Branches(blocks)[prev])),
         NEW refused, ReceiveBlock(prev, vtx, valid, refused), AllWritten'
  PROVE  FollowInv'
<1> DEFINE block   == [prev |-> prev, vtx |-> vtx, valid |-> valid]
           bs      == Append(blocks, block)
           X       == DOMAIN bs
           branch  == Branches(bs)[Len(bs)]
           fresh   == SubSeq(branch, Shared(Main, branch) + 1, Len(branch))
           new     == IF Len(branch) > Len(Main) THEN fresh ELSE <<>>
           part    == Connecting(bs, new)
           adopted == new # <<>> /\ part = new
           m       == Scan(InMemory(mapWallet, walletFile), bs, part, TRUE)
           told    == [m EXCEPT !.files = Append(@, [Last(@) EXCEPT !.best = Len(bs)])]
           strays  == IF prev # pindexBest /\ part # <<>> THEN {"strayed"} ELSE {}
           last    == [m EXCEPT !.files = <<Last(@)>>]
           kept    == Kept
           keeps   == Kept /\ strays = {}
           old     == Range(Main)
           main    == Range(branch)
           b       == Len(bs)
<1>0. /\ bs = Append(blocks, block) /\ new = NewBlocks(bs)
      /\ m = Scan(InMemory(mapWallet, walletFile), bs, Connecting(bs, new), TRUE)
      /\ told = Told(m, bs) /\ last = LastOnly(m) /\ strays = Strays(prev, Connecting(bs, new))
  BY DEF NewBlocks, Told, LastOnly, Strays
<1>1. running /\ blocks' = bs
  <2> HIDE DEF bs, new, m, told, last, strays
  <2> QED
    BY <1>0, ReceiveBlockIs
<1>2. \/ /\ adopted /\ pindexBest' = Len(bs) /\ Finishes(told) /\ UNCHANGED <<made, pending>>
         /\ faults' = faults \cup m.faults
      \/ ~adopted /\ UNCHANGED <<pindexBest, made, pending>> /\ Finishes(m) /\ faults' = faults \cup strays \cup m.faults
      \/ /\ UNCHANGED pindexBest /\ pending' = {} /\ made' = MadeWithout(pending)
         /\ Dies(m) /\ faults' = Crashed(strays)
      \/ /\ adopted /\ pindexBest' = Len(bs) /\ pending' = {} /\ made' = MadeWithout(pending)
         /\ Dies(last) /\ faults' = Crashed({})
  <2> HIDE DEF bs, new, m, told, last, strays
  <2>1. Receives(bs, new, m, told, last, strays)
    BY <1>0, ReceiveBlockIs
  <2> QED
    BY <2>1 DEF Receives
<1>3. block \in Blocks(Known) /\ block.prev = prev /\ block.vtx = vtx /\ bs = Append(blocks, block)
  <2>1. prev \in Nat
    BY ChainIs
  <2> QED
    BY <2>1 DEF Blocks
<1> HIDE DEF block, bs
<1>4. /\ block \in Blocks(Known) /\ block.prev \in DOMAIN blocks /\ bs = Append(blocks, block)
      /\ \A t \in Range(block.vtx) : Connects(t, TxsOf(Branches(blocks)[block.prev]))
      /\ Connected(blocks)
  BY <1>3 DEF FollowInv
<1>5. /\ bs \in Seq(Blocks(Known)) /\ IsTree(bs) /\ b \in DOMAIN bs /\ DOMAIN bs = DOMAIN blocks \cup {b} /\ bs[b] = block
  <2>1. bs \in Seq(Blocks(Known)) /\ IsTree(bs)
    BY <1>4, TreeGrows
  <2>2. Len(bs) \in DOMAIN bs /\ DOMAIN bs = DOMAIN blocks \cup {Len(bs)} /\ bs[Len(bs)] = block
    BY <1>4, TreeGrows
  <2> QED
    BY <2>1, <2>2
<1>6. /\ Connected(bs) /\ \A c \in DOMAIN blocks : Branches(bs)[c] = Branches(blocks)[c]
      /\ \A c \in DOMAIN bs : c \in Nat /\ c # 0 /\ bs[c].vtx \in Seq(Known)
  <2>1. Connected(bs) /\ \A c \in DOMAIN blocks : Branches(bs)[c] = Branches(blocks)[c]
    BY <1>4, ConnectedGrows
  <2>2. \A c \in DOMAIN bs : c \in Nat /\ c # 0 /\ bs[c].vtx \in Seq(Known)
    BY <1>4, ConnectedGrows
  <2> QED
    BY <2>1, <2>2
<1>7. /\ pindexBest \in DOMAIN blocks /\ Main = Branches(bs)[pindexBest] /\ old \subseteq DOMAIN bs
  <2>1. pindexBest \in DOMAIN blocks /\ old \subseteq DOMAIN blocks
    BY ChainIs
  <2>2. Main = Branches(bs)[pindexBest]
    BY <1>6, <2>1 DEF Main
  <2> QED
    BY <1>5, <2>1, <2>2
<1>8. branch \in Seq(X) /\ main \subseteq DOMAIN bs
  <2> DEFINE R == Blocks(Known)
  <2>1. bs \in Seq(R) /\ IsTree(bs) /\ Len(bs) \in DOMAIN bs
    BY <1>5
  <2> HIDE DEF R, X
  <2>2. branch \in Seq(X)
    BY <2>1, BranchesAre DEF X
  <2> HIDE DEF branch
  <2>3. Range(branch) \subseteq X
    BY <2>2, RangeIsWithin
  <2> QED
    BY <2>2, <2>3 DEF X
<1>9. TxsStay
  <2>1. (made' = made /\ pending' = pending) \/ (made' = MadeWithout(pending) /\ pending' = {})
    BY <1>2
  <2> QED
    BY <2>1, TxsStayWith
<1>10. new \in Seq(X) /\ part \in Seq(X)
  <2> HIDE DEF branch, X
  <2>1. fresh \in Seq(X)
    BY <1>8, NewBlocksAre
  <2>2. new \in Seq(X)
    BY <2>1
  <2> HIDE DEF new
  <2>3. part \in Seq(X)
    BY <2>2, ConnectingIs
  <2> QED
    BY <2>2, <2>3
<1>11. keeps => part \in Seq({b}) /\ (part = <<>> \/ block.prev = pindexBest)
  <2> SUFFICES ASSUME keeps PROVE part \in Seq({b}) /\ (part = <<>> \/ block.prev = pindexBest)
    OBVIOUS
  <2> DEFINE Q == {b}
  <2>1. part = <<>> \/ prev = pindexBest
    BY Zenon
  <2>2. CASE part = <<>>
    <3>1. <<>> \in Seq({b})
      OBVIOUS
    <3> HIDE DEF part
    <3> QED
      BY <2>2, <3>1
  <2>3. CASE prev = pindexBest
    <3>1. fresh \in Seq(Q)
      <4> DEFINE R == Blocks(Known)
                 a == pindexBest
                 y == Main
      <4>1. /\ bs \in Seq(R) /\ IsTree(bs) /\ a \in DOMAIN bs /\ b \in DOMAIN bs /\ bs[b].prev = a
            /\ branch = Branches(bs)[b] /\ y = Branches(bs)[a]
        BY <1>3, <1>5, <1>7, <2>3
      <4> HIDE DEF R, a, b, branch, y
      <4>2. SubSeq(branch, Shared(y, branch) + 1, Len(branch)) \in Seq({b})
        BY <4>1, OnlyTheLastIsNew
      <4> QED
        BY <4>2 DEF y
    <3>2. new \in Seq(Q)
      <4> HIDE DEF fresh
      <4> QED
        BY <3>1
    <3> HIDE DEF new, Q
    <3>3. part \in Seq(Q)
      BY <3>2, ConnectingIs
    <3> QED
      BY <1>3, <2>3, <3>3 DEF Q
  <2> QED
    BY <2>1, <2>2, <2>3
<1> HIDE DEF X, fresh, keeps
<1>12. adopted => /\ FollowsIn(m.w, bs, main, kept)
                  /\ FollowsIn(Last(m.files).txs, bs, main, kept)
  <2> SUFFICES ASSUME adopted
               PROVE  FollowsIn(m.w, bs, main, kept) /\ FollowsIn(Last(m.files).txs, bs, main, kept)
    OBVIOUS
  <2>1. part = fresh
    BY Zenon
  <2>2. m = Scan(InMemory(mapWallet, walletFile), bs, SubSeq(branch, Shared(Main, branch) + 1, Len(branch)), TRUE)
    BY <2>1 DEF fresh
  <2>3. branch = Branches(bs)[Len(bs)]
    OBVIOUS
  <2> HIDE DEF m, branch
  <2> QED
    BY <1>1, <1>4, <2>2, <2>3, BranchIsLearnt
<1>13. /\ FollowsIn(m.w, bs, old, keeps)
       /\ \A f \in Range(m.files) : FollowsIn(f.txs, bs, old, keeps)
       /\ IsUpdate(m)
  <2>1. /\ m = Scan(InMemory(mapWallet, walletFile), bs, part, TRUE) /\ part \in Seq(DOMAIN bs)
        /\ keeps => part \in Seq({Len(bs)}) /\ (part = <<>> \/ block.prev = pindexBest)
    BY <1>10, <1>11 DEF X
  <2>2. keeps => Kept
    BY DEF keeps
  <2> HIDE DEF m, part
  <2> QED
    <3>1. FollowsIn(m.w, bs, old, keeps) /\ \A f \in Range(m.files) : FollowsIn(f.txs, bs, old, keeps)
      BY <1>1, <1>4, <2>1, <2>2, ChainIsKept
    <3>2. IsUpdate(m)
      BY <1>1, <1>4, <2>1, <2>2, ChainIsKept
    <3> QED
      BY <3>1, <3>2
<1>14. told.w = m.w /\ last.files = <<Last(m.files)>>
  <2> HIDE DEF m
  <2>1. /\ [m EXCEPT !.files = <<Last(@)>>].files = <<Last(m.files)>>
        /\ \A files : [m EXCEPT !.files = files].w = m.w
    BY <1>13 DEF IsUpdate
  <2> QED
    BY <2>1
<1>15. \A c \in DOMAIN bs : bs[c].vtx \in Seq(Known)
  BY <1>6
<1> HIDE DEF m, part, new, branch
<1>20. m.faults = {}
  BY <1>13 DEF IsUpdate
\* The branch is adopted.
<1>16. CASE /\ adopted /\ pindexBest' = Len(bs) /\ Finishes(told) /\ UNCHANGED <<made, pending>>
            /\ faults' = faults \cup m.faults
  <2> DEFINE w == m.w
             f == Last(told.files)
  <2>1. Range(Main)' = main
    BY <1>1, <1>16 DEF Main, branch
  <2>2. mapWallet' = w /\ walletFile' = f /\ running' /\ Kept' = kept
    BY <1>1, <1>14, <1>16, <1>20 DEF Finishes, Kept
  <2>3. FollowsIn(w, bs, main, kept)
    BY <1>12, <1>16
  <2> HIDE DEF w, f, main, kept, told
  <2> QED
    BY <1>1, <1>6, <1>8, <1>9, <1>15, <2>1, <2>2, <2>3, FollowAfter
\* It is not.
<1>17. CASE ~adopted /\ UNCHANGED <<pindexBest, made, pending>> /\ Finishes(m) /\ faults' = faults \cup strays \cup m.faults
  <2> DEFINE w == m.w
             f == Last(m.files)
  <2>1. Range(Main)' = old
    BY <1>1, <1>7, <1>17 DEF Main
  <2>2. mapWallet' = w /\ walletFile' = f /\ running'
    BY <1>1, <1>17 DEF Finishes
  <2>3. Kept' = keeps
    BY <1>17, <1>20 DEF Kept, keeps
  <2>4. FollowsIn(w, bs, old, keeps)
    BY <1>13
  <2> HIDE DEF w, f, old
  <2> QED
    BY <1>1, <1>6, <1>7, <1>9, <1>15, <2>1, <2>2, <2>3, <2>4, FollowAfter
\* The process dies before the branch is committed, or after.
<1>18. CASE /\ UNCHANGED pindexBest /\ pending' = {} /\ made' = MadeWithout(pending)
            /\ Dies(m) /\ faults' = Crashed(strays)
  <2>1. PICK f \in Range(m.files) : walletFile' = f
    BY <1>18 DEF Dies
  <2> DEFINE w == <<>>
             rest == old \cap Range(Branches(bs)[f.best])
             txs == f.txs
  <2>2. Range(Main)' = old
    BY <1>1, <1>7, <1>18 DEF Main
  <2>3. mapWallet' = w /\ ~running'
    BY <1>18 DEF Dies
  <2>4. Kept' = keeps
    BY <1>18 DEF Kept, keeps, Crashed
  <2>5. FollowsIn(txs, bs, old, keeps) /\ rest \subseteq old
    BY <1>13
  <2> HIDE DEF w, old, rest, txs
  <2>6. FollowsIn(txs, bs, rest, keeps)
    BY <2>5, FollowsInLess
  <2>7. FollowsIn(f.txs, bs, old \cap Range(Branches(bs)[f.best]), keeps)
    BY <2>6 DEF rest, txs
  <2> QED
    BY <1>1, <1>6, <1>7, <1>9, <1>15, <2>1, <2>2, <2>3, <2>4, <2>7, FollowAfter
<1>19. CASE /\ adopted /\ pindexBest' = Len(bs) /\ pending' = {} /\ made' = MadeWithout(pending)
            /\ Dies(last) /\ faults' = Crashed({})
  <2> DEFINE w == <<>>
             f == Last(m.files)
             rest == main \cap Range(Branches(bs)[f.best])
             txs == f.txs
  <2>1. walletFile' = f
    BY <1>14, <1>19 DEF Dies, Range
  <2>2. Range(Main)' = main
    BY <1>1, <1>19 DEF Main, branch
  <2>3. mapWallet' = w /\ ~running'
    BY <1>19 DEF Dies
  <2>4. Kept' = kept
    BY <1>19 DEF Kept, Crashed
  <2>5. FollowsIn(txs, bs, main, kept) /\ rest \subseteq main
    BY <1>12, <1>19
  <2> HIDE DEF w, f, main, rest, txs, kept
  <2>6. FollowsIn(txs, bs, rest, kept)
    BY <2>5, FollowsInLess
  <2>7. FollowsIn(f.txs, bs, main \cap Range(Branches(bs)[f.best]), kept)
    BY <2>6 DEF rest, txs
  <2> QED
    BY <1>1, <1>6, <1>8, <1>9, <1>15, <2>1, <2>2, <2>3, <2>4, <2>7, FollowAfter
<1> QED
  BY <1>2, <1>16, <1>17, <1>18, <1>19

\* The first block, nothing of the wallet's own being spent in it.
LEMMA WalletInitFollows ==
  ASSUME WalletInit, WalletInv
  PROVE  FollowInv
<1> DEFINE bs == blocks
           first == {1}
           kept == Kept
           w == mapWallet
<1>1. /\ running /\ pindexBest = 1 /\ mapWallet = FirstFile.txs /\ made = <<>> /\ pending = {}
      /\ bs = <<[prev |-> 0, vtx |-> FirstBlock, valid |-> TRUE]>>
  BY DEF WalletInit
<1>2. DOMAIN bs = {1} /\ bs[1].prev = 0 /\ bs[1].vtx = FirstBlock
  <2> DEFINE b == [prev |-> 0, vtx |-> FirstBlock, valid |-> TRUE]
  <2>1. bs = <<b>> /\ b.prev = 0 /\ b.vtx = FirstBlock
    BY <1>1
  <2> HIDE DEF b, bs
  <2>2. DOMAIN bs = 1..1 /\ bs[1] = b
    BY <2>1
  <2>3. 1..1 = {1}
    OBVIOUS
  <2> QED
    BY <2>1, <2>2, <2>3
<1>3. Branches(bs)[0] = <<>> /\ Branches(bs)[1] = Append(<<>>, 1)
  <2> DEFINE R == Blocks(Known)
  <2>1. bs \in Seq(R) /\ IsTree(bs)
    BY ChainIs
  <2> HIDE DEF R, bs
  <2>2. /\ Branches(bs)[0] = <<>>
        /\ \A b \in DOMAIN bs : Branches(bs)[b] = Append(Branches(bs)[bs[b].prev], b)
    BY <2>1, BranchesWalk
  <2>3. Branches(bs)[1] = Append(Branches(bs)[bs[1].prev], 1)
    BY <1>2, <2>2
  <2> QED
    BY <1>2, <2>2, <2>3
<1> HIDE DEF bs
<1>4. Range(Main) = first
  <2>1. Main = Append(<<>>, 1)
    BY <1>1, <1>3 DEF Main, bs
  <2> QED
    BY <2>1 DEF Range
<1>5. DOMAIN Foreign \subseteq Known /\ Range(FirstBlock) \subseteq DOMAIN Foreign
  <2>1. Range(FirstBlock) \subseteq DOMAIN Foreign
    BY RangeIsFinite, WalletAssumption
  <2> QED
    BY <2>1 DEF Known
<1>6. Connected(bs)
  <2>1. TxsIn(bs, Range(Branches(bs)[bs[1].prev])) = {}
    BY <1>2, <1>3 DEF TxsIn, Range
  <2>2. \A t \in Range(FirstBlock) : \A p \in Inputs(t) :
          p[1] \in Known /\ p[2] \in DOMAIN Transaction(p[1]).vout /\ ~Output(p).mine
    <3>1. \A t \in Range(FirstBlock) : \A p \in Range(Foreign[t].vin) :
            p[1] \in DOMAIN Foreign /\ p[2] \in DOMAIN Foreign[p[1]].vout /\ ~Foreign[p[1]].vout[p[2]].mine
      BY WalletAssumption
    <3> QED
      BY <1>5, <3>1 DEF Inputs, Output, Transaction
  <2>3. \A t \in Range(bs[1].vtx) :
          LET before == TxsIn(bs, Range(Branches(bs)[bs[1].prev])) IN
          /\ t \notin before
          /\ \A p \in Inputs(t) : /\ p[1] \in Known /\ p[2] \in DOMAIN Transaction(p[1]).vout
                                  /\ Output(p).mine => p[1] \in before
    BY <1>2, <2>1, <2>2
  <2> QED
    BY <1>2, <2>3 DEF Connected
<1>7. FollowsIn(w, bs, first, kept)
  <2>1. FollowsIn(FirstFile.txs, bs, {1}, kept)
    <3> HIDE DEF kept
    <3> QED
      BY <1>2, FirstFollows
  <2> QED
    BY <1>1, <2>1
<1> QED
  BY <1>1, <1>4, <1>6, <1>7 DEF FollowInv, bs

\* The transactions of a new block are known and connect.
LEMMA BlockConnects ==
  ASSUME NEW prev \in DOMAIN blocks, NEW valid \in BOOLEAN,
         NEW vtx \in {<<>>} \cup
           {<<t>> : t \in {u \in Broadcast : valid /\ Connects(u, TxsOf(Branches(blocks)[prev]))}}
  PROVE  vtx \in Seq(Known) /\ \A t \in Range(vtx) : Connects(t, TxsOf(Branches(blocks)[prev]))
<1> DEFINE S == {u \in Broadcast : valid /\ Connects(u, TxsOf(Branches(blocks)[prev]))}
<1>1. \A t \in S : Connects(t, TxsOf(Branches(blocks)[prev]))
  OBVIOUS
<1>2. Range(vtx) \subseteq S
  <2>1. vtx = <<>> \/ \E t \in S : vtx = <<t>>
    OBVIOUS
  <2> HIDE DEF S
  <2>2. CASE vtx = <<>>
    BY <2>2 DEF Range
  <2>3. ASSUME NEW t \in S, vtx = <<t>> PROVE Range(vtx) \subseteq S
    <3>1. <<t>> \in Seq(S)
      BY OneIsSequence
    <3>2. Range(<<t>>) \subseteq S
      BY <3>1, RangeIsWithin
    <3> QED
      BY <2>3, <3>2
  <2> QED
    BY <2>1, <2>2, <2>3
<1>3. vtx \in Seq(Known)
  BY BlockIsKnown
<1> HIDE DEF S
<1> QED
  BY <1>1, <1>2, <1>3

LEMMA WalletNextFollows ==
  ASSUME WalletInv, FollowInv, [WalletNext]_walletVars, AllWritten'
  PROVE  FollowInv'
<1>1. CASE UNCHANGED walletVars
  <2>1. UNCHANGED <<blocks, pindexBest, mapWallet, walletFile, made, pending, running, faults>>
    BY <1>1 DEF walletVars
  <2>2. TxsStay
    BY <2>1, TxsStayWith
  <2> QED
    BY <2>1, <2>2, UnchangedFollows
<1>2. ASSUME NEW nValue \in Payees, SendMoney(nValue) PROVE FollowInv'
  BY <1>2, SendMoneyFollows
<1>3. ASSUME NEW prev \in DOMAIN blocks, NEW valid \in BOOLEAN,
             NEW vtx \in {<<>>} \cup
               {<<t>> : t \in {u \in Broadcast : valid /\ Connects(u, TxsOf(Branches(blocks)[prev]))}},
             NEW refused, ReceiveBlock(prev, vtx, valid, refused)
      PROVE  FollowInv'
  <2>1. vtx \in Seq(Known)
    BY BlockConnects
  <2>2. \A t \in Range(vtx) : Connects(t, TxsOf(Branches(blocks)[prev]))
    BY BlockConnects
  <2> QED
    BY <1>3, <2>1, <2>2, ReceiveBlockFollows
<1>4. ASSUME NEW t \in Broadcast, NEW refused, ReceiveTransaction(t, refused) PROVE FollowInv'
  BY <1>4, ReceiveTransactionFollows
<1>5. ASSUME NEW t, NEW refused, CommitTransaction(t, refused) PROVE FollowInv'
  BY <1>5, CommitTransactionFollows
<1>6. ASSUME NEW t \in pending, Abandon(t) PROVE FollowInv'
  <2> DEFINE D == {t}
  <2>1. /\ UNCHANGED <<blocks, pindexBest, mapWallet, walletFile, running, faults>>
        /\ pending' \subseteq pending /\ made' = MadeWithout(D) /\ D \in SUBSET pending
    BY <1>6 DEF Abandon
  <2> HIDE DEF D
  <2>2. TxsStay
    BY <2>1, TxsStayWith
  <2> QED
    BY <2>1, <2>2, UnchangedFollows
<1>7. CASE GetBalance
  BY <1>7, GetBalanceFollows
<1>8. CASE Stop
  BY <1>8, StopFollows
<1>9. CASE RestoreBackup
  BY <1>9, RestoreBackupFollows
<1>10. CASE Start
  BY <1>10, StartFollows
<1> QED
  BY <1>1, <1>2, <1>3, <1>4, <1>5, <1>6, <1>7, <1>8, <1>9, <1>10 DEF WalletNext

\* What a confirmed transaction spends is known, and worth a number.
LEMMA ConfirmedFits ==
  ASSUME WalletInv, FollowInv, NEW t \in Confirmed
  PROVE  IsFiniteSet(Inputs(t)) /\ \A p \in Inputs(t) : Output(p).value \in Nat
<1> DEFINE bs == blocks
<1>1. /\ bs \in Seq(Blocks(Known)) /\ IsTree(bs) /\ Connected(bs) /\ PaymentsTyped
      /\ Range(Main) \subseteq DOMAIN bs /\ \A c \in DOMAIN bs : bs[c].vtx \in Seq(Known)
  BY ChainIs DEF FollowInv
<1>2. PICK b \in Range(Main) : t \in Range(bs[b].vtx)
  BY DEF Confirmed, TxsOf
<1> DEFINE c == bs[b].prev
           x == Branches(bs)[c]
           B == Range(x)
           kept == FALSE
<1>3. b \in DOMAIN bs /\ c \in 0..Len(bs)
  <2> DEFINE R == Blocks(Known)
  <2>1. bs \in Seq(R) /\ b \in DOMAIN bs
    BY <1>1
  <2> HIDE DEF R, bs
  <2>2. DOMAIN bs = 1..Len(bs) /\ Len(bs) \in Nat
    BY <2>1
  <2> QED
    BY <1>1, <2>1, <2>2 DEF IsTree
<1>4. B \subseteq DOMAIN bs
  <2> DEFINE R == Blocks(Known)
  <2>1. bs \in Seq(R) /\ IsTree(bs) /\ c \in 0..Len(bs)
    BY <1>1, <1>3
  <2> HIDE DEF R, c, bs
  <2>2. IsLine(bs, c)
    BY <2>1, LinesAre
  <2>3. x \in Seq(Nat) /\ \A j \in 1..Len(x) : x[j] \in DOMAIN bs
    BY <2>2 DEF IsLine
  <2> HIDE DEF x
  <2> SUFFICES ASSUME NEW i \in DOMAIN x PROVE x[i] \in DOMAIN bs
    BY Zenon DEF Range
  <2>4. i \in 1..Len(x)
    BY <2>3
  <2> QED
    BY <2>3, <2>4
<1>5. Range(Branches(bs)[bs[b].prev]) = B
  OBVIOUS
<1> HIDE DEF B, kept, bs
<1>6. Fits(t, TxsIn(bs, B))
  BY <1>1, <1>2, <1>3, <1>4, <1>5, BlockFits
<1> QED
  BY <1>6 DEF Fits

\* As long as the database refused no record, the wallet has every transaction of
\* the main chain that pays it or spends from it, has every output of its own that
\* the chain spends as spent, and knows the block, a cut-off reorganisation
\* excepted: through reorganisations, crashes between any two writes of wallet.dat
\* and the commit of the chain, and an old copy that is put back
\* (CWallet::AddToWalletIfInvolvingMe, ScanForWalletTransactions,
\* ReacceptWalletTransactions), for chains and wallets of any size.
THEOREM WalletKnowsItsChain == WalletSpec => []WalletFollowsChain
<1>1. WalletInit => (AllWritten => WalletInv /\ FollowInv)
  BY WalletInitInv, WalletInitFollows
<1>2. (AllWritten => WalletInv /\ FollowInv) /\ [WalletNext]_walletVars
        => (AllWritten => WalletInv /\ FollowInv)'
  BY WalletNextInv, WalletNextFollows, AllWasWritten
<1>3. (AllWritten => WalletInv /\ FollowInv) => WalletFollowsChain
  <2> SUFFICES ASSUME WalletInv, FollowInv, running, NEW t \in Confirmed
               PROVE  /\ PaysMe(t) \/ IsFromMe(mapWallet, t) => t \in DOMAIN mapWallet
                      /\ \A p \in Inputs(t) : Own(mapWallet, p) => p[2] \in mapWallet[p[1]].spent
                      /\ t \in DOMAIN mapWallet /\ Kept => mapWallet[t].block = BlockOf(t)
    BY DEF WalletFollowsChain, Kept
  <2> DEFINE txs == Confirmed
             at == Where(blocks, Range(Main), Kept)
  <2>1. TxsIn(blocks, Range(Main)) = txs
    BY DEF TxsIn, Confirmed, TxsOf
  <2>2. Has(mapWallet, OwnTxs(txs), OwnCoins(txs), at)
    BY <2>1 DEF FollowInv, FollowsIn, Follows
  <2> HIDE DEF txs
  <2>3. t \in txs
    BY DEF txs
  <2>4. IsFromMe(mapWallet, t) => Involves(t)
    <3> SUFFICES ASSUME IsFromMe(mapWallet, t) PROVE Involves(t)
      OBVIOUS
    <3> DEFINE S == {p \in Inputs(t) : Own(mapWallet, p)}
    <3>1. IsFiniteSet(S) /\ \A p \in S : Output(p).value \in Nat
      <4>1. S \subseteq Inputs(t) /\ IsFiniteSet(Inputs(t)) /\ \A p \in S : Output(p).value \in Nat
        BY ConfirmedFits
      <4> HIDE DEF S
      <4> QED
        BY <4>1, FS_Subset
    <3>2. MapThenSumSet(LAMBDA p : Output(p).value, S) > 0
      BY DEF IsFromMe, GetDebit
    <3> HIDE DEF S
    <3>3. \E p \in S : Output(p).value > 0
      BY <3>1, <3>2, DebitIs
    <3> QED
      BY <3>3 DEF S, Own, Involves
  <2>5. PaysMe(t) \/ IsFromMe(mapWallet, t) => t \in DOMAIN mapWallet
    <3>1. PaysMe(t) => Involves(t)
      BY DEF Involves
    <3> QED
      BY <2>2, <2>3, <2>4, <3>1 DEF OwnTxs, Has
  <2>6. ASSUME NEW p \in Inputs(t), Own(mapWallet, p) PROVE p[2] \in mapWallet[p[1]].spent
    <3>1. p \in OwnCoins(txs)
      BY <2>3, <2>6 DEF OwnCoins, SpentBy, Own
    <3> QED
      BY <2>2, <3>1 DEF Has, Marked
  <2>7. ASSUME t \in DOMAIN mapWallet, Kept PROVE mapWallet[t].block = BlockOf(t)
    <3>1. \E b \in Range(Main) : t \in Range(blocks[b].vtx)
      BY DEF Confirmed, TxsOf
    <3>2. BlockOf(t) \in Range(Main) /\ t \in Range(blocks[BlockOf(t)].vtx)
      BY <3>1 DEF BlockOf
    <3> DEFINE b == BlockOf(t)
               q == <<t, b>>
    <3>3. q \in at /\ q[1] = t /\ q[2] = b
      BY <2>7, <3>2 DEF Where, PlacesIn
    <3> HIDE DEF q, b
    <3> QED
      BY <2>2, <2>7, <3>3 DEF Has, Placed, b
  <2> QED
    BY <2>5, <2>6, <2>7
<1> QED
  BY <1>1, <1>2, <1>3, PTL DEF WalletSpec
=============================================================================
