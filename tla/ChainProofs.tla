---------------------------- MODULE ChainProofs ----------------------------
(***************************************************************************)
(* Theorems about Chain, for every tree of blocks, every set of invalid    *)
(* blocks and any number of crashes and faults: memory and database agree, *)
(* the chain on disk is one branch, what connecting and disconnecting      *)
(* blocks leaves in the transaction index is what replaying that branch    *)
(* from the first block gives, and the database implements BestChain.      *)
(***************************************************************************)
EXTENDS ChainReference, Recursion

(***************************************************************************)
(* The inductive invariant.  MemoryIsDatabase is not inductive: that a     *)
(* reorganisation leaves memory and database alike depends on what its     *)
(* steps have put in the open transaction, and that in turn on the shape   *)
(* of the branches the walks collected.                                    *)
(***************************************************************************)

\* h is the height of every block of an index that has each block's ancestors.
Linked(h) ==
  /\ DOMAIN h \subseteq Block
  /\ h \in [DOMAIN h -> Nat]
  /\ Genesis \in DOMAIN h
  /\ h[Genesis] = 0
  /\ \A b \in DOMAIN h \ {Genesis} :
       /\ hashPrevBlock[b] \in DOMAIN h
       /\ h[b] = h[hashPrevBlock[b]] + 1

\* S is the part of a branch strictly above lo, up to and including hi.
Segment(S, lo, hi, h) ==
  /\ S \subseteq DOMAIN h \ {Genesis}
  /\ lo \in DOMAIN h
  /\ hi \in S \cup {lo}
  /\ \A b \in S : /\ h[lo] < h[b]
                  /\ h[b] <= h[hi]
                  /\ hashPrevBlock[b] \in S \cup {lo}
  /\ \A b \in S \cup {lo} : b = hi \/ \E c \in S : hashPrevBlock[c] = b
  /\ \A b, c \in S : h[b] = h[c] => b = c

\* The successor that records with these hashNext give block x, and each block.
Link(next, x) == IF x \in DOMAIN next THEN next[x] ELSE NULL

Links(next) == [x \in mapBlockIndex |-> Link(next, x)]

\* The records are those of blocks in memory.
IndexInv ==
  /\ Linked(nHeight)
  /\ DOMAIN dbHeight \subseteq mapBlockIndex
  /\ \A b \in DOMAIN dbHeight : dbHeight[b] = nHeight[b]
  /\ Genesis \in DOMAIN dbHeight
  /\ dbHashBestChain \in mapBlockIndex

\* The blocks without a record.
Lost == mapBlockIndex \ DOMAIN dbHeight

LostInv == IsFiniteSet(Lost) /\ Cardinality(Lost) <= nFaults

WorkInv ==
  nPhase \notin {"load", "holed"} =>
    /\ DOMAIN bnChainWork = mapBlockIndex
    /\ pindexBest \in mapBlockIndex
    /\ bnBestChainWork = bnChainWork[pindexBest]

\* What is left to connect after the reorganisation, in which phase.
PostponedInv ==
  /\ nPhase \in {"postpone", "fork", "reorganize"} =>
       Segment(vpindexSecondary, pindexIntermediate, pindexNew, nHeight)
  /\ nPhase = "secondary" =>
       /\ Segment(vpindexSecondary, pindex, pindexNew, nHeight)
       /\ vpindexSecondary # {}

\* The two walks to the fork.
ForkInv ==
  /\ nPhase \in {"fork", "reorganize"} =>
       /\ Segment(vDisconnect, pfork, pindexBest, nHeight)
       /\ Segment(vConnect, plonger, pindexIntermediate, nHeight)
       /\ \A d \in vDisconnect : d # plonger /\ nHeight[d] >= nHeight[plonger]
       /\ \A c \in vConnect : nHeight[c] > nHeight[pfork]
       /\ vDisconnect \cap vConnect = {}
  /\ nPhase = "reorganize" =>
       /\ pfork = plonger
       /\ pindex \in vDisconnect \cup vConnect \cup {pfork}

\* The blocks the open transaction has disconnected and connected.
Undone ==
  IF pindex \in vDisconnect
  THEN {b \in vDisconnect : nHeight[b] > nHeight[pindex]}
  ELSE vDisconnect

Done ==
  IF pindex \in vDisconnect THEN {}
  ELSE {b \in vConnect : nHeight[b] <= nHeight[pindex]}

TxnInv ==
  /\ nPhase \in {"extend", "postpone", "fork", "secondary"} => txnNext = dbNext
  /\ nPhase \in {"postpone", "fork"} => pindex = pindexBest
  /\ nPhase = "reorganize" =>
       /\ DOMAIN dbNext \subseteq DOMAIN txnNext
       /\ DOMAIN txnNext \subseteq mapBlockIndex
       /\ \A x \in mapBlockIndex :
            /\ \A b \in Done : hashPrevBlock[b] = x => Link(txnNext, x) = b
            /\ (\A b \in Done : hashPrevBlock[b] # x) =>
                 /\ (\E b \in Undone : hashPrevBlock[b] = x) => Link(txnNext, x) = NULL
                 /\ (\A b \in Undone : hashPrevBlock[b] # x) => Link(txnNext, x) = pnext[x]

SyncInv ==
  /\ nPhase \notin {"idle", "load", "holed"} => pindexNew \in mapBlockIndex
  /\ nPhase = "extend" => /\ pindexNew # Genesis
                          /\ hashPrevBlock[pindexNew] = pindexBest
                          /\ vpindexSecondary = {}
  /\ pnext = Links(dbNext)
  /\ ~ fSecondaryFailed =>
       /\ nPhase \notin {"load", "holed", "secondary", "publish"} =>
            pindexBest = dbHashBestChain
       /\ nPhase = "publish" => pindexNew = dbHashBestChain

IInv == /\ TypeOK
        /\ IndexInv
        /\ LostInv
        /\ WorkInv
        /\ PostponedInv
        /\ ForkInv
        /\ TxnInv
        /\ SyncInv

----------------------------------------------------------------------------
(* Branches. *)

\* A branch can be empty.
LEMMA SegmentEmpty ==
  ASSUME NEW h, Linked(h), NEW b \in DOMAIN h
  PROVE  Segment({}, b, b, h)
BY DEF Segment, Linked

\* A walk back adds the block it leaves.
LEMMA SegmentDown ==
  ASSUME NEW h, Linked(h), NEW S, NEW lo, NEW hi, Segment(S, lo, hi, h),
         lo # Genesis
  PROVE  Segment(S \cup {lo}, hashPrevBlock[lo], hi, h)
<1> DEFINE pr == hashPrevBlock[lo]
<1>1. /\ pr \in DOMAIN h
      /\ h[lo] = h[pr] + 1
      /\ h[lo] \in Nat /\ h[pr] \in Nat /\ h[hi] \in Nat
  BY DEF Segment, Linked
<1>2. \A b \in S : h[b] \in Nat
  BY DEF Segment, Linked
<1>3. h[lo] <= h[hi]
  BY <1>1, <1>2 DEF Segment
<1>4. \A b \in S \cup {lo} : /\ h[pr] < h[b]
                             /\ h[b] <= h[hi]
                             /\ hashPrevBlock[b] \in (S \cup {lo}) \cup {pr}
  BY <1>1, <1>2, <1>3 DEF Segment
<1>5. \A b, c \in S \cup {lo} : h[b] = h[c] => b = c
  BY <1>1, <1>2 DEF Segment
<1>6. \A b \in (S \cup {lo}) \cup {pr} :
        b = hi \/ \E c \in S \cup {lo} : hashPrevBlock[c] = b
  BY DEF Segment
<1> QED
  BY <1>1, <1>4, <1>5, <1>6 DEF Segment

\* A branch is connected from its lower end.
LEMMA SegmentUp ==
  ASSUME NEW h, Linked(h), NEW S, NEW lo, NEW hi, Segment(S, lo, hi, h),
         NEW b \in S, hashPrevBlock[b] = lo
  PROVE  Segment(S \ {b}, b, hi, h)
<1>1. \A x \in S \cup {lo} : x \in DOMAIN h /\ h[x] \in Nat
  BY DEF Segment, Linked
<1>2. h[b] = h[lo] + 1
  BY DEF Segment, Linked
<1>3. \A x \in S \ {b} : h[b] < h[x] /\ hashPrevBlock[x] # lo
  <2> SUFFICES ASSUME NEW x \in S \ {b} PROVE h[b] < h[x] /\ hashPrevBlock[x] # lo
    OBVIOUS
  <2>1. h[lo] < h[x] /\ h[x] # h[b]
    BY DEF Segment
  <2>2. h[x] = h[hashPrevBlock[x]] + 1
    BY DEF Segment, Linked
  <2> QED
    BY <1>1, <1>2, <2>1, <2>2
<1>4. hi \in (S \ {b}) \cup {b}
  BY <1>1 DEF Segment
<1>5. \A x \in (S \ {b}) \cup {b} :
        x = hi \/ \E c \in S \ {b} : hashPrevBlock[c] = x
  BY <1>1, <1>2 DEF Segment
<1> QED
  BY <1>1, <1>3, <1>4, <1>5 DEF Segment

\* A branch that is not empty has a block next to its lower end.
LEMMA SegmentNext ==
  ASSUME NEW h, Linked(h), NEW S, NEW lo, NEW hi, Segment(S, lo, hi, h), S # {}
  PROVE  \E b \in S : hashPrevBlock[b] = lo
BY DEF Segment, Linked

----------------------------------------------------------------------------
(* The transaction index keeps its type. *)

\* A block spends numbered outputs.
LEMMA SpentInType ==
  ASSUME NEW b \in Block, NEW t PROVE SpentIn(b, t) \subseteq Nat
BY TxAssumption DEF SpentIn, SpentBefore

\* A block holds transactions.
LEMMA TransactionsType ==
  ASSUME NEW b \in Block PROVE Transactions(b) \subseteq Tx
BY TxAssumption DEF Transactions

\* Connecting a block writes records that are well formed.
LEMMA ConnectedType ==
  ASSUME NEW b \in Block, NEW x, IsTxIndex(x)
  PROVE  IsTxIndex(Connected(b, x))
BY SpentInType, TransactionsType DEF IsTxIndex, Connected, CTxIndex

\* So does disconnecting one.
LEMMA DisconnectedType ==
  ASSUME NEW b \in Block, NEW x, IsTxIndex(x)
  PROVE  IsTxIndex(Disconnected(b, x))
BY SpentInType, TransactionsType DEF IsTxIndex, Disconnected, CTxIndex

----------------------------------------------------------------------------
(* Each step keeps the invariant. *)

\* The block SetBestChainInner works on is indexed and not the first.
LEMMA InnerBlockIndexed ==
  ASSUME IInv, nPhase \in {"extend", "secondary"}
  PROVE  /\ InnerBlock \in mapBlockIndex \ {Genesis}
         /\ nPhase = "extend" => InnerBlock = pindexNew
         /\ nPhase = "secondary" => /\ InnerBlock \in vpindexSecondary
                                    /\ hashPrevBlock[InnerBlock] = pindex
<1>1. CASE nPhase = "extend"
  BY <1>1 DEF InnerBlock, IInv, SyncInv
<1>2. CASE nPhase = "secondary"
  <2>1. \E b \in vpindexSecondary : hashPrevBlock[b] = pindex
    BY <1>2, SegmentNext DEF IInv, PostponedInv, IndexInv
  <2>2. /\ InnerBlock \in vpindexSecondary
        /\ hashPrevBlock[InnerBlock] = pindex
    BY <1>2, <2>1 DEF InnerBlock
  <2> QED
    BY <1>2, <2>2 DEF IInv, PostponedInv, Segment, mapBlockIndex
<1> QED
  BY <1>1, <1>2

\* InvalidChainFound changes the invalid work, in memory and on disk.
LEMMA InvalidChainFoundType ==
  ASSUME TypeOK, WorkInv, nPhase \notin {"load", "holed"}, NEW b \in mapBlockIndex,
         InvalidChainFound(b)
  PROVE  /\ bnBestInvalidWork' \in Nat
         /\ dbBestInvalidWork' \in Nat
         /\ UNCHANGED <<dbHeight, dbNext, dbHashBestChain, dbTxIndex>>
BY DEF InvalidChainFound, TypeOK, WorkInv, mapBlockIndex, db

\* A record is written of an indexed block.
LEMMA WriteNextLink ==
  ASSUME NEW next, NEW p, NEW v, NEW new,
         new = [y \in DOMAIN next \cup {p} |-> IF y = p THEN v ELSE next[y]]
  PROVE  /\ DOMAIN new = DOMAIN next \cup {p}
         /\ \A x : Link(new, x) = IF x = p THEN v ELSE Link(next, x)
BY DEF Link

\* A step that gives blocks records loses none.
LEMMA LostShrinks ==
  ASSUME IInv, Lost' \subseteq Lost, nFaults' = nFaults PROVE LostInv'
<1>1. IsFiniteSet(Lost') /\ Cardinality(Lost') <= Cardinality(Lost)
  BY FS_Subset DEF IInv, LostInv
<1>2. Cardinality(Lost') \in Nat /\ Cardinality(Lost) \in Nat /\ nFaults \in Nat
  BY <1>1, FS_CardinalityType DEF IInv, LostInv, TypeOK
<1> QED
  BY <1>1, <1>2 DEF IInv, LostInv

\* Nor does a step that counts another error.
LEMMA LostKept ==
  ASSUME IInv, UNCHANGED <<nHeight, dbHeight>>, nFaults' = nFaults \/ Fault PROVE LostInv'
<1>1. Lost' = Lost /\ nFaults' \in {nFaults, nFaults + 1}
  BY DEF Fault, Lost, mapBlockIndex
<1>2. Cardinality(Lost) \in Nat /\ nFaults \in Nat
  BY FS_CardinalityType DEF IInv, LostInv, TypeOK
<1> QED
  BY <1>1, <1>2 DEF IInv, LostInv

\* Undoing the block at pindex: the open transaction has then undone it too.
LEMMA UndoneGrows ==
  ASSUME IInv, DisconnectTip
  PROVE  /\ Undone' = Undone \cup {pindex}
         /\ Done = {} /\ Done' = {}
<1> USE DEF IInv
<1>1. /\ nPhase = "reorganize" /\ nPhase' = "reorganize"
      /\ pindex \in vDisconnect
      /\ pindex' = hashPrevBlock[pindex]
      /\ pindex \in Block \ {Genesis}
      /\ pindex' \in mapBlockIndex
      /\ pindex' \in vDisconnect \cup {pfork}
      /\ nHeight[pindex] = nHeight[pindex'] + 1
  BY DEF DisconnectTip, ForkInv, IndexInv, Linked, Segment, mapBlockIndex
<1>2. \A b \in vDisconnect : nHeight[b] \in Nat /\ nHeight[pfork] < nHeight[b]
  BY <1>1 DEF ForkInv, Segment, IndexInv, Linked
<1>3. \A b \in vConnect : nHeight[b] > nHeight[pfork]
  BY <1>1 DEF ForkInv
<1>4. pfork \in mapBlockIndex /\ nHeight[pfork] \in Nat /\ nHeight[pindex'] \in Nat
  BY <1>1 DEF ForkInv, Segment, IndexInv, Linked, mapBlockIndex
<1>5. \A b \in vConnect : nHeight[b] \in Nat
  BY <1>1 DEF ForkInv, Segment, IndexInv, Linked
<1>6. \A b \in vDisconnect : nHeight[b] = nHeight[pindex] => b = pindex
  BY <1>1 DEF ForkInv, Segment
<1>7. UNCHANGED <<nHeight, vDisconnect, vConnect, pfork>>
  BY DEF DisconnectTip, memory
<1>8. Undone' = Undone \cup {pindex}
  <2>1. Undone = {b \in vDisconnect : nHeight[b] > nHeight[pindex]}
    BY <1>1 DEF Undone
  <2>2. CASE pindex' \in vDisconnect
    <3>1. Undone' = {b \in vDisconnect : nHeight[b] > nHeight[pindex']}
      BY <1>7, <2>2 DEF Undone
    <3> QED
      BY <1>1, <1>2, <1>4, <1>6, <2>1, <3>1
  <2>3. CASE pindex' = pfork
    <3>1. pindex' \notin vDisconnect
      BY <1>2, <1>4, <2>3
    <3>2. Undone' = vDisconnect
      BY <1>7, <3>1 DEF Undone
    <3> QED
      BY <1>1, <1>2, <1>4, <1>6, <2>1, <2>3, <3>2
  <2> QED
    BY <1>1, <2>2, <2>3
<1>9. Done = {} /\ Done' = {}
  <2>1. Done = {}
    BY <1>1 DEF Done
  <2>2. CASE pindex' \in vDisconnect
    BY <1>7, <2>1, <2>2 DEF Done
  <2>3. CASE pindex' \notin vDisconnect
    <3>1. Done' = {b \in vConnect : nHeight[b] <= nHeight[pindex']}
      BY <1>7, <2>3 DEF Done
    <3>2. pindex' = pfork
      BY <1>1, <2>3
    <3> QED
      BY <1>3, <1>4, <1>5, <2>1, <3>1, <3>2
  <2> QED
    BY <2>2, <2>3
<1> QED
  BY <1>8, <1>9

\* Undoing a block leaves in the transaction what the undone blocks make of it.
LEMMA DisconnectTipInv ==
  ASSUME IInv, DisconnectTip PROVE IInv'
<1> USE DEF IInv
<1>1. /\ nPhase = "reorganize" /\ nPhase' = "reorganize"
      /\ pindex \in vDisconnect
      /\ pindex' = hashPrevBlock[pindex]
      /\ pindex \in Block \ {Genesis}
      /\ pindex' \in mapBlockIndex
      /\ pindex' \in vDisconnect \cup {pfork}
      /\ nHeight[pindex] = nHeight[pindex'] + 1
  BY DEF DisconnectTip, ForkInv, IndexInv, Linked, Segment, mapBlockIndex
<1>2. TypeOK'
  <2>1. txnTxIndex' = Disconnected(pindex, txnTxIndex) /\ IsTxIndex(txnTxIndex)
    BY DEF DisconnectTip, TypeOK
  <2>2. IsTxIndex(txnTxIndex')
    BY <1>1, <2>1, DisconnectedType
  <2>3. txnNext' \in [DOMAIN txnNext' -> Pointer]
    BY DEF DisconnectTip, WriteNext, TypeOK, Pointer
  <2> QED
    BY <1>1, <2>2, <2>3
    DEF DisconnectTip, TypeOK, mapBlockIndex, memory, db, history, IndexInv, Linked
<1>3. IndexInv' /\ LostInv' /\ WorkInv' /\ PostponedInv' /\ ForkInv' /\ SyncInv'
  BY <1>1 DEF DisconnectTip, IndexInv, LostInv, Lost, WorkInv, PostponedInv, ForkInv,
              SyncInv, Links, Link, mapBlockIndex, memory, db, history
<1>4. TxnInv'
  <2>1. Undone' = Undone \cup {pindex} /\ Done = {} /\ Done' = {}
    BY UndoneGrows
  <2>2. /\ txnNext' = [y \in DOMAIN txnNext \cup {pindex'} |->
                          IF y = pindex' THEN NULL ELSE txnNext[y]]
        /\ mapBlockIndex' = mapBlockIndex
        /\ dbNext' = dbNext /\ pnext' = pnext
    BY <1>1 DEF TxnInv, DisconnectTip, WriteNext, mapBlockIndex, memory, db
  <2>3. /\ DOMAIN txnNext' = DOMAIN txnNext \cup {pindex'}
        /\ \A x : Link(txnNext', x) = IF x = pindex' THEN NULL ELSE Link(txnNext, x)
    BY <2>2, WriteNextLink
  <2> QED
    BY <1>1, <2>1, <2>2, <2>3 DEF TxnInv
<1> QED
  BY <1>2, <1>3, <1>4

\* So does connecting the next block of the new branch.
LEMMA ConnectNextInv ==
  ASSUME IInv, ConnectNext PROVE IInv'
<1> USE DEF IInv
<1>1. PICK b \in vConnect : /\ hashPrevBlock[b] = pindex
                            /\ txnTxIndex' = Connected(b, txnTxIndex)
                            /\ txnNext' = WriteNext(b, b)
                            /\ pindex' = b
  BY DEF ConnectNext
<1>2. b \in Block /\ b \in mapBlockIndex /\ nPhase = "reorganize"
  BY DEF ConnectNext, ForkInv, Segment, mapBlockIndex, IndexInv, Linked
<1>3. TypeOK'
  <2>1. IsTxIndex(txnTxIndex')
    BY <1>1, <1>2, ConnectedType DEF TypeOK
  <2>2. txnNext' \in [DOMAIN txnNext' -> Pointer]
    BY <1>1, <1>2 DEF WriteNext, TypeOK, Pointer
  <2> QED
    BY <1>1, <1>2, <2>1, <2>2
    DEF ConnectNext, TypeOK, mapBlockIndex, memory, db, history
<1>4. IndexInv' /\ LostInv' /\ WorkInv' /\ PostponedInv' /\ ForkInv' /\ SyncInv'
  BY <1>1, <1>2 DEF ConnectNext, IndexInv, LostInv, Lost, WorkInv, PostponedInv, ForkInv,
              SyncInv, Links, Link, mapBlockIndex, memory, db, history
<1>5. TxnInv'
  <2>1. /\ DOMAIN txnNext' = DOMAIN txnNext \cup {pindex}
        /\ \A x : Link(txnNext', x) = IF x = pindex THEN b ELSE Link(txnNext, x)
    BY <1>1, WriteNextLink DEF WriteNext
  <2>2. UNCHANGED <<nHeight, pnext, dbNext, vConnect, vDisconnect, pfork, nPhase>>
    BY DEF ConnectNext, memory, db
  <2>3. pindex \in mapBlockIndex
    BY <1>2 DEF ForkInv, Segment, mapBlockIndex
  <2>4. /\ Undone' = Undone
        /\ Done' = Done \cup {b}
    BY <1>1, <1>2, <2>2 DEF ConnectNext, Undone, Done, ForkInv, Segment, IndexInv, Linked,
                            mapBlockIndex
  <2>5. \A x \in mapBlockIndex :
            /\ \A c \in Done' : hashPrevBlock[c] = x => Link(txnNext', x) = c
            /\ (\A c \in Done' : hashPrevBlock[c] # x) =>
                 /\ (\E c \in Undone' : hashPrevBlock[c] = x) => Link(txnNext', x) = NULL
                 /\ (\A c \in Undone' : hashPrevBlock[c] # x) => Link(txnNext', x) = pnext[x]
    BY <1>1, <1>2, <2>1, <2>4 DEF TxnInv, Done, ForkInv, Segment, IndexInv, Linked, mapBlockIndex
  <2> QED
    BY <1>2, <2>1, <2>2, <2>3, <2>5 DEF TxnInv, mapBlockIndex
<1> QED
  BY <1>3, <1>4, <1>5

\* At the commit, all of the old branch is undone and all of the new one done:
\* the successors in the transaction are those memory gets.
LEMMA CommitReorganizeInv ==
  ASSUME IInv, CommitReorganize PROVE IInv'
<1> USE DEF IInv
<1>1. /\ nPhase = "reorganize" /\ nPhase' \in {"publish", "secondary"}
      /\ pindex = pindexIntermediate /\ pindex \notin vDisconnect
      /\ pnext' = Relinked
      /\ dbNext' = txnNext
      /\ dbHeight' = [x \in DOMAIN txnNext |-> nHeight[x]]
      /\ DOMAIN dbNext \subseteq DOMAIN txnNext
      /\ DOMAIN txnNext \subseteq mapBlockIndex
      /\ DOMAIN dbNext = DOMAIN dbHeight
      /\ UNCHANGED nHeight
  BY DEF CommitReorganize, TxnInv, Heights, TypeOK
<1>2. vConnect \subseteq mapBlockIndex /\ mapBlockIndex \subseteq Block
      /\ pindexIntermediate \in mapBlockIndex
  BY <1>1 DEF ForkInv, PostponedInv, Segment, IndexInv, Linked, mapBlockIndex
<1>3. Done = vConnect /\ Undone = vDisconnect
  <2>1. \A b \in vConnect : nHeight[b] <= nHeight[pindex]
    BY <1>1 DEF ForkInv, Segment
  <2> QED
    BY <1>1, <2>1 DEF Done, Undone
<1>4. pnext' = Links(txnNext)
  <2>1. pnext' = [x \in mapBlockIndex |-> pnext'[x]]
    BY <1>1 DEF Relinked
  <2>2. Links(txnNext) = [x \in mapBlockIndex |-> Link(txnNext, x)]
    BY DEF Links
  <2>3. ASSUME NEW x \in mapBlockIndex PROVE pnext'[x] = Link(txnNext, x)
    <3> DEFINE C == {b \in vConnect : hashPrevBlock[b] = x}
               D == {b \in vDisconnect : hashPrevBlock[b] = x}
    <3>1. pnext'[x] = IF C # {} THEN CHOOSE b \in C : TRUE
                      ELSE IF D # {} THEN NULL ELSE pnext[x]
      BY <1>1 DEF Relinked
    <3>2. CASE C # {}
      <4>1. pnext'[x] \in C
        BY <3>1, <3>2
      <4> QED
        BY <1>1, <1>3, <4>1 DEF TxnInv
    <3>3. CASE C = {} /\ D # {}
      <4>1. pnext'[x] = NULL
        BY <3>1, <3>3
      <4>2. Link(txnNext, x) = NULL
        BY <1>1, <1>3, <3>3 DEF TxnInv
      <4> QED
        BY <4>1, <4>2
    <3>4. CASE C = {} /\ D = {}
      <4>1. pnext'[x] = pnext[x]
        BY <3>1, <3>4
      <4>2. Link(txnNext, x) = pnext[x]
        BY <1>1, <1>3, <3>4 DEF TxnInv
      <4> QED
        BY <4>1, <4>2
    <3> QED
      BY <3>2, <3>3, <3>4
  <2> QED
    BY <2>1, <2>2, <2>3
<1>5. TypeOK'
  <2>1. pnext' \in [mapBlockIndex -> Pointer]
    <3>1. \A x \in mapBlockIndex : Link(txnNext, x) \in Pointer
      BY DEF Link, TypeOK, Pointer
    <3> QED
      BY <1>4, <3>1 DEF Links
  <2>2. /\ dbHeight' \in [DOMAIN dbHeight' -> Nat]
        /\ dbNext' \in [DOMAIN dbHeight' -> Pointer]
    BY <1>1 DEF TypeOK, mapBlockIndex
  <2> QED
    BY <1>1, <1>2, <2>1, <2>2 DEF CommitReorganize, TypeOK, mapBlockIndex, locals, txn,
                      history, IndexInv, Phases
<1>6. IndexInv' /\ WorkInv' /\ ForkInv' /\ TxnInv'
  BY <1>1, <1>2 DEF CommitReorganize, IndexInv, WorkInv, ForkInv, TxnInv, mapBlockIndex,
              locals, txn, history
<1>9. LostInv'
  <2>1. Lost' \subseteq Lost /\ nFaults' = nFaults
    BY <1>1 DEF CommitReorganize, Lost, mapBlockIndex, history
  <2> QED
    BY <2>1, LostShrinks
<1>7. PostponedInv'
  BY <1>1 DEF CommitReorganize, PostponedInv, locals
<1>8. SyncInv'
  <2>1. vpindexSecondary = {} => pindexIntermediate = pindexNew
    BY <1>1 DEF PostponedInv, Segment
  <2>2. pnext' = Links(dbNext)'
    BY <1>1, <1>4 DEF Links, mapBlockIndex
  <2> QED
    BY <1>1, <2>1, <2>2 DEF CommitReorganize, SyncInv, mapBlockIndex, locals, history
<1> QED
  BY <1>5, <1>6, <1>7, <1>8, <1>9

\* One block on top of the committed tip, written alike to both.
LEMMA SetBestChainInnerInv ==
  ASSUME IInv, SetBestChainInner PROVE IInv'
<1> USE DEF IInv
<1> DEFINE b == InnerBlock
<1>1. nPhase \in {"extend", "secondary"} /\ nPhase' \in {"publish", "secondary"}
  BY DEF SetBestChainInner
<1>2. /\ b \in mapBlockIndex /\ b \in Block
      /\ nPhase = "extend" => b = pindexNew
      /\ nPhase = "secondary" => /\ b \in vpindexSecondary
                                 /\ hashPrevBlock[b] = pindex
  BY <1>1, InnerBlockIndexed DEF IndexInv, Linked, mapBlockIndex
<1>3. /\ dbHashBestChain' = b /\ pindex' = b
      /\ dbNext' = [y \in DOMAIN txnNext \cup {hashPrevBlock[b]} |->
                      IF y = hashPrevBlock[b] THEN b ELSE txnNext[y]]
      /\ dbHeight' = [x \in DOMAIN dbNext' |-> nHeight[x]]
      /\ txnNext' = dbNext'
      /\ dbTxIndex' = Connected(b, txnTxIndex) /\ txnTxIndex' = dbTxIndex'
      /\ pnext' = [pnext EXCEPT ![hashPrevBlock[b]] = b]
      /\ vpindexSecondary' = vpindexSecondary \ {b}
      /\ nPhase' = "publish" <=> vpindexSecondary' = {}
      /\ UNCHANGED <<nHeight, bnChainWork, pindexBest, bnBestChainWork,
                     bnBestInvalidWork, dbBestInvalidWork,
                     pindexNew, pindexIntermediate, pfork, plonger,
                     vDisconnect, vConnect, history>>
  BY DEF SetBestChainInner, WriteNext, Heights
<1>4. /\ txnNext = dbNext /\ pnext = Links(dbNext)
      /\ DOMAIN dbNext = DOMAIN dbHeight /\ DOMAIN dbHeight \subseteq mapBlockIndex
      /\ hashPrevBlock[b] \in mapBlockIndex
  <2>1. b # Genesis
    BY <1>1, InnerBlockIndexed
  <2> QED
    BY <1>1, <1>2, <2>1 DEF TxnInv, SyncInv, TypeOK, IndexInv, Linked, mapBlockIndex
<1>10. /\ DOMAIN dbNext' = DOMAIN dbNext \cup {hashPrevBlock[b]}
       /\ \A x : Link(dbNext', x) = IF x = hashPrevBlock[b] THEN b ELSE Link(dbNext, x)
       /\ DOMAIN dbHeight' = DOMAIN dbNext'
  <2> DEFINE p == hashPrevBlock[b]
  <2>1. dbNext' = [y \in DOMAIN dbNext \cup {p} |-> IF y = p THEN b ELSE dbNext[y]]
    BY <1>3, <1>4
  <2>2. DOMAIN dbHeight' = DOMAIN dbNext'
    BY <1>3
  <2> HIDE DEF b, p
  <2>3. DOMAIN dbNext' = DOMAIN dbNext \cup {p}
    BY <2>1, WriteNextLink
  <2>4. \A x : Link(dbNext', x) = IF x = p THEN b ELSE Link(dbNext, x)
    BY <2>1, WriteNextLink
  <2> QED
    BY <2>2, <2>3, <2>4 DEF p
<1>11. pnext' = Links(dbNext)'
  BY <1>3, <1>4, <1>10 DEF Links, mapBlockIndex
<1>5. TypeOK'
  <2>1. IsTxIndex(dbTxIndex')
    BY <1>2, <1>3, ConnectedType DEF TypeOK
  <2>2. dbNext' \in [DOMAIN dbHeight' -> Pointer] /\ pnext' \in [mapBlockIndex' -> Pointer]
    BY <1>2, <1>3, <1>4 DEF TypeOK, Pointer, mapBlockIndex
  <2>3. dbHeight' \in [DOMAIN dbHeight' -> Nat]
    BY <1>3, <1>4, <1>10 DEF TypeOK, mapBlockIndex
  <2> QED
    BY <1>1, <1>2, <1>3, <2>1, <2>2, <2>3 DEF TypeOK, mapBlockIndex, history, Phases, IndexInv
<1>6. IndexInv' /\ WorkInv' /\ ForkInv'
  <2>1. IndexInv'
    BY <1>2, <1>3, <1>4, <1>10 DEF IndexInv, mapBlockIndex
  <2> QED
    BY <1>1, <1>3, <2>1 DEF WorkInv, ForkInv, mapBlockIndex
<1>12. LostInv'
  <2>1. Lost' \subseteq Lost /\ nFaults' = nFaults
    BY <1>3, <1>4, <1>10 DEF Lost, mapBlockIndex, history
  <2> QED
    BY <2>1, LostShrinks
<1>7. PostponedInv'
  <2>1. CASE nPhase = "extend"
    BY <1>1, <1>3, <2>1 DEF PostponedInv, SyncInv
  <2>2. CASE nPhase = "secondary"
    <3>1. Segment(vpindexSecondary \ {b}, b, pindexNew, nHeight)
      BY <1>2, <2>2, SegmentUp DEF PostponedInv, IndexInv
    <3> QED
      BY <1>1, <1>3, <3>1 DEF PostponedInv
  <2> QED
    BY <1>1, <2>1, <2>2
<1>8. TxnInv'
  BY <1>1, <1>3 DEF TxnInv
<1>9. SyncInv'
  <2>1. nPhase' = "publish" => b = pindexNew
    <3>1. CASE nPhase = "extend"
      BY <1>2, <3>1
    <3>2. CASE nPhase = "secondary"
      <4>1. Segment(vpindexSecondary \ {b}, b, pindexNew, nHeight)
        BY <1>2, <3>2, SegmentUp DEF PostponedInv, IndexInv
      <4> QED
        BY <1>3, <4>1 DEF Segment
    <3> QED
      BY <1>1, <3>1, <3>2
  <2> QED
    BY <1>1, <1>2, <1>3, <1>11, <2>1 DEF SyncInv, mapBlockIndex, history
<1> QED
  BY <1>5, <1>6, <1>7, <1>8, <1>9, <1>12

\* A restart on records that are whole reads an index.
LEMMA CrashInv ==
  ASSUME IInv, Crash PROVE IInv'
<1>0. /\ nHeight' = dbHeight /\ pnext' = dbNext /\ RecordsAreWhole
      /\ DOMAIN dbNext = DOMAIN dbHeight
      /\ DOMAIN dbHeight \subseteq mapBlockIndex
      /\ UNCHANGED <<dbHeight, dbNext, dbHashBestChain>>
  BY DEF Crash, db, IInv, TypeOK, IndexInv
<1>1. bnChainWork' \in [DOMAIN bnChainWork' -> Nat] /\ DOMAIN bnChainWork' = {}
  BY DEF Crash
<1>2. TypeOK'
  <2>1. /\ mapBlockIndex' \in SUBSET Block
        /\ nHeight' \in [mapBlockIndex' -> Nat]
        /\ pnext' \in [mapBlockIndex' -> Pointer]
    BY <1>0 DEF IInv, TypeOK, IndexInv, Linked, mapBlockIndex
  <2>2. nCrashes' \in 0..MaxCrashes
    BY WorkAssumption DEF Crash, IInv, TypeOK
  <2>3. nPhase' \in Phases /\ pindexBest' \in Block
        /\ bnBestChainWork' \in Nat /\ bnBestInvalidWork' \in Nat
    BY BlockAssumption DEF Crash, Phases
  <2>4. UNCHANGED <<db, locals, nFaults, fSecondaryFailed>>
    BY DEF Crash
  <2> QED
    BY <1>1, <2>1, <2>2, <2>3, <2>4 DEF IInv, TypeOK, db, locals, txn
<1>4. IndexInv'
  <2>1. Linked(dbHeight)
    <3>1. \A b \in DOMAIN dbHeight \ {Genesis} : hashPrevBlock[b] \in DOMAIN dbHeight
      <4> SUFFICES ASSUME NEW b \in DOMAIN dbHeight \ {Genesis}
                   PROVE  hashPrevBlock[b] \in DOMAIN dbHeight
        OBVIOUS
      <4>1. hashPrevBlock[b] \in Block
        BY <1>0 DEF IInv, IndexInv, Linked, mapBlockIndex
      <4> QED
        BY <1>0, <4>1, BlockAssumption DEF RecordsAreWhole
    <3> QED
      BY <1>0, <3>1 DEF IInv, TypeOK, IndexInv, Linked, mapBlockIndex
  <2> QED
    BY <1>0, <2>1 DEF IInv, IndexInv, RecordsAreWhole, mapBlockIndex
<1>5. LostInv'
  <2>1. Lost' = {} /\ nFaults' = nFaults
    BY <1>0 DEF Lost, mapBlockIndex, Crash
  <2> QED
    BY <2>1, LostShrinks
<1>6. pnext' = Links(dbNext)'
  <2>1. dbNext = [x \in DOMAIN dbNext |-> dbNext[x]]
    BY DEF IInv, TypeOK
  <2> QED
    BY <1>0, <2>1 DEF Links, Link, mapBlockIndex
<1>3. WorkInv' /\ PostponedInv' /\ ForkInv' /\ TxnInv' /\ SyncInv'
  BY <1>6 DEF Crash, WorkInv, PostponedInv, ForkInv, TxnInv, SyncInv
<1> QED
  BY <1>2, <1>3, <1>4, <1>5 DEF IInv

\* One on records with a hole is not followed.
LEMMA CrashWithHoleInv ==
  ASSUME IInv, CrashWithHole PROVE IInv'
<1>1. TypeOK'
  BY WorkAssumption DEF CrashWithHole, IInv, TypeOK, Phases, memory, db, locals, txn, mapBlockIndex
<1>2. IndexInv' /\ LostInv' /\ WorkInv' /\ PostponedInv' /\ ForkInv' /\ TxnInv' /\ SyncInv'
  BY DEF CrashWithHole, IInv, IndexInv, LostInv, Lost, WorkInv, PostponedInv, ForkInv, TxnInv,
         SyncInv, Links, Link, memory, db, locals, txn, mapBlockIndex
<1> QED
  BY <1>1, <1>2 DEF IInv

\* A new block in memory, whatever becomes of its record.
LEMMA InsertBlockInv ==
  ASSUME IInv, NEW b \in Block, InsertBlock(b)
  PROVE  /\ mapBlockIndex' = mapBlockIndex \cup {b} /\ b \notin mapBlockIndex
         /\ Linked(nHeight')
         /\ bnChainWork' \in [mapBlockIndex' -> Nat] /\ DOMAIN bnChainWork' = mapBlockIndex'
         /\ pnext' \in [mapBlockIndex' -> Pointer]
         /\ pnext' = [x \in mapBlockIndex' |-> Link(dbNext, x)]
         /\ b \notin DOMAIN dbHeight
         /\ \A x \in mapBlockIndex : nHeight'[x] = nHeight[x] /\ nHeight'[b] \in Nat
<1> USE DEF IInv
<1>1. /\ nPhase = "idle" /\ b \notin mapBlockIndex /\ hashPrevBlock[b] \in mapBlockIndex
      /\ mapBlockIndex' = mapBlockIndex \cup {b}
      /\ DOMAIN bnChainWork = mapBlockIndex
  BY DEF InsertBlock, WorkInv, mapBlockIndex
<1>2. Linked(nHeight')
  BY <1>1, BlockAssumption DEF InsertBlock, Linked, mapBlockIndex, TypeOK, IndexInv
<1>3. bnChainWork' \in [mapBlockIndex' -> Nat] /\ DOMAIN bnChainWork' = mapBlockIndex'
  BY <1>1, WorkAssumption DEF InsertBlock, TypeOK
<1>4. pnext' \in [mapBlockIndex' -> Pointer]
  BY <1>1 DEF InsertBlock, TypeOK, Pointer
<1>5. b \notin DOMAIN dbHeight /\ b \notin DOMAIN dbNext
  BY <1>1 DEF IndexInv, TypeOK
<1>6. pnext' = [x \in mapBlockIndex' |-> Link(dbNext, x)]
  BY <1>1, <1>5 DEF InsertBlock, SyncInv, Links, Link
<1>7. \A x \in mapBlockIndex : nHeight'[x] = nHeight[x] /\ nHeight'[b] \in Nat
  BY <1>1 DEF InsertBlock, TypeOK
<1> QED
  BY <1>1, <1>2, <1>3, <1>4, <1>5, <1>6, <1>7

\* The work of the other blocks stays.
LEMMA InsertBlockWork ==
  ASSUME IInv, NEW b \in Block, InsertBlock(b)
  PROVE  /\ pindexBest \in mapBlockIndex
         /\ bnBestChainWork = bnChainWork'[pindexBest]
         /\ ~ fSecondaryFailed => pindexBest = dbHashBestChain
BY DEF InsertBlock, IInv, WorkInv, SyncInv, mapBlockIndex

\* Its record is written.
LEMMA AcceptBlockInv ==
  ASSUME IInv, NEW b \in Block, AcceptBlock(b) PROVE IInv'
<1> USE DEF IInv
<1>1. /\ InsertBlock(b) /\ nPhase = "idle" /\ nPhase' \in {"idle", "setbest"}
      /\ dbHeight' = [x \in DOMAIN dbHeight \cup {b} |->
                        IF x = b THEN nHeight'[b] ELSE dbHeight[x]]
      /\ dbNext' = [x \in DOMAIN dbNext \cup {b} |-> IF x = b THEN NULL ELSE dbNext[x]]
      /\ UNCHANGED <<dbHashBestChain, dbBestInvalidWork, dbTxIndex, nFaults>>
  BY DEF AcceptBlock, InsertBlock
<1>2. /\ mapBlockIndex' = mapBlockIndex \cup {b} /\ b \notin mapBlockIndex
      /\ Linked(nHeight')
      /\ bnChainWork' \in [mapBlockIndex' -> Nat] /\ DOMAIN bnChainWork' = mapBlockIndex'
      /\ pnext' \in [mapBlockIndex' -> Pointer]
      /\ pnext' = [x \in mapBlockIndex' |-> Link(dbNext, x)]
      /\ b \notin DOMAIN dbHeight
      /\ \A x \in mapBlockIndex : nHeight'[x] = nHeight[x] /\ nHeight'[b] \in Nat
  BY <1>1, InsertBlockInv
<1>3. /\ UNCHANGED <<pindexBest, bnBestChainWork, bnBestInvalidWork,
                     pindexIntermediate, vpindexSecondary, pfork, plonger,
                     vDisconnect, vConnect, pindex, txn, nCrashes,
                     fSecondaryFailed>>
      /\ pindexNew' = b
  BY <1>1 DEF InsertBlock
<1>4. DOMAIN dbNext = DOMAIN dbHeight /\ DOMAIN dbHeight \subseteq mapBlockIndex
  BY DEF TypeOK, IndexInv
<1>5. /\ DOMAIN dbHeight' = DOMAIN dbHeight \cup {b} /\ DOMAIN dbNext' = DOMAIN dbHeight'
      /\ \A x : Link(dbNext', x) = IF x = b THEN NULL ELSE Link(dbNext, x)
      /\ Link(dbNext, b) = NULL
  BY <1>1, <1>2, <1>4, WriteNextLink DEF Link
<1>6. /\ dbHeight' \in [DOMAIN dbHeight' -> Nat]
      /\ dbNext' \in [DOMAIN dbHeight' -> Pointer]
  BY <1>1, <1>2, <1>4 DEF TypeOK, Pointer, IndexInv, mapBlockIndex
<1>7. TypeOK'
  BY <1>1, <1>2, <1>3, <1>6 DEF TypeOK, Linked, mapBlockIndex, Phases, txn
<1>8. IndexInv'
  BY <1>1, <1>2, <1>4, <1>5 DEF IndexInv, mapBlockIndex
<1>9. LostInv'
  <2>1. Lost' \subseteq Lost
    BY <1>2, <1>5 DEF Lost
  <2> QED
    BY <1>1, <2>1, LostShrinks
<1>10. pnext' = Links(dbNext)'
  BY <1>2, <1>5 DEF Links
<1>11. WorkInv' /\ PostponedInv' /\ ForkInv' /\ TxnInv' /\ SyncInv'
  BY <1>1, <1>2, <1>3, <1>10, InsertBlockWork DEF WorkInv, PostponedInv, ForkInv, TxnInv, SyncInv
<1> QED
  BY <1>7, <1>8, <1>9, <1>11

\* Its record is lost.
LEMMA LoseRecordInv ==
  ASSUME IInv, NEW b \in Block, AddToBlockIndexFails(b) \/ RecordIsLost(b) PROVE IInv'
<1> USE DEF IInv
<1>1. /\ InsertBlock(b) /\ nPhase = "idle" /\ nPhase' \in {"idle", "setbest"}
      /\ nFaults' = nFaults + 1 /\ nFaults < MaxFaults
      /\ UNCHANGED <<dbHeight, dbNext, dbHashBestChain, dbBestInvalidWork, dbTxIndex>>
  BY DEF AddToBlockIndexFails, RecordIsLost, InsertBlock, Fault, db
<1>2. /\ mapBlockIndex' = mapBlockIndex \cup {b} /\ b \notin mapBlockIndex
      /\ Linked(nHeight')
      /\ bnChainWork' \in [mapBlockIndex' -> Nat] /\ DOMAIN bnChainWork' = mapBlockIndex'
      /\ pnext' \in [mapBlockIndex' -> Pointer]
      /\ pnext' = [x \in mapBlockIndex' |-> Link(dbNext, x)]
      /\ b \notin DOMAIN dbHeight
      /\ \A x \in mapBlockIndex : nHeight'[x] = nHeight[x] /\ nHeight'[b] \in Nat
  BY <1>1, InsertBlockInv
<1>3. /\ UNCHANGED <<pindexBest, bnBestChainWork, bnBestInvalidWork,
                     pindexIntermediate, vpindexSecondary, pfork, plonger,
                     vDisconnect, vConnect, pindex, txn, nCrashes,
                     fSecondaryFailed>>
      /\ pindexNew' = b
  BY <1>1 DEF InsertBlock
<1>4. TypeOK'
  BY <1>1, <1>2, <1>3, WorkAssumption DEF TypeOK, Linked, mapBlockIndex, Phases, txn
<1>5. IndexInv'
  BY <1>1, <1>2 DEF IndexInv, mapBlockIndex
<1>6. LostInv'
  <2>1. Lost' = Lost \cup {b} /\ b \notin Lost
    BY <1>1, <1>2 DEF Lost
  <2>2. IsFiniteSet(Lost') /\ Cardinality(Lost') = Cardinality(Lost) + 1
    BY <2>1, FS_AddElement DEF LostInv
  <2>3. Cardinality(Lost) \in Nat /\ nFaults \in Nat
    BY FS_CardinalityType DEF LostInv, TypeOK
  <2> QED
    BY <1>1, <2>2, <2>3 DEF LostInv
<1>7. pnext' = Links(dbNext)'
  BY <1>1, <1>2 DEF Links
<1>8. WorkInv' /\ PostponedInv' /\ ForkInv' /\ TxnInv' /\ SyncInv'
  BY <1>1, <1>2, <1>3, <1>7, InsertBlockWork DEF WorkInv, PostponedInv, ForkInv, TxnInv, SyncInv
<1> QED
  BY <1>4, <1>5, <1>6, <1>8

\* The invariant is inductive.
LEMMA StepInv == IInv /\ [Next]_vars => IInv'
<1> SUFFICES ASSUME IInv, [Next]_vars PROVE IInv'
  OBVIOUS
<1> USE DEF IInv, IndexInv, WorkInv, PostponedInv, ForkInv, TxnInv, SyncInv,
            Links, Link
<1>1. ASSUME NEW b \in Block,
             AcceptBlock(b) \/ AddToBlockIndexFails(b) \/ RecordIsLost(b)
      PROVE  IInv'
  BY <1>1, AcceptBlockInv, LoseRecordInv
<1>0. ASSUME UNCHANGED <<nHeight, dbHeight>>, nFaults' = nFaults \/ Fault PROVE LostInv'
  BY <1>0, LostKept
<1>13. ASSUME \/ SetBestChain \/ Postpone \/ Reorganize \/ FindFork \/ NewBestBlock
              \/ LoadChainWork \/ LoadBestChain \/ UNCHANGED vars
       PROVE  LostInv'
  <2>1. UNCHANGED <<nHeight, dbHeight, nFaults>>
    BY <1>13 DEF SetBestChain, Postpone, Reorganize, FindFork, NewBestBlock, LoadChainWork,
                 LoadBestChain, vars, memory, db, history
  <2> QED
    BY <1>0, <2>1
<1>2. ASSUME SetBestChain PROVE IInv'
  <2>1. nPhase' = "postpone" => Segment({}, pindexNew, pindexNew, nHeight)
    BY <1>2, SegmentEmpty DEF SetBestChain, mapBlockIndex
  <2> QED
    BY <1>2, <1>13, <2>1, BlockAssumption
    DEF SetBestChain, TypeOK, Phases, memory, db, history, mapBlockIndex, Linked
<1>3. ASSUME Postpone PROVE IInv'
  <2>1. Segment(vpindexSecondary', pindexIntermediate', pindexNew, nHeight)
    BY <1>3, SegmentDown, BlockAssumption DEF Postpone, Linked, Segment
  <2> QED
    BY <1>3, <1>13, <2>1
    DEF Postpone, TypeOK, memory, db, txn, history, mapBlockIndex, Linked, Segment
<1>4. ASSUME Reorganize PROVE IInv'
  <2>1. /\ Segment({}, pindexBest, pindexBest, nHeight)
        /\ Segment({}, pindexIntermediate, pindexIntermediate, nHeight)
    BY <1>4, SegmentEmpty DEF Reorganize, mapBlockIndex, Segment
  <2> QED
    BY <1>4, <1>13, <2>1 DEF Reorganize, TypeOK, Phases, memory, db, txn, history, mapBlockIndex
<1>5. ASSUME FindFork PROVE IInv'
  BY <1>5, <1>13, SegmentDown
  DEF FindFork, NewIsLonger, TypeOK, Phases, memory, db, txn, history, mapBlockIndex, Linked,
      Segment, Undone, Done
<1>6. ASSUME ReorganizeFails \/ ReorganizeFault PROVE IInv'
  <2>1. pindexNew \in mapBlockIndex /\ nPhase \notin {"load", "holed"} /\ InvalidChainFound(pindexNew)
    BY <1>6 DEF ReorganizeFails, ReorganizeFault
  <2>2. /\ bnBestInvalidWork' \in Nat /\ dbBestInvalidWork' \in Nat
        /\ UNCHANGED <<dbHeight, dbNext, dbHashBestChain, dbTxIndex>>
    BY <2>1, InvalidChainFoundType
  <2>3. LostInv'
    BY <1>0, <1>6, <2>2 DEF ReorganizeFails, ReorganizeFault, history
  <2> QED
    BY <1>6, <2>2, <2>3, WorkAssumption
    DEF ReorganizeFails, ReorganizeFault, Fault, TypeOK, Phases, locals, txn, history,
        mapBlockIndex
<1>7. ASSUME SetBestChainInnerFails PROVE IInv'
  <2>1. InnerBlock \in mapBlockIndex /\ nPhase \notin {"load", "holed"} /\ InvalidChainFound(InnerBlock)
    BY <1>7, InnerBlockIndexed DEF SetBestChainInnerFails
  <2>2. /\ bnBestInvalidWork' \in Nat /\ dbBestInvalidWork' \in Nat
        /\ UNCHANGED <<dbHeight, dbNext, dbHashBestChain, dbTxIndex>>
    BY <2>1, InvalidChainFoundType
  <2>3. LostInv'
    BY <1>0, <1>7, <2>2 DEF SetBestChainInnerFails
  <2> QED
    BY <1>7, <2>2, <2>3 DEF SetBestChainInnerFails, TypeOK, Phases, locals, txn, mapBlockIndex
<1>8. ASSUME NewBestBlock PROVE IInv'
  BY <1>8, <1>13 DEF NewBestBlock, TypeOK, Phases, db, locals, txn, history, mapBlockIndex, Linked
<1>9. ASSUME ExtendFault \/ SecondaryFault PROVE IInv'
  <2>1. /\ bnBestInvalidWork' \in Nat /\ dbBestInvalidWork' \in Nat
        /\ UNCHANGED <<dbHeight, dbNext, dbHashBestChain, dbTxIndex>>
    <3>1. CASE UNCHANGED <<bnBestInvalidWork, db>>
      BY <3>1 DEF db, TypeOK
    <3>2. CASE nPhase = "extend" /\ InvalidChainFound(pindexNew)
      BY <3>2, InvalidChainFoundType
    <3>3. CASE nPhase = "secondary" /\ InvalidChainFound(InnerBlock)
      BY <3>3, InvalidChainFoundType, InnerBlockIndexed
    <3> QED
      BY <1>9, <3>1, <3>2, <3>3 DEF ExtendFault, SecondaryFault
  <2>4. LostInv'
    BY <1>0, <1>9, <2>1 DEF ExtendFault, SecondaryFault
  <2>2. CASE ExtendFault
    BY <2>1, <2>2, <2>4, WorkAssumption
    DEF ExtendFault, Fault, TypeOK, Phases, locals, txn, mapBlockIndex
  <2>3. CASE SecondaryFault
    BY <2>1, <2>3, <2>4, WorkAssumption
    DEF SecondaryFault, Fault, TypeOK, Phases, locals, txn, mapBlockIndex
  <2> QED
    BY <1>9, <2>2, <2>3
<1>10. ASSUME LoadChainWork PROVE IInv'
  <2>1. /\ bnChainWork' \in [DOMAIN bnChainWork' -> Nat]
        /\ DOMAIN bnChainWork' \subseteq mapBlockIndex
    BY <1>10, WorkAssumption DEF LoadChainWork, TypeOK, mapBlockIndex, Linked
  <2> QED
    BY <1>10, <1>13, <2>1 DEF LoadChainWork, TypeOK, db, locals, txn, history, mapBlockIndex
<1>11. ASSUME LoadBestChain PROVE IInv'
  BY <1>11, <1>13, WorkAssumption
  DEF LoadBestChain, TypeOK, Phases, db, txn, history, mapBlockIndex, Linked
<1>12. CASE UNCHANGED vars
  BY <1>12, <1>13 DEF vars, memory, db, locals, txn, history, TypeOK, mapBlockIndex, Undone, Done
<1> QED
  BY <1>1, <1>2, <1>3, <1>4, <1>5, <1>6, <1>7, <1>8, <1>9, <1>10, <1>11, <1>12,
     DisconnectTipInv, ConnectNextInv, CommitReorganizeInv, SetBestChainInnerInv, CrashInv,
     CrashWithHoleInv
  DEF Next, Step

\* An empty data directory satisfies it.
LEMMA InitInv == Init => IInv
<1> SUFFICES ASSUME Init PROVE IInv
  OBVIOUS
<1> USE BlockAssumption, WorkAssumption DEF Init, mapBlockIndex
<1>1. TypeOK
  <2>1. IsTxIndex(dbTxIndex) /\ IsTxIndex(txnTxIndex)
    BY DEF IsTxIndex
  <2>2. GetBlockWork[Genesis] \in Nat
    OBVIOUS
  <2>3. /\ nHeight \in [{Genesis} -> Nat] /\ pnext \in [{Genesis} -> Pointer]
        /\ bnChainWork \in [{Genesis} -> Nat]
    BY <2>2 DEF Pointer
  <2>4. /\ DOMAIN nHeight = {Genesis} /\ DOMAIN bnChainWork = {Genesis}
        /\ DOMAIN dbHeight = {Genesis} /\ DOMAIN txnNext = {Genesis}
        /\ dbHashBestChain \in Block
        /\ 0 \in 0..MaxCrashes /\ 0 \in 0..MaxFaults
    OBVIOUS
  <2>5. /\ dbHeight \in [{Genesis} -> Nat]
        /\ dbNext \in [{Genesis} -> Pointer] /\ txnNext \in [{Genesis} -> Pointer]
    BY <2>3
  <2> QED
    BY <2>1, <2>2, <2>3, <2>4, <2>5 DEF TypeOK, Phases
<1>2. IndexInv
  BY DEF IndexInv, Linked
<1>3. LostInv
  <2>1. Lost = {} /\ nFaults = 0
    BY DEF Lost
  <2> QED
    BY <2>1, FS_EmptySet DEF LostInv
<1>4. pnext = Links(dbNext)
  BY DEF Links, Link
<1> QED
  BY <1>1, <1>2, <1>3, <1>4 DEF IInv, WorkInv, PostponedInv, ForkInv, TxnInv, SyncInv

\* It holds in every reachable state.
LEMMA Invariance == Spec => []IInv
BY InitInv, StepInv, PTL DEF Spec

----------------------------------------------------------------------------

\* Every variable keeps its type: no pointer of the walks in SetBestChain,
\* Reorganize and LoadBlockIndex ever becomes null or leaves the index.
THEOREM TypeCorrect == Spec => []TypeOK
<1>1. IInv => TypeOK
  BY DEF IInv
<1> QED
  BY <1>1, Invariance, PTL

\* Whatever crashed or failed, the records agree with memory between blocks:
\* each is that of the block in memory, at most one block for each error has
\* none, and that one has no successor in the main chain.  The tip is the best
\* block on disk as long as no postponed block failed to connect.
THEOREM MemoryAgrees == Spec => []MemoryIsDatabase
<1>1. IInv => MemoryIsDatabase
  <2> SUFFICES ASSUME IInv, nPhase = "idle" PROVE MemoryIsDatabase
    BY DEF MemoryIsDatabase
  <2>1. ~ fSecondaryFailed => pindexBest = dbHashBestChain
    BY DEF IInv, SyncInv
  <2>2. \A b \in DOMAIN dbHeight : b \in mapBlockIndex /\ dbHeight[b] = nHeight[b]
    BY DEF IInv, IndexInv
  <2>3. pnext = [x \in mapBlockIndex |-> Link(dbNext, x)] /\ DOMAIN dbNext = DOMAIN dbHeight
    BY DEF IInv, SyncInv, Links, TypeOK
  <2>4. \A b \in DOMAIN dbHeight : dbNext[b] = pnext[b]
    BY <2>2, <2>3 DEF Link
  <2>5. \A b \in mapBlockIndex \ DOMAIN dbHeight : pnext[b] = NULL
    BY <2>3 DEF Link
  <2>6. Cardinality(mapBlockIndex \ DOMAIN dbHeight) <= nFaults
    BY DEF IInv, LostInv, Lost
  <2> QED
    BY <2>1, <2>2, <2>4, <2>5, <2>6 DEF MemoryIsDatabase
<1> QED
  BY <1>1, Invariance, PTL

\* The block SetBestChain works on has more work than the tip.
WorkLead ==
  nPhase \notin {"idle", "load", "holed"} => bnChainWork[pindexNew] > bnBestChainWork

\* Every step keeps that lead, unless a restart starts SetBestChain.
LEMMA WorkLeadStep ==
  ASSUME LateBlocks = {} \/ nPhase # "load", IInv, IInv', WorkLead, [Next]_vars
  PROVE  WorkLead'
<1> USE DEF WorkLead, IInv, WorkInv, memory, locals, history
<1>1. ASSUME NEW b \in Block,
             AcceptBlock(b) \/ AddToBlockIndexFails(b) \/ RecordIsLost(b)
      PROVE  WorkLead'
  BY <1>1 DEF AcceptBlock, AddToBlockIndexFails, RecordIsLost, InsertBlock, IsNewBest,
              mapBlockIndex
<1>2. CASE LoadBestChain
  BY <1>2 DEF LoadBestChain
<1> QED
  BY <1>1, <1>2
  DEF Next, Step, vars, SetBestChain, Postpone, Reorganize, FindFork, DisconnectTip,
      ConnectNext, CommitReorganize, ReorganizeFails, SetBestChainInner,
      SetBestChainInnerFails, NewBestBlock, ExtendFault,
      ReorganizeFault, SecondaryFault, Crash, CrashWithHole, LoadChainWork, Phases

\* A start-up that refuses no block of the best chain excepted, the tip is
\* only ever replaced by a block with more work.
THEOREM WorkGrows ==
  ASSUME LateBlocks = {}
  PROVE  Spec => NeverLosesWork
<1>1. Init => WorkLead
  BY DEF Init, WorkLead
<1>2. IInv /\ IInv' /\ WorkLead /\ [Next]_vars => WorkLead'
  BY WorkLeadStep
<1>3. IInv /\ WorkLead /\ [Next]_vars =>
        [nPhase # "load" /\ nPhase' # "load" => bnBestChainWork' >= bnBestChainWork]_vars
  <2> SUFFICES ASSUME IInv, WorkLead, [Next]_vars, nPhase # "load", nPhase' # "load"
               PROVE  bnBestChainWork' >= bnBestChainWork
    OBVIOUS
  <2>1. bnBestChainWork \in Nat
    BY DEF IInv, TypeOK
  <2>2. CASE NewBestBlock
    <3>1. nPhase = "publish" /\ bnBestChainWork' = bnChainWork[pindexNew]
      BY <2>2 DEF NewBestBlock
    <3>2. bnChainWork[pindexNew] \in Nat
      BY <3>1 DEF IInv, TypeOK, WorkInv, SyncInv, mapBlockIndex
    <3> QED
      BY <2>1, <3>1, <3>2 DEF WorkLead
  <2>3. CASE ~ NewBestBlock
    <3>1. bnBestChainWork' = bnBestChainWork
      BY <2>3
      DEF Next, Step, vars, memory, AcceptBlock, AddToBlockIndexFails, RecordIsLost, InsertBlock,
          SetBestChain, Postpone, Reorganize, FindFork,
          DisconnectTip, ConnectNext, CommitReorganize, ReorganizeFails, SetBestChainInner,
          SetBestChainInnerFails, ExtendFault, ReorganizeFault, SecondaryFault, Crash,
          CrashWithHole, LoadChainWork, LoadBestChain
    <3> QED
      BY <2>1, <3>1
  <2> QED
    BY <2>2, <2>3
<1> QED
  BY <1>1, <1>2, <1>3, Invariance, PTL DEF Spec, NeverLosesWork

----------------------------------------------------------------------------
(* The tree of blocks and the recursive functions of ChainReference that   *)
(* walk it.                                                                *)

\* So does a walk from block to previous block end at the first block.
LEMMA TreeGrounded == Grounded(Block, Genesis, hashPrevBlock)
BY BlockAssumption, AncestryAssumption DEF Grounded

----------------------------------------------------------------------------
(* The branch that ends at a block.                                        *)

\* The recursive definition of Ancestors defines a function.
LEMMA AncestorsDef ==
  \A b \in Block :
    Ancestors[b] = IF b = Genesis THEN {b} ELSE {b} \cup Ancestors[hashPrevBlock[b]]
<1> DEFINE V == SUBSET Block
           e == {Genesis}
           G == [b \in Block |-> [v \in V |-> {b} \cup v]]
<1>1. e \in V /\ IsRule(G, Block, V)
  BY BlockAssumption DEF IsRule
<1>2. PICK f \in [Block -> V] :
        \A b \in Block : f[b] = IF b = Genesis THEN e ELSE G[b][f[hashPrevBlock[b]]]
  <2> HIDE DEF V, e, G
  <2> QED
    BY <1>1, TreeGrounded, WalkRecursion
<1>3. f = [b \in Block |-> IF b = Genesis THEN {b} ELSE {b} \cup f[hashPrevBlock[b]]]
  <2>1. \A b \in Block \ {Genesis} : f[hashPrevBlock[b]] \in V
    BY BlockAssumption
  <2>2. \A b \in Block : f[b] = IF b = Genesis THEN {b} ELSE {b} \cup f[hashPrevBlock[b]]
    BY <1>2, <2>1
  <2> HIDE DEF V
  <2> QED
    BY <2>2
<1>4. Ancestors = [b \in Block |-> IF b = Genesis THEN {b}
                                   ELSE {b} \cup Ancestors[hashPrevBlock[b]]]
  BY <1>3 DEF Ancestors
<1> QED
  BY <1>4

\* A branch is made of blocks.
LEMMA AncestorsType == \A b \in Block : Ancestors[b] \subseteq Block
<1> DEFINE S == {b \in Block : Ancestors[b] \subseteq Block}
<1>1. Genesis \in S
  <2>1. Genesis \in Block /\ Ancestors[Genesis] = {Genesis}
    BY AncestorsDef, BlockAssumption
  <2> QED
    BY <2>1
<1>2. \A b \in Block \ {Genesis} : hashPrevBlock[b] \in S => b \in S
  BY AncestorsDef
<1> HIDE DEF S
<1>3. Block \subseteq S
  BY <1>1, <1>2, TreeGrounded, WalkInduction
<1> QED
  BY <1>3 DEF S

\* A block is on its own branch, which otherwise is that of its predecessor.
LEMMA AncestorsStep ==
  /\ Ancestors[Genesis] = {Genesis}
  /\ \A b \in Block : b \in Ancestors[b]
  /\ \A b \in Block \ {Genesis} :
       /\ hashPrevBlock[b] \in Block
       /\ Ancestors[b] = {b} \cup Ancestors[hashPrevBlock[b]]
<1>1. Ancestors[Genesis] = {Genesis}
  BY AncestorsDef, BlockAssumption
<1>2. \A b \in Block : b \in Ancestors[b]
  BY AncestorsDef
<1>3. \A b \in Block \ {Genesis} : hashPrevBlock[b] \in Block
  BY BlockAssumption
<1>4. \A b \in Block \ {Genesis} : Ancestors[b] = {b} \cup Ancestors[hashPrevBlock[b]]
  BY AncestorsDef
<1> QED
  BY <1>1, <1>2, <1>3, <1>4

\* Every block has a height.
LEMMA DepthExists == \E h \in [Block -> Nat] : Linked(h)
<1> DEFINE V == Nat
           e == 0
           G == [b \in Block |-> [v \in V |-> v + 1]]
<1>1. e \in V /\ IsRule(G, Block, V)
  BY DEF IsRule
<1>2. PICK h \in [Block -> V] :
        \A b \in Block : h[b] = IF b = Genesis THEN e ELSE G[b][h[hashPrevBlock[b]]]
  <2> HIDE DEF V, e, G
  <2> QED
    BY <1>1, TreeGrounded, WalkRecursion
<1>3. Linked(h)
  <2>1. \A b \in Block \ {Genesis} : hashPrevBlock[b] \in Block /\ h[hashPrevBlock[b]] \in V
    BY BlockAssumption
  <2> QED
    BY <1>2, <2>1, BlockAssumption DEF Linked
<1> QED
  BY <1>3

\* An index that has each block's predecessor has its branch, and the other
\* blocks of the branch are lower.
LEMMA LinkedBranch ==
  ASSUME NEW h, Linked(h), NEW b \in DOMAIN h
  PROVE  /\ Ancestors[b] \subseteq DOMAIN h
         /\ \A a \in Ancestors[b] : a = b \/ h[a] < h[b]
<1> DEFINE S == {x \in Block : x \in DOMAIN h =>
                   /\ Ancestors[x] \subseteq DOMAIN h
                   /\ \A a \in Ancestors[x] : a = x \/ h[a] < h[x]}
<1>1. Genesis \in S
  BY AncestorsStep, BlockAssumption DEF Linked
<1>2. ASSUME NEW x \in Block \ {Genesis}, hashPrevBlock[x] \in S PROVE x \in S
  <2> SUFFICES ASSUME x \in DOMAIN h
               PROVE  /\ Ancestors[x] \subseteq DOMAIN h
                      /\ \A a \in Ancestors[x] : a = x \/ h[a] < h[x]
    OBVIOUS
  <2>1. /\ hashPrevBlock[x] \in DOMAIN h
        /\ h[x] = h[hashPrevBlock[x]] + 1
        /\ \A a \in DOMAIN h : h[a] \in Nat
    BY DEF Linked
  <2> QED
    BY <1>2, <2>1, AncestorsStep
<1> HIDE DEF S
<1>3. Block \subseteq S
  BY <1>1, <1>2, TreeGrounded, WalkInduction
<1> QED
  BY <1>3 DEF S, Linked

\* Such an index has the height of each of its blocks.
LEMMA LinkedHeight ==
  ASSUME NEW h, Linked(h), NEW b \in DOMAIN h
  PROVE  IsFiniteSet(Ancestors[b]) /\ h[b] = Height(b)
<1> DEFINE S == {x \in Block : x \in DOMAIN h =>
                   /\ IsFiniteSet(Ancestors[x])
                   /\ Cardinality(Ancestors[x]) = h[x] + 1}
<1>1. Genesis \in S
  <2>1. IsFiniteSet({Genesis}) /\ Cardinality({Genesis}) = 1
    BY FS_Singleton
  <2>2. Ancestors[Genesis] = {Genesis} /\ h[Genesis] = 0 /\ Genesis \in Block
    BY AncestorsStep, BlockAssumption DEF Linked
  <2>3. IsFiniteSet(Ancestors[Genesis]) /\ Cardinality(Ancestors[Genesis]) = h[Genesis] + 1
    BY <2>1, <2>2
  <2> QED
    BY <2>2, <2>3
<1>2. ASSUME NEW x \in Block \ {Genesis}, hashPrevBlock[x] \in S PROVE x \in S
  <2> SUFFICES ASSUME x \in DOMAIN h
               PROVE  /\ IsFiniteSet(Ancestors[x])
                      /\ Cardinality(Ancestors[x]) = h[x] + 1
    OBVIOUS
  <2> DEFINE pr == hashPrevBlock[x]
  <2>1. /\ pr \in DOMAIN h
        /\ h[x] = h[pr] + 1
        /\ h[x] \in Nat /\ h[pr] \in Nat
    BY DEF Linked
  <2>2. IsFiniteSet(Ancestors[pr]) /\ Cardinality(Ancestors[pr]) = h[pr] + 1
    BY <1>2, <2>1
  <2>3. x \notin Ancestors[pr]
    BY <2>1, LinkedBranch
  <2>4. Ancestors[x] = Ancestors[pr] \cup {x}
    BY AncestorsStep
  <2> QED
    BY <2>1, <2>2, <2>3, <2>4, FS_AddElement
<1> HIDE DEF S
<1>3. Block \subseteq S
  BY <1>1, <1>2, TreeGrounded, WalkInduction
<1>4. /\ IsFiniteSet(Ancestors[b])
      /\ Cardinality(Ancestors[b]) = h[b] + 1
      /\ h[b] \in Nat
  BY <1>3 DEF S, Linked
<1> QED
  BY <1>4 DEF Height

\* The height counts the steps to the first block.
LEMMA HeightStep ==
  /\ \A b \in Block : Height(b) \in Nat
  /\ Height(Genesis) = 0
  /\ \A b \in Block \ {Genesis} : Height(b) = Height(hashPrevBlock[b]) + 1
<1>1. PICK h \in [Block -> Nat] : Linked(h)
  BY DepthExists
<1>2. \A b \in Block : h[b] = Height(b)
  BY <1>1, LinkedHeight
<1> QED
  BY <1>1, <1>2, BlockAssumption DEF Linked

\* The blocks of a branch are in line: each has its branch below it, and no
\* two have the same height.
LEMMA BranchIsLine ==
  ASSUME NEW b \in Block
  PROVE  /\ Genesis \in Ancestors[b]
         /\ \A a \in Ancestors[b] : Ancestors[a] \subseteq Ancestors[b]
         /\ \A a \in Ancestors[b] : a = b \/ Height(a) < Height(b)
         /\ \A a, c \in Ancestors[b] : Height(a) = Height(c) => a = c
<1> DEFINE S == {x \in Block :
                   /\ Genesis \in Ancestors[x]
                   /\ \A a \in Ancestors[x] : Ancestors[a] \subseteq Ancestors[x]
                   /\ \A a \in Ancestors[x] : a = x \/ Height(a) < Height(x)
                   /\ \A a, c \in Ancestors[x] : Height(a) = Height(c) => a = c}
<1>1. Genesis \in S
  BY AncestorsStep, BlockAssumption
<1>2. ASSUME NEW x \in Block \ {Genesis}, hashPrevBlock[x] \in S PROVE x \in S
  <2> DEFINE pr == hashPrevBlock[x]
  <2>1. /\ pr \in Block
        /\ Ancestors[x] = {x} \cup Ancestors[pr]
        /\ Ancestors[pr] \subseteq Block
        /\ Height(x) = Height(pr) + 1
        /\ Height(pr) \in Nat
        /\ \A a \in Ancestors[pr] : Height(a) \in Nat
    BY AncestorsStep, AncestorsType, HeightStep
  <2>2. \A a \in Ancestors[pr] : a = pr \/ Height(a) < Height(pr)
    BY <1>2
  <2>3. \A a \in Ancestors[pr] : Height(a) < Height(x)
    BY <2>1, <2>2
  <2>4. \A a, c \in Ancestors[x] : Height(a) = Height(c) => a = c
    BY <1>2, <2>1, <2>3
  <2> QED
    BY <1>2, <2>1, <2>3, <2>4
<1> HIDE DEF S
<1>3. Block \subseteq S
  BY <1>1, <1>2, TreeGrounded, WalkInduction
<1> QED
  BY <1>3 DEF S

\* The blocks of an index strictly above lo, up to hi, are what the branch of
\* hi adds to that of lo.
LEMMA SegmentBranch ==
  ASSUME NEW h, Linked(h), NEW Q, NEW lo, NEW hi, Segment(Q, lo, hi, h)
  PROVE  /\ Ancestors[hi] = Q \cup Ancestors[lo]
         /\ Q \cap Ancestors[lo] = {}
<1>1. /\ Q \subseteq Block \ {Genesis} /\ Q \subseteq DOMAIN h
      /\ lo \in DOMAIN h /\ lo \in Block
      /\ hi \in Q \cup {lo}
      /\ \A x \in DOMAIN h : h[x] \in Nat
  BY DEF Segment, Linked
<1>2. \A x \in Q : /\ h[lo] < h[x] /\ h[x] <= h[hi]
                   /\ hashPrevBlock[x] \in Q \cup {lo}
                   /\ h[x] = h[hashPrevBlock[x]] + 1
  BY <1>1 DEF Segment, Linked
<1> DEFINE Low(x) == {y \in Q : h[y] <= h[x]}
           S == {x \in Block : x \in Q \cup {lo} => Ancestors[x] = Low(x) \cup Ancestors[lo]}
<1>3. Low(lo) = {}
  BY <1>1, <1>2
<1>4. ASSUME NEW x \in Q PROVE Low(x) = Low(hashPrevBlock[x]) \cup {x}
  <2>1. \A y \in Q : h[y] = h[x] => y = x
    BY DEF Segment
  <2>2. h[hashPrevBlock[x]] \in Nat
    BY <1>1, <1>2
  <2> QED
    BY <1>1, <1>2, <2>1, <2>2
<1>5. Genesis \in S
  BY <1>1, <1>3, BlockAssumption
<1>6. ASSUME NEW x \in Block \ {Genesis}, hashPrevBlock[x] \in S PROVE x \in S
  <2>1. CASE x \in Q
    <3>1. Ancestors[x] = {x} \cup Ancestors[hashPrevBlock[x]]
      BY AncestorsStep
    <3>2. Ancestors[hashPrevBlock[x]] = Low(hashPrevBlock[x]) \cup Ancestors[lo]
      BY <1>2, <1>6, <2>1
    <3>3. Ancestors[x] = Low(x) \cup Ancestors[lo]
      BY <1>4, <2>1, <3>1, <3>2
    <3> QED
      BY <3>3
  <2>2. CASE x = lo
    BY <1>3, <2>2
  <2> QED
    BY <2>1, <2>2
<1> HIDE DEF S
<1>7. Block \subseteq S
  BY <1>5, <1>6, TreeGrounded, WalkInduction
<1>8. Ancestors[hi] = Low(hi) \cup Ancestors[lo]
  BY <1>1, <1>7 DEF S
<1>9. Low(hi) = Q
  BY <1>2
<1>10. \A a \in Ancestors[lo] : h[a] <= h[lo]
  BY <1>1, LinkedBranch
<1> QED
  BY <1>1, <1>2, <1>8, <1>9, <1>10, LinkedBranch

----------------------------------------------------------------------------
(* The chain on disk.                                                      *)

\* next gives each block of the branch of best its successor there, and no
\* other block one.
OneChain(next, best) ==
  \A x \in DOMAIN next :
    /\ \A c \in Ancestors[best] : hashPrevBlock[c] = x => next[x] = c
    /\ (\A c \in Ancestors[best] : hashPrevBlock[c] # x) => next[x] = NULL

\* A postponed block is connected on top of the block that was committed.
CommittedInv ==
  ~ fSecondaryFailed =>
    /\ nPhase = "secondary" => dbHashBestChain = pindex
    /\ OneChain(pnext, dbHashBestChain)

\* One block on top of the best one.
LEMMA OneChainExtends ==
  ASSUME NEW next, NEW best \in Block, OneChain(next, best),
         best \in DOMAIN next, NEW b \in Block \ {Genesis}, hashPrevBlock[b] = best
  PROVE  OneChain([next EXCEPT ![best] = b], b)
<1>1. Ancestors[b] = {b} \cup Ancestors[best]
  BY AncestorsStep
<1>2. \A c \in Ancestors[best] : hashPrevBlock[c] # best
  <2> SUFFICES ASSUME NEW c \in Ancestors[best], hashPrevBlock[c] = best PROVE FALSE
    OBVIOUS
  <2>1. c \in Block \ {Genesis} /\ Height(c) = Height(best) + 1
    BY AncestorsType, HeightStep, BlockAssumption
  <2>2. c = best \/ Height(c) < Height(best)
    BY BranchIsLine
  <2> QED
    BY <2>1, <2>2, HeightStep
<1> QED
  BY <1>1, <1>2 DEF OneChain

\* A block that is stored is on nobody's branch yet.
LEMMA OneChainLearns ==
  ASSUME NEW next, NEW best, OneChain(next, best), NEW b \in Block \ DOMAIN next,
         \A c \in Ancestors[best] : hashPrevBlock[c] # b
  PROVE  OneChain([x \in DOMAIN next \cup {b} |-> IF x = b THEN NULL ELSE next[x]], best)
BY DEF OneChain

\* The open transaction of a reorganisation has relinked the whole chain when
\* it commits.
LEMMA OneChainMoves ==
  ASSUME IInv, CommittedInv, ~ fSecondaryFailed, CommitReorganize
  PROVE  OneChain(pnext', pindexIntermediate)
<1> USE DEF IInv
<1>0. /\ pnext' = Links(txnNext) /\ DOMAIN pnext' = mapBlockIndex
      /\ \A x \in mapBlockIndex : pnext'[x] = Link(txnNext, x)
  <2>1. IInv'
    BY CommitReorganizeInv
  <2>2. /\ pnext' = Links(dbNext)' /\ dbNext' = txnNext
        /\ mapBlockIndex' = mapBlockIndex
    BY <2>1 DEF SyncInv, CommitReorganize, mapBlockIndex
  <2> QED
    BY <2>2 DEF Links
<1>1. /\ nPhase = "reorganize"
      /\ pindex = pindexIntermediate
      /\ pindex \notin vDisconnect
      /\ pfork = plonger
      /\ Linked(nHeight)
      /\ dbHashBestChain = pindexBest
      /\ DOMAIN pnext = mapBlockIndex
  BY DEF CommitReorganize, ForkInv, IndexInv, SyncInv, TxnInv, TypeOK, mapBlockIndex
<1>2. /\ Segment(vDisconnect, pfork, pindexBest, nHeight)
      /\ Segment(vConnect, pfork, pindexIntermediate, nHeight)
  BY <1>1 DEF ForkInv
<1>3. /\ Ancestors[pindexBest] = vDisconnect \cup Ancestors[pfork]
      /\ Ancestors[pindexIntermediate] = vConnect \cup Ancestors[pfork]
  BY <1>1, <1>2, SegmentBranch
<1>4. /\ Undone = vDisconnect
      /\ Done = vConnect
  BY <1>1, <1>2 DEF Undone, Done, Segment
<1>5. /\ pindexIntermediate \in Block /\ pindexBest \in Block /\ pfork \in Block
      /\ vDisconnect \subseteq Block \ {Genesis} /\ vConnect \subseteq Block \ {Genesis}
      /\ Ancestors[pfork] \subseteq Block
  BY <1>2, AncestorsType DEF TypeOK, Segment
<1>6. \A b \in vDisconnect \cup vConnect : \A a \in Ancestors[pfork] :
        hashPrevBlock[a] # hashPrevBlock[b]
  <2> SUFFICES ASSUME NEW b \in vDisconnect \cup vConnect, NEW a \in Ancestors[pfork],
                      hashPrevBlock[a] = hashPrevBlock[b]
               PROVE  FALSE
    OBVIOUS
  <2>1. /\ pfork \in mapBlockIndex
        /\ b \in mapBlockIndex \ {Genesis}
        /\ nHeight[pfork] < nHeight[b]
    BY <1>2 DEF Segment, mapBlockIndex
  <2>2. /\ a \in mapBlockIndex
        /\ a = pfork \/ nHeight[a] < nHeight[pfork]
    BY <1>1, <2>1, LinkedBranch DEF mapBlockIndex
  <2>3. a # Genesis
    BY <1>5, <2>1, BlockAssumption
  <2>4. /\ nHeight[a] = nHeight[b]
        /\ nHeight[a] \in Nat /\ nHeight[pfork] \in Nat
    BY <1>1, <2>1, <2>2, <2>3 DEF Linked, mapBlockIndex
  <2> QED
    BY <2>1, <2>2, <2>4
<1>7. ASSUME NEW x \in mapBlockIndex, NEW c \in Ancestors[pindexIntermediate],
             hashPrevBlock[c] = x
      PROVE  pnext'[x] = c
  <2>1. CASE c \in vConnect
    BY <1>0, <1>1, <1>4, <1>7, <2>1 DEF TxnInv
  <2>2. CASE c \in Ancestors[pfork]
    <3>1. \A b \in vDisconnect \cup vConnect : hashPrevBlock[b] # x
      BY <1>6, <1>7, <2>2
    <3>2. pnext'[x] = pnext[x]
      BY <1>0, <1>1, <1>4, <3>1 DEF TxnInv
    <3>3. pnext[x] = c
      BY <1>1, <1>3, <1>7, <2>2 DEF CommittedInv, OneChain
    <3> QED
      BY <3>2, <3>3
  <2> QED
    BY <1>3, <2>1, <2>2
<1>8. ASSUME NEW x \in mapBlockIndex,
             \A c \in Ancestors[pindexIntermediate] : hashPrevBlock[c] # x
      PROVE  pnext'[x] = NULL
  <2>1. \A b \in vConnect : hashPrevBlock[b] # x
    BY <1>3, <1>8
  <2>2. CASE \E b \in vDisconnect : hashPrevBlock[b] = x
    BY <1>0, <1>1, <1>4, <2>1, <2>2 DEF TxnInv
  <2>3. CASE \A b \in vDisconnect : hashPrevBlock[b] # x
    <3>1. pnext'[x] = pnext[x]
      BY <1>0, <1>1, <1>4, <2>1, <2>3 DEF TxnInv
    <3>2. pnext[x] = NULL
      BY <1>1, <1>3, <1>8, <2>3 DEF CommittedInv, OneChain
    <3> QED
      BY <3>1, <3>2
  <2> QED
    BY <2>2, <2>3
<1> QED
  BY <1>0, <1>7, <1>8 DEF OneChain

\* Every step keeps one chain on disk.
LEMMA CommittedStep ==
  ASSUME IInv, IInv', CommittedInv, [Next]_vars
  PROVE  CommittedInv'
<1> USE DEF IInv
<1> SUFFICES ASSUME ~ fSecondaryFailed' PROVE CommittedInv'
  BY DEF CommittedInv
<1>1. ~ fSecondaryFailed
  BY DEF Next, Step, vars, history, AcceptBlock, AddToBlockIndexFails, RecordIsLost,
         InsertBlock, SetBestChain, Postpone, Reorganize,
         FindFork, DisconnectTip, ConnectNext, CommitReorganize, ReorganizeFails,
         SetBestChainInner, SetBestChainInnerFails, NewBestBlock, ExtendFault,
         ReorganizeFault, SecondaryFault, Crash, CrashWithHole, LoadChainWork, LoadBestChain
<1>2. /\ Linked(nHeight)
      /\ DOMAIN pnext = mapBlockIndex
      /\ dbHashBestChain \in mapBlockIndex
      /\ OneChain(pnext, dbHashBestChain)
  BY <1>1 DEF IndexInv, TypeOK, mapBlockIndex, CommittedInv
<1>3. ASSUME NEW b \in Block,
             AcceptBlock(b) \/ AddToBlockIndexFails(b) \/ RecordIsLost(b)
      PROVE  CommittedInv'
  <2>1. /\ b \in Block \ DOMAIN pnext
        /\ pnext' = [x \in DOMAIN pnext \cup {b} |-> IF x = b THEN NULL ELSE pnext[x]]
        /\ dbHashBestChain' = dbHashBestChain
        /\ nPhase' # "secondary"
    BY <1>2, <1>3 DEF AcceptBlock, AddToBlockIndexFails, RecordIsLost, InsertBlock, db
  <2>2. \A c \in Ancestors[dbHashBestChain] : hashPrevBlock[c] # b
    <3> SUFFICES ASSUME NEW c \in Ancestors[dbHashBestChain] PROVE hashPrevBlock[c] # b
      OBVIOUS
    <3>1. c \in mapBlockIndex
      BY <1>2, LinkedBranch DEF mapBlockIndex
    <3> QED
      BY <1>2, <2>1, <3>1, BlockAssumption DEF Linked, mapBlockIndex
  <2>3. OneChain(pnext', dbHashBestChain')
    BY <1>2, <2>1, <2>2, OneChainLearns
  <2> QED
    BY <2>1, <2>3 DEF CommittedInv
<1>4. CASE CommitReorganize
  <2>1. OneChain(pnext', pindexIntermediate)
    BY <1>1, <1>4, OneChainMoves
  <2> QED
    BY <1>4, <2>1 DEF CommitReorganize, CommittedInv, locals
<1>5. CASE SetBestChainInner
  <2>1. /\ InnerBlock \in Block \ {Genesis}
        /\ hashPrevBlock[InnerBlock] = dbHashBestChain
    BY <1>1, <1>2, <1>5, InnerBlockIndexed
    DEF SetBestChainInner, CommittedInv, SyncInv, Linked, mapBlockIndex
  <2>2. /\ pnext' = [pnext EXCEPT ![dbHashBestChain] = InnerBlock]
        /\ dbHashBestChain' = InnerBlock
        /\ pindex' = InnerBlock
    BY <1>5, <2>1 DEF SetBestChainInner, TxnInv
  <2>3. OneChain(pnext', dbHashBestChain')
    BY <1>2, <2>1, <2>2, OneChainExtends DEF Linked, mapBlockIndex
  <2> QED
    BY <2>2, <2>3 DEF CommittedInv
<1>7. CASE Crash
  <2>1. /\ pnext' = dbNext /\ dbHashBestChain' = dbHashBestChain /\ nPhase' = "load"
        /\ pnext = [x \in mapBlockIndex |-> Link(dbNext, x)]
        /\ DOMAIN dbNext \subseteq mapBlockIndex
    BY <1>7 DEF Crash, db, SyncInv, Links, TypeOK, IndexInv
  <2>2. \A x \in DOMAIN pnext' : x \in DOMAIN pnext /\ pnext'[x] = pnext[x]
    BY <2>1 DEF Link
  <2>3. OneChain(pnext', dbHashBestChain)
    BY <1>2, <2>2 DEF OneChain
  <2> QED
    BY <2>1, <2>3 DEF CommittedInv
<1>6. CASE /\ UNCHANGED <<pnext, dbHashBestChain>>
           /\ nPhase' = "secondary" => nPhase = "secondary" /\ pindex' = pindex
  BY <1>1, <1>6 DEF CommittedInv
<1> QED
  BY <1>3, <1>4, <1>5, <1>6, <1>7
  DEF Next, Step, vars, memory, db, locals, history, SetBestChain, Postpone, Reorganize,
      FindFork, DisconnectTip, ConnectNext, ReorganizeFails, InvalidChainFound,
      SetBestChainInnerFails, NewBestBlock, ExtendFault, ReorganizeFault,
      SecondaryFault, CrashWithHole, LoadChainWork, LoadBestChain

\* A new database is one.
LEMMA CommittedInit == Init => CommittedInv
<1> SUFFICES ASSUME Init PROVE CommittedInv
  OBVIOUS
<1>1. /\ Ancestors[Genesis] = {Genesis} /\ hashPrevBlock[Genesis] = NULL
      /\ Genesis # NULL
  BY AncestorsStep, BlockAssumption
<1>2. /\ DOMAIN pnext = {Genesis} /\ pnext[Genesis] = NULL
      /\ dbHashBestChain = Genesis /\ nPhase = "idle"
  BY DEF Init
<1> QED
  BY <1>1, <1>2 DEF CommittedInv, OneChain

\* So there is one in every reachable state.
LEMMA CommittedInvariance == Spec => []CommittedInv
<1>1. IInv /\ IInv' /\ CommittedInv /\ [Next]_vars => CommittedInv'
  BY CommittedStep
<1> QED
  BY <1>1, CommittedInit, Invariance, PTL DEF Spec

\* Whatever was relinked, lost or crashed, the blocks below the best one have
\* records, whose successors lead from the first block to the best one and
\* nowhere else, as long as no postponed block failed to connect.
THEOREM DiskHoldsOneChain == Spec => []DatabaseIsOneChain
<1>1. IInv /\ CommittedInv => DatabaseIsOneChain
  <2> SUFFICES ASSUME IInv, CommittedInv, ~ fSecondaryFailed PROVE DatabaseIsOneChain
    BY DEF DatabaseIsOneChain
  <2>1. /\ Linked(nHeight) /\ dbHashBestChain \in mapBlockIndex
        /\ pnext = [x \in mapBlockIndex |-> Link(dbNext, x)]
        /\ DOMAIN dbNext \subseteq mapBlockIndex
    BY DEF IInv, IndexInv, SyncInv, Links, TypeOK
  <2>2. /\ \A x \in mapBlockIndex : pnext[x] = Link(dbNext, x)
        /\ \A x \in mapBlockIndex :
             /\ \A c \in Ancestors[dbHashBestChain] : hashPrevBlock[c] = x => pnext[x] = c
             /\ (\A c \in Ancestors[dbHashBestChain] : hashPrevBlock[c] # x) => pnext[x] = NULL
    BY <2>1 DEF CommittedInv, OneChain
  <2>3. ASSUME NEW c \in Ancestors[dbHashBestChain] \ {Genesis}
        PROVE  hashPrevBlock[c] \in DOMAIN dbNext /\ dbNext[hashPrevBlock[c]] = c
    <3>1. c \in mapBlockIndex
      BY <2>1, LinkedBranch DEF mapBlockIndex
    <3>2. hashPrevBlock[c] \in mapBlockIndex /\ c \in Block /\ c # NULL
      BY <2>1, <3>1, BlockAssumption DEF Linked, mapBlockIndex
    <3>3. Link(dbNext, hashPrevBlock[c]) = c
      BY <2>2, <3>2
    <3> QED
      BY <3>2, <3>3 DEF Link
  <2>4. ASSUME NEW b \in DOMAIN dbNext, dbNext[b] # NULL
        PROVE  dbNext[b] \in Ancestors[dbHashBestChain] /\ hashPrevBlock[dbNext[b]] = b
    <3>1. b \in mapBlockIndex /\ pnext[b] = dbNext[b]
      BY <2>1, <2>2 DEF Link
    <3> QED
      BY <2>2, <2>4, <3>1
  <2> QED
    BY <2>3, <2>4 DEF DatabaseIsOneChain
<1> QED
  BY <1>1, CommittedInvariance, Invariance, PTL

----------------------------------------------------------------------------
(* The recursive definitions of ChainReference.                            *)

\* An output with the height of the block that made it.
Coin == [out : Tx \X Nat, height : Nat]

\* What Replay passes from block to block.
State == [ok : BOOLEAN, coins : SUBSET Coin]

\* The outputs of a set of coins.
Outs(coins) == {c.out : c \in coins}

\* The coins transaction t takes out of a set.
Taken(coins, t) == {c \in coins : c.out \in vin[t]}

\* Paying keeps the type.
LEMMA PayType ==
  ASSUME NEW s \in State, NEW t \in Tx, NEW h \in Nat
  PROVE  Pay(s, t, h) \in State
<1>1. Outputs(t) \subseteq Nat
  BY TxAssumption DEF Outputs
<1>2. {[out |-> <<t, n>>, height |-> h] : n \in Outputs(t)} \subseteq Coin
  BY <1>1 DEF Coin
<1>3. (s.coins \ Taken(s.coins, t)) \cup {[out |-> <<t, n>>, height |-> h] : n \in Outputs(t)}
         \in SUBSET Coin
  BY <1>2 DEF State
<1> QED
  BY <1>3 DEF Pay, State, Taken

\* PayAll pays one transaction after the other.
LEMMA PayAllDef ==
  ASSUME NEW s \in State, NEW b \in Block
  PROVE  \E paid \in [0..Len(vtx[b]) -> State] :
           /\ paid[0] = s
           /\ \A i \in 1..Len(vtx[b]) : paid[i] = Pay(paid[i - 1], vtx[b][i], Height(b))
           /\ PayAll(s, b) = paid[Len(vtx[b])]
<1> DEFINE n == Len(vtx[b])
           D == 0..n
           p == [i \in D |-> i - 1]
           G == [i \in D |-> [v \in State |-> IF i = 0 THEN v ELSE Pay(v, vtx[b][i], Height(b))]]
           paid == CHOOSE f : f = [i \in 0..n |-> IF i = 0 THEN s
                                     ELSE Pay(f[i - 1], vtx[b][i], Height(b))]
<1>1. n \in Nat /\ \A i \in 1..n : vtx[b][i] \in Tx
  BY TxAssumption
<1>2. IsRule(G, D, State)
  <2>1. \A i \in D : \A v \in State : G[i][v] \in State
    BY <1>1, PayType, HeightStep
  <2> QED
    BY <2>1 DEF IsRule
<1>3. Grounded(D, 0, p)
  BY <1>1, CountdownGrounded
<1>4. PICK f \in [D -> State] : \A i \in D : f[i] = IF i = 0 THEN s ELSE G[i][f[p[i]]]
  <2> HIDE DEF D, p, G
  <2> QED
    BY <1>2, <1>3, WalkRecursion
<1>5. f = [i \in 0..n |-> IF i = 0 THEN s ELSE Pay(f[i - 1], vtx[b][i], Height(b))]
  <2>1. ASSUME NEW i \in D, i # 0
        PROVE  f[i] = Pay(f[i - 1], vtx[b][i], Height(b))
    <3>1. i - 1 \in D /\ p[i] = i - 1
      BY <1>1, <2>1
    <3>2. f[i - 1] \in State
      BY <3>1
    <3> QED
      BY <1>4, <2>1, <3>1, <3>2
  <2> QED
    BY <1>4, <2>1
<1>6. paid = [i \in 0..n |-> IF i = 0 THEN s ELSE Pay(paid[i - 1], vtx[b][i], Height(b))]
  BY <1>5
<1>7. PayAll(s, b) = paid[n]
  BY DEF PayAll
<1> HIDE DEF paid
<1>8. /\ paid[0] = s
      /\ \A i \in 1..n : paid[i] = Pay(paid[i - 1], vtx[b][i], Height(b))
  BY <1>1, <1>6
<1>9. \A i \in 0..n : paid[i] \in State
  <2> DEFINE S == {i \in 0..n : paid[i] \in State}
  <2>1. 0 \in S
    BY <1>1, <1>8
  <2>2. \A i \in 1..n : i - 1 \in S => i \in S
    BY <1>1, <1>8, PayType, HeightStep
  <2> HIDE DEF S
  <2>3. 0..n \subseteq S
    BY <1>1, <2>1, <2>2, CountInduction
  <2> QED
    BY <2>3 DEF S
<1>10. paid \in [0..n -> State]
  BY <1>6, <1>9
<1> QED
  BY <1>7, <1>8, <1>10

\* What a block starts from: the coins of its predecessor, valid as long as
\* its own checks and those of the branch below it pass.
Start(before, b) ==
  [ok |-> /\ before.ok
          /\ b \notin BadValue
          /\ Height(b) > GetTotalBlocksEstimate => b \notin BadSig
          /\ \A c \in before.coins : c.out[1] \notin Transactions(b),
   coins |-> before.coins]

\* The recursive definition of Replay defines a function.
LEMMA ReplayDef ==
  \A b \in Block :
    /\ Replay[b] \in State
    /\ b = Genesis => Replay[b] = [ok |-> TRUE, coins |-> {}]
    /\ b # Genesis => Replay[b] = PayAll(Start(Replay[hashPrevBlock[b]], b), b)
<1> DEFINE e == [ok |-> TRUE, coins |-> {}]
           G == [b \in Block |-> [v \in State |-> PayAll(Start(v, b), b)]]
<1>1. ASSUME NEW b \in Block, NEW v \in State
      PROVE  PayAll(Start(v, b), b) \in State
  <2>1. Start(v, b) \in State
    BY DEF Start, State
  <2>2. Len(vtx[b]) \in 0..Len(vtx[b])
    BY TxAssumption
  <2> QED
    BY <2>1, <2>2, PayAllDef
<1>2. e \in State /\ IsRule(G, Block, State)
  BY <1>1 DEF State, IsRule
<1>3. PICK f \in [Block -> State] :
        \A b \in Block : f[b] = IF b = Genesis THEN e ELSE G[b][f[hashPrevBlock[b]]]
  <2> HIDE DEF e, G
  <2> QED
    BY <1>2, TreeGrounded, WalkRecursion
<1>4. \A b \in Block : f[b] = IF b = Genesis THEN e
                              ELSE PayAll(Start(f[hashPrevBlock[b]], b), b)
  <2>1. \A b \in Block \ {Genesis} : f[hashPrevBlock[b]] \in State
    BY BlockAssumption
  <2>2. \A b \in Block \ {Genesis} :
          G[b][f[hashPrevBlock[b]]] = PayAll(Start(f[hashPrevBlock[b]], b), b)
    BY <2>1
  <2> HIDE DEF e, G
  <2> QED
    BY <1>3, <2>2
<1>5. f = [b \in Block |-> IF b = Genesis THEN e ELSE PayAll(Start(f[hashPrevBlock[b]], b), b)]
  BY <1>4
<1>6. Replay = [b \in Block |-> IF b = Genesis THEN e
                                ELSE PayAll(Start(Replay[hashPrevBlock[b]], b), b)]
  BY <1>5 DEF Replay, Start
<1>7. Replay[Genesis] = e /\ \A b \in Block \ {Genesis} :
                               Replay[b] = PayAll(Start(Replay[hashPrevBlock[b]], b), b)
  BY <1>6, BlockAssumption
<1> DEFINE S == {b \in Block : Replay[b] \in State}
<1>8. Block \subseteq S
  <2>1. Genesis \in S
    BY <1>2, <1>7, BlockAssumption
  <2>2. \A b \in Block \ {Genesis} : hashPrevBlock[b] \in S => b \in S
    BY <1>1, <1>7
  <2> HIDE DEF S
  <2> QED
    BY <2>1, <2>2, TreeGrounded, WalkInduction
<1> QED
  BY <1>7, <1>8

----------------------------------------------------------------------------
(* What the transactions of a block do to the coins C before it.           *)

\* No coin is an output of a transaction of b (BIP30).
Fresh(b, C) == \A c \in C : c.out[1] \notin Transactions(b)

\* The i-th transaction of b spends only what is there: outputs of the
\* transactions of b before it, or coins, and none that b has spent.
FitsTx(b, i, C) ==
  \A in \in vin[vtx[b][i]] :
    /\ in \notin SpentBefore(b, i)
    /\ IF in[1] \in Earlier(b, i) THEN in[2] \in Outputs(in[1])
       ELSE in[1] \notin Transactions(b) /\ in \in Outs(C)

\* The outputs of the transactions of b before the i-th.
Made(b, i) ==
  {c \in Coin : /\ c.height = Height(b)
                /\ c.out[1] \in Earlier(b, i)
                /\ c.out[2] \in Outputs(c.out[1])}

\* The coins that are left before the i-th transaction of b.
Left(b, i, C) == {c \in C \cup Made(b, i) : c.out \notin SpentBefore(b, i)}

\* The coinbase outputs that the i-th transaction spends are old enough.
MatureTx(b, i, C) ==
  \A c \in Left(b, i, C) :
    c.out \in vin[vtx[b][i]] /\ c.out[1] \in CoinBase =>
      Height(b) - c.height >= COINBASE_MATURITY

\* A block's transactions, and what those before one of them are and spend.
LEMMA EarlierStep ==
  ASSUME NEW b \in Block, NEW i \in 1..Len(vtx[b])
  PROVE  /\ vtx[b][i] \in Tx
         /\ vtx[b][i] \in Transactions(b)
         /\ Earlier(b, i + 1) = Earlier(b, i) \cup {vtx[b][i]}
         /\ SpentBefore(b, i + 1) = SpentBefore(b, i) \cup vin[vtx[b][i]]
         /\ Earlier(b, i) \subseteq Transactions(b)
         /\ vtx[b][i] \notin Earlier(b, i)
<1>1. /\ vtx[b] \in Seq(Tx)
      /\ Len(vtx[b]) \in Nat
      /\ DOMAIN vtx[b] = 1..Len(vtx[b])
  BY TxAssumption
<1>2. vtx[b][i] \in Tx /\ vtx[b][i] \in Transactions(b)
  BY <1>1 DEF Transactions
<1>3. 1..((i + 1) - 1) = (1..(i - 1)) \cup {i}
  OBVIOUS
<1>4. Earlier(b, i + 1) = Earlier(b, i) \cup {vtx[b][i]}
  BY <1>3 DEF Earlier
<1>5. SpentBefore(b, i + 1) = SpentBefore(b, i) \cup vin[vtx[b][i]]
  BY <1>3 DEF SpentBefore
<1>6. Earlier(b, i) \subseteq Transactions(b)
  BY <1>1 DEF Earlier, Transactions
<1>7. vtx[b][i] \notin Earlier(b, i)
  BY <1>1, UniqueTxAssumption DEF Earlier
<1> QED
  BY <1>2, <1>4, <1>5, <1>6, <1>7

\* Before the first transaction nothing is earlier.
LEMMA EarlierFirst ==
  ASSUME NEW b \in Block, NEW C \in SUBSET Coin
  PROVE  Left(b, 1, C) = C
BY DEF Left, Made, Earlier, SpentBefore

\* A transaction of b whose transactions so far fit is not spent by them.
LEMMA OwnUnspent ==
  ASSUME NEW b \in Block, NEW C, NEW i \in 1..Len(vtx[b]),
         \A k \in 1..i : FitsTx(b, k, C),
         NEW in \in SpentBefore(b, i + 1)
  PROVE  in[1] # vtx[b][i]
<1>1. PICK k \in 1..i : in \in vin[vtx[b][k]]
  BY DEF SpentBefore
<1>2. k \in 1..Len(vtx[b]) /\ 1..(k - 1) \subseteq 1..(i - 1)
  BY TxAssumption
<1>3. vtx[b][i] \in Transactions(b) /\ vtx[b][i] \notin Earlier(b, i)
  BY EarlierStep
<1>4. Earlier(b, k) \subseteq Earlier(b, i)
  BY <1>2 DEF Earlier
<1> QED
  BY <1>1, <1>3, <1>4 DEF FitsTx

\* One transaction that fits takes its coins and leaves its outputs.
LEMMA LeftStep ==
  ASSUME NEW b \in Block, NEW C \in SUBSET Coin, NEW i \in 1..Len(vtx[b]),
         \A k \in 1..i : FitsTx(b, k, C),
         NEW s, s.coins = Left(b, i, C)
  PROVE  Pay(s, vtx[b][i], Height(b)).coins = Left(b, i + 1, C)
<1> DEFINE t == vtx[b][i]
           new == {[out |-> <<t, n>>, height |-> Height(b)] : n \in Outputs(t)}
<1>1. /\ t \in Tx
      /\ Earlier(b, i + 1) = Earlier(b, i) \cup {t}
      /\ SpentBefore(b, i + 1) = SpentBefore(b, i) \cup vin[t]
  BY EarlierStep
<1>2. \A in \in SpentBefore(b, i + 1) : in[1] # t
  BY OwnUnspent
<1>3. Height(b) \in Nat /\ Outputs(t) \subseteq Nat
  BY HeightStep, TxAssumption, <1>1 DEF Outputs
<1>4. \A c : c \in Coin => c.out = <<c.out[1], c.out[2]>>
                           /\ c = [out |-> c.out, height |-> c.height]
  BY DEF Coin
<1>5. Made(b, i + 1) = Made(b, i) \cup new
  <2>1. \A c \in new : c \in Coin /\ c.height = Height(b) /\ c.out[1] = t /\ c.out[2] \in Outputs(t)
    BY <1>1, <1>3 DEF Coin
  <2>2. ASSUME NEW c \in Coin, c.height = Height(b), c.out[1] = t, c.out[2] \in Outputs(t)
        PROVE  c \in new
    <3>1. c = [out |-> <<t, c.out[2]>>, height |-> Height(b)]
      BY <1>4, <2>2
    <3> QED
      BY <2>2, <3>1
  <2> QED
    BY <1>1, <2>1, <2>2 DEF Made
<1>6. \A c \in new : c.out \notin SpentBefore(b, i + 1)
  BY <1>2
<1>7. Left(b, i + 1, C) = {c \in Left(b, i, C) : c.out \notin vin[t]} \cup new
  BY <1>1, <1>5, <1>6 DEF Left
<1>8. Pay(s, t, Height(b)).coins = (s.coins \ Taken(s.coins, t)) \cup new
  BY DEF Pay, Taken
<1> QED
  BY <1>7, <1>8 DEF Taken

\* A transaction fits exactly when each of its inputs is one of the coins left.
LEMMA FitsPays ==
  ASSUME NEW b \in Block, NEW C \in SUBSET Coin, Fresh(b, C), NEW i \in 1..Len(vtx[b])
  PROVE  FitsTx(b, i, C) <=> vin[vtx[b][i]] = Outs(Taken(Left(b, i, C), vtx[b][i]))
<1> DEFINE t == vtx[b][i]
           L == Left(b, i, C)
<1>1. /\ t \in Tx
      /\ Earlier(b, i) \subseteq Transactions(b)
      /\ Transactions(b) \subseteq Tx
      /\ Height(b) \in Nat
      /\ vin[t] \subseteq Tx \X Nat
  BY EarlierStep, TransactionsType, HeightStep, TxAssumption
<1>2. ASSUME FitsTx(b, i, C), NEW in \in vin[t] PROVE \E c \in L : c.out = in
  <2>1. CASE in[1] \in Earlier(b, i)
    <3> DEFINE c == [out |-> in, height |-> Height(b)]
    <3>1. c \in Coin /\ c.out = in /\ c.height = Height(b)
      BY <1>1 DEF Coin
    <3>2. c \in L
      BY <1>2, <2>1, <3>1 DEF FitsTx, Left, Made
    <3> QED
      BY <3>1, <3>2
  <2>2. CASE in[1] \notin Earlier(b, i)
    <3>1. PICK c \in C : c.out = in
      BY <1>2, <2>2 DEF FitsTx, Outs
    <3> QED
      BY <1>2, <3>1 DEF FitsTx, Left
  <2> QED
    BY <2>1, <2>2
<1>3. ASSUME NEW c \in L, c.out \in vin[t]
      PROVE  /\ c.out \notin SpentBefore(b, i)
             /\ IF c.out[1] \in Earlier(b, i) THEN c.out[2] \in Outputs(c.out[1])
                ELSE c.out[1] \notin Transactions(b) /\ c.out \in Outs(C)
  BY <1>1, <1>3 DEF Left, Made, Fresh, Outs
<1>4. Outs(Taken(L, t)) = {in \in vin[t] : \E c \in L : c.out = in}
  BY DEF Outs, Taken
<1>5. ASSUME \A in \in vin[t] : \E c \in L : c.out = in
      PROVE  FitsTx(b, i, C)
  BY <1>3, <1>5 DEF FitsTx
<1> QED
  BY <1>2, <1>4, <1>5

\* What all the transactions of a block make of its start.
LEMMA PaidState ==
  ASSUME NEW b \in Block, NEW s \in State, Fresh(b, s.coins)
  PROVE  /\ (\A k \in 1..Len(vtx[b]) : FitsTx(b, k, s.coins)) =>
              PayAll(s, b).coins = Left(b, Len(vtx[b]) + 1, s.coins)
         /\ PayAll(s, b).ok <=>
              s.ok /\ \A k \in 1..Len(vtx[b]) : /\ FitsTx(b, k, s.coins)
                                                /\ MatureTx(b, k, s.coins)
<1> DEFINE n == Len(vtx[b])
           C == s.coins
<1>1. PICK paid \in [0..n -> State] :
        /\ paid[0] = s
        /\ \A i \in 1..n : paid[i] = Pay(paid[i - 1], vtx[b][i], Height(b))
        /\ PayAll(s, b) = paid[n]
  BY PayAllDef
<1>2. C \in SUBSET Coin /\ n \in Nat
  BY TxAssumption DEF State
<1> DEFINE Fit(i) == \A k \in 1..i : FitsTx(b, k, C)
           S == {i \in 0..n : /\ Fit(i) => paid[i].coins = Left(b, i + 1, C)
                              /\ paid[i].ok <=> s.ok /\ \A k \in 1..i : /\ FitsTx(b, k, C)
                                                                        /\ MatureTx(b, k, C)}
<1>3. 0 \in S
  BY <1>1, <1>2, EarlierFirst
<1>4. ASSUME NEW i \in 1..n, i - 1 \in S PROVE i \in S
  <2> DEFINE t == vtx[b][i]
             q == paid[i - 1]
  <2>1. /\ 1..i = (1..(i - 1)) \cup {i}
        /\ (i - 1) + 1 = i
        /\ i \in 0..n /\ i - 1 \in 0..n
        /\ paid[i] = Pay(q, t, Height(b))
    BY <1>1, <1>2
  <2>2. ASSUME Fit(i - 1) PROVE q.coins = Left(b, i, C)
    BY <1>4, <2>1, <2>2
  <2>3. ASSUME Fit(i) PROVE paid[i].coins = Left(b, i + 1, C)
    BY <1>2, <2>1, <2>2, <2>3, LeftStep
  <2>4. paid[i].ok <=> /\ q.ok
                       /\ vin[t] = Outs(Taken(q.coins, t))
                       /\ \A c \in Taken(q.coins, t) :
                            c.out[1] \in CoinBase => Height(b) - c.height >= COINBASE_MATURITY
    BY <2>1 DEF Pay, Outs, Taken
  <2>5. q.ok <=> s.ok /\ \A k \in 1..(i - 1) : /\ FitsTx(b, k, C)
                                               /\ MatureTx(b, k, C)
    BY <1>4
  <2>6. ASSUME Fit(i - 1)
        PROVE  /\ vin[t] = Outs(Taken(q.coins, t)) <=> FitsTx(b, i, C)
               /\ (\A c \in Taken(q.coins, t) :
                     c.out[1] \in CoinBase => Height(b) - c.height >= COINBASE_MATURITY)
                  <=> MatureTx(b, i, C)
    <3>1. q.coins = Left(b, i, C)
      BY <2>2, <2>6
    <3>2. vin[t] = Outs(Taken(q.coins, t)) <=> FitsTx(b, i, C)
      BY <1>2, <3>1, FitsPays
    <3> QED
      BY <3>1, <3>2 DEF Taken, MatureTx
  <2>7. paid[i].ok <=> s.ok /\ \A k \in 1..i : FitsTx(b, k, C) /\ MatureTx(b, k, C)
    BY <2>1, <2>4, <2>5, <2>6
  <2> QED
    BY <2>1, <2>3, <2>7
<1> HIDE DEF S
<1>5. 0..n \subseteq S
  BY <1>2, <1>3, <1>4, CountInduction
<1>6. n \in S
  BY <1>2, <1>5
<1> QED
  BY <1>1, <1>6 DEF S

\* Once invalid, always invalid.
LEMMA PaidNotOk ==
  ASSUME NEW b \in Block, NEW s \in State, ~ s.ok
  PROVE  ~ PayAll(s, b).ok
<1> DEFINE n == Len(vtx[b])
<1>1. PICK paid \in [0..n -> State] :
        /\ paid[0] = s
        /\ \A i \in 1..n : paid[i] = Pay(paid[i - 1], vtx[b][i], Height(b))
        /\ PayAll(s, b) = paid[n]
  BY PayAllDef
<1> DEFINE S == {i \in 0..n : ~ paid[i].ok}
<1>2. n \in Nat
  BY TxAssumption
<1>3. 0 \in S
  BY <1>1, <1>2
<1>4. ASSUME NEW i \in 1..n, i - 1 \in S PROVE i \in S
  <2>1. ~ paid[i - 1].ok /\ paid[i] = Pay(paid[i - 1], vtx[b][i], Height(b))
    BY <1>1, <1>4
  <2>2. paid[i].ok => paid[i - 1].ok
    BY <2>1 DEF Pay
  <2> QED
    BY <1>2, <2>1, <2>2
<1> HIDE DEF S
<1>5. 0..n \subseteq S
  BY <1>2, <1>3, <1>4, CountInduction
<1>6. n \in S
  BY <1>2, <1>5
<1> QED
  BY <1>1, <1>6 DEF S

----------------------------------------------------------------------------
(* Replay, one block further.                                              *)

\* The transactions of b can be paid after the branch below it.
FitsBlock(b) ==
  LET C == Replay[hashPrevBlock[b]].coins
  IN  /\ Fresh(b, C)
      /\ \A i \in 1..Len(vtx[b]) : FitsTx(b, i, C)

\* The coinbase outputs b spends are old enough.
Matures(b) ==
  \A i \in 1..Len(vtx[b]) : MatureTx(b, i, Replay[hashPrevBlock[b]].coins)

\* What ConnectBlock checks of b apart from its inputs.
Checked(b) ==
  /\ b \notin BadValue
  /\ Height(b) > GetTotalBlocksEstimate => b \notin BadSig

\* What all the transactions of b spend.
Spent(b) == SpentBefore(b, Len(vtx[b]) + 1)

\* Every transaction of a block comes before the end.
LEMMA EarlierAll ==
  ASSUME NEW b \in Block
  PROVE  /\ Earlier(b, Len(vtx[b]) + 1) = Transactions(b)
         /\ DOMAIN vtx[b] = 1..Len(vtx[b])
         /\ Len(vtx[b]) \in Nat
<1>1. DOMAIN vtx[b] = 1..Len(vtx[b]) /\ Len(vtx[b]) \in Nat
  BY TxAssumption
<1> QED
  BY <1>1 DEF Earlier, Transactions

\* A block that fits changes the coins as its transactions say, and the branch
\* is valid as long as every block passes.
LEMMA ReplayStep ==
  ASSUME NEW b \in Block \ {Genesis}
  PROVE  /\ FitsBlock(b) => Replay[b].coins = Left(b, Len(vtx[b]) + 1, Replay[hashPrevBlock[b]].coins)
         /\ Replay[b].ok <=> /\ Replay[hashPrevBlock[b]].ok
                             /\ Checked(b)
                             /\ FitsBlock(b)
                             /\ Matures(b)
<1> DEFINE before == Replay[hashPrevBlock[b]]
           s == Start(before, b)
<1>1. hashPrevBlock[b] \in Block /\ before \in State /\ Replay[b] = PayAll(s, b)
  BY ReplayDef, BlockAssumption
<1>2. /\ s \in State
      /\ s.coins = before.coins
      /\ s.ok <=> before.ok /\ Checked(b) /\ Fresh(b, before.coins)
  BY <1>1 DEF Start, State, Checked, Fresh
<1>3. CASE Fresh(b, before.coins)
  <2>1. /\ (\A k \in 1..Len(vtx[b]) : FitsTx(b, k, before.coins)) =>
              Replay[b].coins = Left(b, Len(vtx[b]) + 1, before.coins)
        /\ Replay[b].ok <=>
              s.ok /\ \A k \in 1..Len(vtx[b]) : /\ FitsTx(b, k, before.coins)
                                                /\ MatureTx(b, k, before.coins)
    BY <1>1, <1>2, <1>3, PaidState
  <2> QED
    BY <1>2, <1>3, <2>1 DEF FitsBlock, Matures
<1>4. CASE ~ Fresh(b, before.coins)
  BY <1>1, <1>2, <1>4, PaidNotOk DEF FitsBlock
<1> QED
  BY <1>3, <1>4

\* The same for the outputs alone.
LEMMA CoinsStep ==
  ASSUME NEW b \in Block \ {Genesis}, FitsBlock(b), NEW o
  PROVE  o \in Coins(b) <=>
           /\ o \notin Spent(b)
           /\ \/ o \in Coins(hashPrevBlock[b])
              \/ \E t \in Transactions(b) : \E n \in Outputs(t) : o = <<t, n>>
<1> DEFINE C == Replay[hashPrevBlock[b]].coins
           L == Left(b, Len(vtx[b]) + 1, C)
<1>1. /\ hashPrevBlock[b] \in Block
      /\ C \in SUBSET Coin
      /\ Replay[b].coins = L
      /\ Transactions(b) \subseteq Tx
      /\ Height(b) \in Nat
  BY ReplayDef, ReplayStep, BlockAssumption, TransactionsType, HeightStep DEF State
<1>2. L = {c \in C \cup Made(b, Len(vtx[b]) + 1) : c.out \notin Spent(b)}
  BY DEF Left, Spent
<1>3. ASSUME NEW c \in Made(b, Len(vtx[b]) + 1)
      PROVE  \E t \in Transactions(b) : \E n \in Outputs(t) : c.out = <<t, n>>
  <2>1. c.out \in Tx \X Nat /\ c.out[1] \in Transactions(b) /\ c.out[2] \in Outputs(c.out[1])
    BY EarlierAll DEF Made, Coin
  <2>2. c.out = <<c.out[1], c.out[2]>>
    BY <2>1
  <2> QED
    BY <2>1, <2>2
<1>4. ASSUME NEW t \in Transactions(b), NEW n \in Outputs(t)
      PROVE  \E c \in Made(b, Len(vtx[b]) + 1) : c.out = <<t, n>>
  <2> DEFINE c == [out |-> <<t, n>>, height |-> Height(b)]
  <2>1. n \in Nat
    BY <1>1, TxAssumption DEF Outputs
  <2>2. /\ c \in Coin /\ c.height = Height(b)
        /\ c.out = <<t, n>> /\ c.out[1] = t /\ c.out[2] = n
    BY <1>1, <2>1 DEF Coin
  <2>3. c \in Made(b, Len(vtx[b]) + 1)
    BY <2>2, EarlierAll DEF Made
  <2> QED
    BY <2>2, <2>3
<1>5. ASSUME o \in Coins(b)
      PROVE  /\ o \notin Spent(b)
             /\ \/ o \in Coins(hashPrevBlock[b])
                \/ \E t \in Transactions(b) : \E n \in Outputs(t) : o = <<t, n>>
  <2>1. PICK c \in L : c.out = o
    BY <1>1, <1>5 DEF Coins
  <2> QED
    BY <1>2, <1>3, <2>1 DEF Coins
<1>6. ASSUME o \notin Spent(b), o \in Coins(hashPrevBlock[b])
      PROVE  o \in Coins(b)
  BY <1>1, <1>2, <1>6 DEF Coins
<1>7. ASSUME o \notin Spent(b), NEW t \in Transactions(b), NEW n \in Outputs(t), o = <<t, n>>
      PROVE  o \in Coins(b)
  BY <1>1, <1>2, <1>4, <1>7 DEF Coins
<1> QED
  BY <1>5, <1>6, <1>7

----------------------------------------------------------------------------
(* The transaction index and the branch it was built from.                 *)

\* a is the last block of the branch of b, the first block apart, that holds t.
Newest(a, t, b) ==
  /\ a \in Ancestors[b] \ {Genesis}
  /\ t \in Transactions(a)
  /\ \A c \in Ancestors[b] \ {Genesis} : t \in Transactions(c) => Height(c) <= Height(a)

\* txindex is what connecting the blocks of the branch of b one after the
\* other leaves, up to records a block that was disconnected again has
\* overwritten and erased.
Reflects(txindex, b) ==
  /\ IsTxIndex(txindex)
  /\ Unspent(txindex) = Coins(b)
  /\ \A a \in Ancestors[b] \ {Genesis} : FitsBlock(a)
  /\ \A t \in DOMAIN txindex : Newest(txindex[t].pos, t, b)

\* The outputs an index describes as unspent.
LEMMA InUnspent ==
  ASSUME NEW txindex, NEW t, NEW n
  PROVE  <<t, n>> \in Unspent(txindex) <=>
           t \in DOMAIN txindex /\ n \in Outputs(t) /\ n \notin txindex[t].vSpent
BY DEF Unspent

\* The same, for any output.
LEMMA UnspentPairs ==
  ASSUME NEW txindex, NEW o
  PROVE  o \in Unspent(txindex) <=>
           \E t \in DOMAIN txindex : \E n \in Outputs(t) :
             o = <<t, n>> /\ n \notin txindex[t].vSpent
BY DEF Unspent

\* What a block spends, output by output.
LEMMA SpentPairs ==
  ASSUME NEW b \in Block, NEW t, NEW n
  PROVE  n \in SpentIn(b, t) <=> <<t, n>> \in Spent(b)
<1>1. \A in \in Spent(b) : in = <<in[1], in[2]>>
  BY TxAssumption DEF Spent, SpentBefore
<1> QED
  BY <1>1 DEF SpentIn, Spent

\* An input of a transaction is spent by its block.
LEMMA SpentByOne ==
  ASSUME NEW b \in Block, NEW in
  PROVE  in \in Spent(b) <=> \E i \in 1..Len(vtx[b]) : in \in vin[vtx[b][i]]
<1>1. 1..((Len(vtx[b]) + 1) - 1) = 1..Len(vtx[b])
  BY EarlierAll
<1> QED
  BY <1>1 DEF Spent, SpentBefore

\* A block that ConnectBlock accepts can be paid by the branch below it.
LEMMA ConnectFits ==
  ASSUME NEW b \in Block \ {Genesis}, NEW txindex, NEW fSig,
         Reflects(txindex, hashPrevBlock[b]),
         ConnectBlock(b, txindex, fSig)
  PROVE  FitsBlock(b)
<1> DEFINE pr == hashPrevBlock[b]
           C == Replay[pr].coins
<1>1. /\ pr \in Block /\ C \in SUBSET Coin
      /\ Unspent(txindex) = Outs(C)
      /\ Transactions(b) \subseteq Tx
      /\ DOMAIN vtx[b] = 1..Len(vtx[b])
  BY ReplayDef, BlockAssumption, TransactionsType, EarlierAll
  DEF State, Reflects, Coins, Outs
<1>2. \A t \in Transactions(b) \cap DOMAIN txindex : Outputs(t) \subseteq txindex[t].vSpent
  BY DEF ConnectBlock, EnforceBIP30
<1>3. Fresh(b, C)
  <2> SUFFICES ASSUME NEW c \in C, c.out[1] \in Transactions(b) PROVE FALSE
    BY DEF Fresh
  <2>1. c.out \in Unspent(txindex) /\ c.out = <<c.out[1], c.out[2]>>
    BY <1>1 DEF Outs, Coin
  <2> QED
    BY <1>2, <2>1, InUnspent
<1>4. ASSUME NEW i \in 1..Len(vtx[b]) PROVE FitsTx(b, i, C)
  <2>1. FetchInputs(b, i, txindex) /\ ConnectInputs(b, i, txindex)
    BY <1>1 DEF ConnectBlock
  <2>2. vin[vtx[b][i]] \subseteq Tx \X Nat
    BY EarlierStep, TxAssumption
  <2> SUFFICES ASSUME NEW in \in vin[vtx[b][i]]
               PROVE  /\ in \notin SpentBefore(b, i)
                      /\ IF in[1] \in Earlier(b, i) THEN in[2] \in Outputs(in[1])
                         ELSE in[1] \notin Transactions(b) /\ in \in Outs(C)
    BY DEF FitsTx
  <2>3. in \notin SpentBefore(b, i) /\ in[2] \in Outputs(in[1])
    BY <2>1 DEF ConnectInputs, FetchInputs
  <2>4. ASSUME in[1] \notin Earlier(b, i)
        PROVE  in[1] \notin Transactions(b) /\ in \in Outs(C)
    <3>1. in[1] \in DOMAIN txindex /\ in[2] \notin txindex[in[1]].vSpent
      BY <2>1, <2>4 DEF ConnectInputs, FetchInputs
    <3>2. in[1] \notin Transactions(b)
      BY <1>2, <2>3, <3>1
    <3>3. <<in[1], in[2]>> \in Unspent(txindex) /\ in = <<in[1], in[2]>>
      BY <2>2, <2>3, <3>1, InUnspent
    <3> QED
      BY <1>1, <3>2, <3>3
  <2> QED
    BY <2>3, <2>4
<1> QED
  BY <1>3, <1>4 DEF FitsBlock

\* Connecting a block makes the index that of the longer branch.
LEMMA ConnectReflects ==
  ASSUME NEW b \in Block \ {Genesis}, NEW txindex, NEW fSig,
         Reflects(txindex, hashPrevBlock[b]),
         ConnectBlock(b, txindex, fSig)
  PROVE  Reflects(Connected(b, txindex), b)
<1> DEFINE pr == hashPrevBlock[b]
           new == Connected(b, txindex)
<1>1. /\ pr \in Block
      /\ Ancestors[b] = {b} \cup Ancestors[pr]
      /\ Ancestors[pr] \subseteq Block
      /\ IsTxIndex(txindex)
      /\ FitsBlock(b)
  BY ConnectFits, AncestorsStep, AncestorsType DEF Reflects
<1>2. IsTxIndex(new)
  BY <1>1, ConnectedType
<1>3. /\ DOMAIN new = DOMAIN txindex \cup Transactions(b)
      /\ \A t \in Transactions(b) : new[t].pos = b /\ new[t].vSpent = SpentIn(b, t)
      /\ \A t \in DOMAIN txindex \ Transactions(b) :
           /\ new[t].pos = txindex[t].pos
           /\ new[t].vSpent = txindex[t].vSpent \cup SpentIn(b, t)
  BY DEF Connected
<1>4. ASSUME NEW o PROVE o \in Unspent(new) <=> o \in Coins(b)
  <2>1. o \in Coins(b) <=> /\ o \notin Spent(b)
                           /\ \/ o \in Unspent(txindex)
                              \/ \E t \in Transactions(b) : \E n \in Outputs(t) : o = <<t, n>>
    BY <1>1, CoinsStep DEF Reflects
  <2>2. ASSUME NEW t, NEW n, o = <<t, n>> PROVE o \in Unspent(new) <=> o \in Coins(b)
    <3>1. CASE t \in Transactions(b)
      <4>1. o \in Unspent(new) <=> n \in Outputs(t) /\ o \notin Spent(b)
        BY <1>3, <2>2, <3>1, InUnspent, SpentPairs
      <4>2. o \in Unspent(txindex) => n \in Outputs(t)
        BY <2>2, InUnspent
      <4>3. (\E tt \in Transactions(b) : \E nn \in Outputs(tt) : o = <<tt, nn>>) <=> n \in Outputs(t)
        BY <2>2, <3>1
      <4> QED
        BY <2>1, <4>1, <4>2, <4>3
    <3>2. CASE t \notin Transactions(b)
      <4>1. o \in Unspent(new) <=> o \in Unspent(txindex) /\ o \notin Spent(b)
        BY <1>3, <2>2, <3>2, InUnspent, SpentPairs
      <4>2. ~ \E tt \in Transactions(b) : \E nn \in Outputs(tt) : o = <<tt, nn>>
        BY <2>2, <3>2
      <4> QED
        BY <2>1, <4>1, <4>2
    <3> QED
      BY <3>1, <3>2
  <2>3. o \in Unspent(new) => \E t, n : o = <<t, n>>
    BY UnspentPairs
  <2>4. o \in Coins(b) => \E t, n : o = <<t, n>>
    BY <2>1, UnspentPairs
  <2> QED
    BY <2>2, <2>3, <2>4
<1>5. \A a \in Ancestors[b] \ {Genesis} : FitsBlock(a)
  BY <1>1 DEF Reflects
<1>6. ASSUME NEW t \in DOMAIN new PROVE Newest(new[t].pos, t, b)
  <2>1. ASSUME NEW c \in Ancestors[b] PROVE Height(c) <= Height(b)
    <3>1. c \in Block /\ Height(c) \in Nat /\ Height(b) \in Nat
      BY AncestorsType, HeightStep
    <3>2. c = b \/ Height(c) < Height(b)
      BY BranchIsLine
    <3> QED
      BY <3>1, <3>2
  <2>2. CASE t \in Transactions(b)
    BY <1>1, <1>3, <2>1, <2>2 DEF Newest
  <2>3. CASE t \notin Transactions(b)
    <3>1. t \in DOMAIN txindex /\ Newest(txindex[t].pos, t, pr) /\ new[t].pos = txindex[t].pos
      BY <1>3, <2>3 DEF Reflects
    <3> QED
      BY <1>1, <2>3, <3>1 DEF Newest
  <2> QED
    BY <2>2, <2>3
<1> QED
  BY <1>2, <1>4, <1>5, <1>6 DEF Reflects

\* Disconnecting the last block of a branch makes it that of the shorter one.
LEMMA DisconnectReflects ==
  ASSUME NEW b \in Block \ {Genesis}, NEW txindex,
         Reflects(txindex, b),
         DisconnectBlock(b, txindex)
  PROVE  Reflects(Disconnected(b, txindex), hashPrevBlock[b])
<1> DEFINE pr == hashPrevBlock[b]
           old == Disconnected(b, txindex)
           C == Replay[pr].coins
<1>1. /\ pr \in Block
      /\ Ancestors[b] = {b} \cup Ancestors[pr]
      /\ Ancestors[pr] \subseteq Block
      /\ b \in Block
      /\ IsTxIndex(txindex)
      /\ FitsBlock(b)
      /\ C \in SUBSET Coin
      /\ Coins(pr) = Outs(C)
  BY AncestorsStep, AncestorsType, ReplayDef DEF Reflects, State, Coins, Outs
<1>2. IsTxIndex(old)
  BY <1>1, DisconnectedType
<1>3. /\ DOMAIN old = DOMAIN txindex \ Transactions(b)
      /\ \A t \in DOMAIN old : /\ old[t].pos = txindex[t].pos
                               /\ old[t].vSpent = txindex[t].vSpent \ SpentIn(b, t)
  BY DEF Disconnected
<1>4. \A c \in C : c.out = <<c.out[1], c.out[2]>> /\ c.out[1] \notin Transactions(b)
  BY <1>1 DEF FitsBlock, Fresh, Coin
<1>5. ASSUME NEW in \in Spent(b), in[1] \notin Transactions(b)
      PROVE  /\ in \in Coins(pr)
             /\ in[1] \in DOMAIN txindex
             /\ in[2] \in Outputs(in[1])
  <2>1. PICK i \in 1..Len(vtx[b]) : in \in vin[vtx[b][i]]
    BY SpentByOne
  <2>2. Earlier(b, i) \subseteq Transactions(b) /\ DOMAIN vtx[b] = 1..Len(vtx[b])
    BY EarlierStep, EarlierAll
  <2> QED
    BY <1>1, <1>5, <2>1, <2>2 DEF FitsBlock, FitsTx, DisconnectBlock
<1>6. ASSUME NEW o PROVE o \in Unspent(old) <=> o \in Coins(pr)
  <2>1. o \in Unspent(txindex) <=>
          /\ o \notin Spent(b)
          /\ \/ o \in Coins(pr)
             \/ \E t \in Transactions(b) : \E n \in Outputs(t) : o = <<t, n>>
    BY <1>1, CoinsStep DEF Reflects
  <2>2. ASSUME NEW t, NEW n, o = <<t, n>> PROVE o \in Unspent(old) <=> o \in Coins(pr)
    <3>1. CASE t \in Transactions(b)
      <4>1. o \notin Coins(pr)
        BY <1>1, <1>4, <2>2, <3>1 DEF Outs
      <4>2. o \notin Unspent(old)
        BY <1>3, <2>2, <3>1, InUnspent
      <4> QED
        BY <4>1, <4>2
    <3>2. CASE t \notin Transactions(b)
      <4>1. o \in Unspent(old) <=>
              t \in DOMAIN txindex /\ n \in Outputs(t)
              /\ (n \notin txindex[t].vSpent \/ o \in Spent(b))
        BY <1>1, <1>3, <2>2, <3>2, InUnspent, SpentPairs
      <4>2. ~ \E tt \in Transactions(b) : \E nn \in Outputs(tt) : o = <<tt, nn>>
        BY <2>2, <3>2
      <4>3. o \in Unspent(txindex) <=> o \notin Spent(b) /\ o \in Coins(pr)
        BY <2>1, <4>2
      <4>4. o \in Unspent(txindex) <=>
              t \in DOMAIN txindex /\ n \in Outputs(t) /\ n \notin txindex[t].vSpent
        BY <2>2, InUnspent
      <4>5. o \in Spent(b) => /\ o \in Coins(pr)
                              /\ t \in DOMAIN txindex /\ n \in Outputs(t)
        BY <1>5, <2>2, <3>2
      <4> QED
        BY <4>1, <4>3, <4>4, <4>5
    <3> QED
      BY <3>1, <3>2
  <2>3. o \in Unspent(old) => \E t, n : o = <<t, n>>
    BY UnspentPairs
  <2>4. o \in Coins(pr) => \E t, n : o = <<t, n>>
    BY <1>1, <1>4 DEF Outs
  <2> QED
    BY <2>2, <2>3, <2>4
<1>7. \A a \in Ancestors[pr] \ {Genesis} : FitsBlock(a)
  BY <1>1 DEF Reflects
<1>8. ASSUME NEW t \in DOMAIN old PROVE Newest(old[t].pos, t, pr)
  <2>1. t \notin Transactions(b) /\ Newest(txindex[t].pos, t, b) /\ old[t].pos = txindex[t].pos
    BY <1>3 DEF Reflects
  <2> QED
    BY <1>1, <2>1 DEF Newest
<1> QED
  BY <1>2, <1>6, <1>7, <1>8 DEF Reflects

----------------------------------------------------------------------------
(* How old a coin is.                                                      *)

\* The walk back from b: the block m below it, or NULL.
LEMMA BackIs ==
  ASSUME NEW b \in Block, NEW m \in Nat
  PROVE  IF m <= Height(b)
         THEN Back(b, m) \in Ancestors[b] /\ Height(Back(b, m)) = Height(b) - m
         ELSE Back(b, m) = NULL
<1> DEFINE D == 0..m
           p == [i \in D |-> i - 1]
           G == [i \in D |-> [v \in Pointer |-> IF v = NULL THEN NULL ELSE hashPrevBlock[v]]]
           back == CHOOSE f : f = [k \in 0..m |-> IF k = 0 THEN b
                                     ELSE IF f[k - 1] = NULL THEN NULL
                                     ELSE hashPrevBlock[f[k - 1]]]
<1>1. IsRule(G, D, Pointer)
  BY BlockAssumption DEF IsRule, Pointer
<1>2. Grounded(D, 0, p) /\ b \in Pointer
  BY CountdownGrounded DEF Pointer
<1>3. PICK f \in [D -> Pointer] : \A i \in D : f[i] = IF i = 0 THEN b ELSE G[i][f[p[i]]]
  <2> HIDE DEF D, p, G
  <2> QED
    BY <1>1, <1>2, WalkRecursion
<1>4. f = [k \in 0..m |-> IF k = 0 THEN b ELSE IF f[k - 1] = NULL THEN NULL
                          ELSE hashPrevBlock[f[k - 1]]]
  <2>1. ASSUME NEW k \in D, k # 0
        PROVE  f[k] = IF f[k - 1] = NULL THEN NULL ELSE hashPrevBlock[f[k - 1]]
    <3>1. k - 1 \in D /\ p[k] = k - 1
      BY <2>1
    <3>2. f[k - 1] \in Pointer
      BY <3>1
    <3> QED
      BY <1>3, <2>1, <3>1, <3>2
  <2> QED
    BY <1>3, <2>1
<1>5. back = [k \in 0..m |-> IF k = 0 THEN b ELSE IF back[k - 1] = NULL THEN NULL
                             ELSE hashPrevBlock[back[k - 1]]]
  BY <1>4
<1>6. Back(b, m) = back[m]
  BY DEF Back
<1> HIDE DEF back
<1>7. /\ back[0] = b
      /\ \A k \in 1..m : back[k] = IF back[k - 1] = NULL THEN NULL
                                   ELSE hashPrevBlock[back[k - 1]]
  BY <1>5
<1> DEFINE S == {k \in 0..m : IF k <= Height(b)
                              THEN back[k] \in Ancestors[b] /\ Height(back[k]) = Height(b) - k
                              ELSE back[k] = NULL}
<1>8. 0 \in S
  <2>1. b \in Ancestors[b] /\ Height(b) \in Nat
    BY AncestorsStep, HeightStep
  <2> QED
    BY <1>7, <2>1
<1>9. ASSUME NEW k \in 1..m, k - 1 \in S PROVE k \in S
  <2> DEFINE x == back[k - 1]
  <2>1. Height(b) \in Nat /\ Ancestors[b] \subseteq Block /\ k \in 0..m
    BY HeightStep, AncestorsType
  <2>2. CASE k - 1 > Height(b)
    <3>1. x = NULL /\ ~ (k <= Height(b))
      BY <1>9, <2>1, <2>2
    <3> QED
      BY <1>7, <2>1, <3>1
  <2>3. CASE k - 1 <= Height(b)
    <3>1. /\ x \in Ancestors[b] /\ x \in Block /\ x # NULL
          /\ Height(x) = Height(b) - (k - 1)
          /\ back[k] = hashPrevBlock[x]
      BY <1>7, <1>9, <2>1, <2>3, BlockAssumption
    <3>2. CASE x = Genesis
      <4>1. back[k] = NULL /\ Height(b) = k - 1
        BY <2>1, <3>1, <3>2, HeightStep, BlockAssumption
      <4> QED
        BY <2>1, <4>1
    <3>3. CASE x # Genesis
      <4>1. /\ Height(x) = Height(back[k]) + 1
            /\ Height(back[k]) \in Nat
            /\ back[k] \in Ancestors[x]
        BY <3>1, <3>3, HeightStep, AncestorsStep
      <4>2. back[k] \in Ancestors[b]
        BY <3>1, <4>1, BranchIsLine
      <4>3. k <= Height(b) /\ Height(back[k]) = Height(b) - k
        BY <2>1, <3>1, <4>1
      <4> QED
        BY <2>1, <4>2, <4>3
    <3> QED
      BY <3>2, <3>3
  <2> QED
    BY <2>1, <2>2, <2>3
<1> HIDE DEF S
<1>10. 0..m \subseteq S
  BY <1>8, <1>9, CountInduction
<1>11. m \in S
  BY <1>10
<1> QED
  BY <1>6, <1>11 DEF S

\* None of the last COINBASE_MATURITY blocks up to b is its ancestor a exactly
\* when a is that far below.
LEMMA BackMeetsAncestor ==
  ASSUME NEW b \in Block, NEW a \in Ancestors[b]
  PROVE  (\A k \in 0..(COINBASE_MATURITY - 1) : Back(b, k) # a)
           <=> Height(b) - Height(a) >= COINBASE_MATURITY
<1> DEFINE d == Height(b) - Height(a)
<1>1. /\ a \in Block /\ NULL \notin Block
      /\ Height(a) \in Nat /\ Height(b) \in Nat
      /\ COINBASE_MATURITY \in Nat
  BY AncestorsType, HeightStep, BlockAssumption, TxAssumption
<1>2. a = b \/ Height(a) < Height(b)
  BY BranchIsLine
<1>3. d \in Nat /\ d <= Height(b)
  BY <1>1, <1>2
<1>4. Back(b, d) = a
  <2>1. Back(b, d) \in Ancestors[b] /\ Height(Back(b, d)) = Height(a)
    BY <1>1, <1>3, BackIs
  <2> QED
    BY <2>1, BranchIsLine
<1>5. ASSUME NEW k \in Nat, Back(b, k) = a PROVE k = d
  <2>1. k <= Height(b) /\ Height(a) = Height(b) - k
    BY <1>1, <1>5, BackIs
  <2> QED
    BY <1>1, <2>1
<1> QED
  BY <1>1, <1>3, <1>4, <1>5

\* Every coin of a branch is as old as the last block that holds its
\* transaction.
LEMMA CoinAge ==
  ASSUME NEW b \in Block, \A a \in Ancestors[b] \ {Genesis} : FitsBlock(a)
  PROVE  \A c \in Replay[b].coins :
           \E a \in Block : Newest(a, c.out[1], b) /\ c.height = Height(a)
<1> DEFINE S == {x \in Block :
                   (\A a \in Ancestors[x] \ {Genesis} : FitsBlock(a)) =>
                     \A c \in Replay[x].coins :
                       \E a \in Block : Newest(a, c.out[1], x) /\ c.height = Height(a)}
<1>1. Genesis \in S
  BY ReplayDef, BlockAssumption
<1>2. ASSUME NEW x \in Block \ {Genesis}, hashPrevBlock[x] \in S PROVE x \in S
  <2> DEFINE pr == hashPrevBlock[x]
             C == Replay[pr].coins
  <2> SUFFICES ASSUME \A a \in Ancestors[x] \ {Genesis} : FitsBlock(a), NEW c \in Replay[x].coins
               PROVE  \E a \in Block : Newest(a, c.out[1], x) /\ c.height = Height(a)
    OBVIOUS
  <2>1. /\ pr \in Block
        /\ Ancestors[x] = {x} \cup Ancestors[pr]
        /\ Ancestors[pr] \subseteq Block
        /\ FitsBlock(x)
        /\ Replay[x].coins = Left(x, Len(vtx[x]) + 1, C)
    BY AncestorsStep, AncestorsType, ReplayStep
  <2>2. CASE c \in C
    <3>1. PICK a \in Block : Newest(a, c.out[1], pr) /\ c.height = Height(a)
      BY <1>2, <2>1, <2>2
    <3>2. c.out[1] \notin Transactions(x)
      BY <2>1, <2>2 DEF FitsBlock, Fresh
    <3>3. Newest(a, c.out[1], x)
      BY <2>1, <3>1, <3>2 DEF Newest
    <3> QED
      BY <3>1, <3>3
  <2>3. CASE c \in Made(x, Len(vtx[x]) + 1)
    <3>1. c.height = Height(x) /\ c.out[1] \in Transactions(x)
      BY <2>3, EarlierAll DEF Made
    <3>2. ASSUME NEW y \in Ancestors[x] PROVE Height(y) <= Height(x)
      <4>1. y \in Block /\ Height(y) \in Nat /\ Height(x) \in Nat
        BY AncestorsType, HeightStep
      <4>2. y = x \/ Height(y) < Height(x)
        BY BranchIsLine
      <4> QED
        BY <4>1, <4>2
    <3>3. Newest(x, c.out[1], x)
      BY <2>1, <3>1, <3>2 DEF Newest
    <3> QED
      BY <3>1, <3>3
  <2> QED
    BY <2>1, <2>2, <2>3 DEF Left
<1> HIDE DEF S
<1>3. Block \subseteq S
  BY <1>1, <1>2, TreeGrounded, WalkInduction
<1> QED
  BY <1>3 DEF S

----------------------------------------------------------------------------
(* ConnectBlock accepts what Replay accepts.                               *)

\* An input of a transaction that fits is one of the coins that are left.
LEMMA InputIsLeft ==
  ASSUME NEW b \in Block \ {Genesis}, FitsBlock(b), NEW i \in 1..Len(vtx[b]),
         NEW in \in vin[vtx[b][i]]
  PROVE  \E c \in Left(b, i, Replay[hashPrevBlock[b]].coins) : c.out = in
<1> DEFINE C == Replay[hashPrevBlock[b]].coins
<1>1. C \in SUBSET Coin /\ Fresh(b, C) /\ FitsTx(b, i, C)
  BY ReplayDef, BlockAssumption DEF State, FitsBlock
<1>2. vin[vtx[b][i]] = Outs(Taken(Left(b, i, C), vtx[b][i]))
  BY <1>1, FitsPays
<1> QED
  BY <1>2 DEF Outs, Taken

\* The walk over the last blocks finds the coinbase outputs that are too
\* young.
LEMMA MatureIsMature ==
  ASSUME NEW b \in Block \ {Genesis}, NEW txindex, Reflects(txindex, hashPrevBlock[b]),
         FitsBlock(b), NEW i \in 1..Len(vtx[b])
  PROVE  (\A in \in vin[vtx[b][i]] : in[1] \in CoinBase => Mature(b, i, in[1], txindex))
           <=> MatureTx(b, i, Replay[hashPrevBlock[b]].coins)
<1> DEFINE pr == hashPrevBlock[b]
           C == Replay[pr].coins
           L == Left(b, i, C)
<1>1. /\ pr \in Block
      /\ Ancestors[b] = {b} \cup Ancestors[pr]
      /\ C \in SUBSET Coin
      /\ Fresh(b, C)
      /\ Earlier(b, i) \subseteq Transactions(b)
      /\ Unspent(txindex) = Outs(C)
  BY AncestorsStep, ReplayDef, EarlierStep DEF State, FitsBlock, Reflects, Coins, Outs
<1>2. ASSUME NEW c \in L
      PROVE  Mature(b, i, c.out[1], txindex) <=> Height(b) - c.height >= COINBASE_MATURITY
  <2>1. CASE c.out[1] \in Earlier(b, i)
    <3>1. c.height = Height(b) /\ PosSeen(b, i, c.out[1], txindex) = b
      BY <1>1, <2>1 DEF Left, Made, Fresh, PosSeen
    <3>2. b \in Ancestors[b]
      BY AncestorsStep
    <3>3. (\A k \in 0..(COINBASE_MATURITY - 1) : Back(b, k) # b)
            <=> Height(b) - Height(b) >= COINBASE_MATURITY
      BY <3>2, BackMeetsAncestor
    <3> QED
      BY <3>1, <3>3 DEF Mature
  <2>2. CASE c.out[1] \notin Earlier(b, i)
    <3> DEFINE t == c.out[1]
               x == txindex[t].pos
    <3>1. c \in C
      BY <2>2 DEF Left, Made
    <3>2. c.out = <<c.out[1], c.out[2]>> /\ c.out \in Unspent(txindex)
      BY <1>1, <3>1 DEF Coin, Outs
    <3>3. t \in DOMAIN txindex
      BY <3>2, InUnspent
    <3>4. Newest(x, t, pr)
      BY <3>3 DEF Reflects
    <3>5. PICK a \in Block : Newest(a, t, pr) /\ c.height = Height(a)
      BY <1>1, <3>1, CoinAge DEF Reflects
    <3>6. Height(x) = Height(a)
      <4>1. a \in Ancestors[pr] /\ x \in Ancestors[pr]
            /\ Height(x) <= Height(a) /\ Height(a) <= Height(x)
        BY <3>4, <3>5 DEF Newest
      <4>2. Height(x) \in Nat /\ Height(a) \in Nat
        BY <1>1, <4>1, AncestorsType, HeightStep
      <4> QED
        BY <4>1, <4>2
    <3>7. x \in Ancestors[b] /\ PosSeen(b, i, t, txindex) = x
      BY <1>1, <2>2, <3>4 DEF Newest, PosSeen
    <3>8. (\A k \in 0..(COINBASE_MATURITY - 1) : Back(b, k) # x)
            <=> Height(b) - Height(x) >= COINBASE_MATURITY
      BY <3>7, BackMeetsAncestor
    <3> QED
      BY <3>5, <3>6, <3>7, <3>8 DEF Mature
  <2> QED
    BY <2>1, <2>2
<1>3. ASSUME \A in \in vin[vtx[b][i]] : in[1] \in CoinBase => Mature(b, i, in[1], txindex)
      PROVE  MatureTx(b, i, C)
  BY <1>2, <1>3 DEF MatureTx
<1>4. ASSUME MatureTx(b, i, C), NEW in \in vin[vtx[b][i]], in[1] \in CoinBase
      PROVE  Mature(b, i, in[1], txindex)
  <2>1. PICK c \in L : c.out = in
    BY InputIsLeft
  <2> QED
    BY <1>2, <1>4, <2>1 DEF MatureTx
<1> QED
  BY <1>3, <1>4

\* A block connects on top of the branch the index was built from exactly when
\* its own checks pass and the branch can pay it with coins that are mature.
THEOREM ConnectIsReplay ==
  ASSUME NEW b \in Block \ {Genesis}, NEW txindex, Reflects(txindex, hashPrevBlock[b]),
         NEW fSig \in BOOLEAN
  PROVE  ConnectBlock(b, txindex, fSig) <=>
           b \notin BadValue /\ (fSig => b \notin BadSig) /\ FitsBlock(b) /\ Matures(b)
<1> DEFINE pr == hashPrevBlock[b]
           C == Replay[pr].coins
<1>1. /\ pr \in Block /\ C \in SUBSET Coin
      /\ Unspent(txindex) = Outs(C)
      /\ DOMAIN vtx[b] = 1..Len(vtx[b])
  BY AncestorsStep, ReplayDef, EarlierAll DEF State, Reflects, Coins, Outs
<1>2. ASSUME ConnectBlock(b, txindex, fSig) PROVE FitsBlock(b) /\ Matures(b)
  <2>1. FitsBlock(b)
    BY <1>2, ConnectFits
  <2>2. ASSUME NEW i \in 1..Len(vtx[b]) PROVE MatureTx(b, i, C)
    <3>1. \A in \in vin[vtx[b][i]] : in[1] \in CoinBase => Mature(b, i, in[1], txindex)
      BY <1>1, <1>2 DEF ConnectBlock, ConnectInputs
    <3> QED
      BY <2>1, <3>1, MatureIsMature
  <2> QED
    BY <2>1, <2>2 DEF Matures
<1>3. ASSUME FitsBlock(b), Matures(b)
      PROVE  /\ EnforceBIP30(b, txindex)
             /\ \A i \in DOMAIN vtx[b] : FetchInputs(b, i, txindex) /\ ConnectInputs(b, i, txindex)
  <2>1. EnforceBIP30(b, txindex)
    <3> SUFFICES ASSUME NEW t \in Transactions(b) \cap DOMAIN txindex, NEW n \in Outputs(t),
                        n \notin txindex[t].vSpent
                 PROVE  FALSE
      BY DEF EnforceBIP30
    <3>1. <<t, n>> \in Unspent(txindex)
      BY InUnspent
    <3>2. PICK c \in C : c.out = <<t, n>>
      BY <1>1, <3>1 DEF Outs
    <3> QED
      BY <1>3, <3>2 DEF FitsBlock, Fresh
  <2>2. ASSUME NEW i \in 1..Len(vtx[b]), NEW in \in vin[vtx[b][i]]
        PROVE  /\ in[1] \in Earlier(b, i) \cup DOMAIN txindex
               /\ in[2] \in Outputs(in[1])
               /\ in[1] \in CoinBase => Mature(b, i, in[1], txindex)
               /\ in \notin SpentBefore(b, i)
               /\ in[1] \notin Earlier(b, i) => in[2] \notin txindex[in[1]].vSpent
    <3>1. /\ in \notin SpentBefore(b, i)
          /\ IF in[1] \in Earlier(b, i) THEN in[2] \in Outputs(in[1])
             ELSE in[1] \notin Transactions(b) /\ in \in Outs(C)
      BY <1>3 DEF FitsBlock, FitsTx
    <3>2. in = <<in[1], in[2]>>
      BY EarlierStep, TxAssumption
    <3>3. in[1] \notin Earlier(b, i) =>
            /\ in[1] \in DOMAIN txindex
            /\ in[2] \in Outputs(in[1])
            /\ in[2] \notin txindex[in[1]].vSpent
      BY <1>1, <3>1, <3>2, InUnspent
    <3>4. MatureTx(b, i, C)
      BY <1>3 DEF Matures
    <3>5. in[1] \in CoinBase => Mature(b, i, in[1], txindex)
      BY <1>3, <3>4, MatureIsMature
    <3> QED
      BY <3>1, <3>3, <3>5
  <2> QED
    BY <1>1, <2>1, <2>2 DEF FetchInputs, ConnectInputs
<1> QED
  BY <1>2, <1>3 DEF ConnectBlock

----------------------------------------------------------------------------
(* The index in the database.                                              *)

\* The database describes the coins of its best chain, and the transaction of
\* a reorganisation those of the branch it has reached.
CoinsInv ==
  ~ fSecondaryFailed =>
    /\ Reflects(dbTxIndex, dbHashBestChain)
    /\ nPhase \in {"extend", "postpone", "fork", "secondary"} => txnTxIndex = dbTxIndex
    /\ nPhase = "reorganize" => Reflects(txnTxIndex, pindex)

\* An empty database.
LEMMA CoinsInit == Init => CoinsInv
<1> SUFFICES ASSUME Init PROVE CoinsInv
  OBVIOUS
<1>1. /\ Genesis \in Block
      /\ Ancestors[Genesis] = {Genesis}
      /\ Replay[Genesis] = [ok |-> TRUE, coins |-> {}]
  BY BlockAssumption, AncestorsStep, ReplayDef
<1>2. /\ dbTxIndex = [t \in {} |-> NULL]
      /\ dbHashBestChain = Genesis /\ nPhase = "idle"
  BY DEF Init
<1>3. Unspent(dbTxIndex) = Coins(Genesis)
  BY <1>1, <1>2 DEF Unspent, Coins
<1>4. IsTxIndex(dbTxIndex)
  BY <1>2 DEF IsTxIndex
<1> QED
  BY <1>1, <1>2, <1>3, <1>4 DEF CoinsInv, Reflects

\* Every step keeps it.
LEMMA CoinsStepInv ==
  ASSUME IInv, IInv', CommittedInv, CoinsInv, [Next]_vars
  PROVE  CoinsInv'
<1> USE DEF IInv
<1> SUFFICES ASSUME ~ fSecondaryFailed' PROVE CoinsInv'
  BY DEF CoinsInv
<1>1. ~ fSecondaryFailed
  BY DEF Next, Step, vars, history, AcceptBlock, AddToBlockIndexFails, RecordIsLost,
         InsertBlock, SetBestChain, Postpone, Reorganize,
         FindFork, DisconnectTip, ConnectNext, CommitReorganize, ReorganizeFails,
         SetBestChainInner, SetBestChainInnerFails, NewBestBlock, ExtendFault,
         ReorganizeFault, SecondaryFault, Crash, CrashWithHole, LoadChainWork, LoadBestChain
<1>2. CASE DisconnectTip
  <2>1. /\ nPhase = "reorganize" /\ nPhase' = "reorganize"
        /\ pindex \in Block \ {Genesis}
        /\ DisconnectBlock(pindex, txnTxIndex)
        /\ txnTxIndex' = Disconnected(pindex, txnTxIndex)
        /\ pindex' = hashPrevBlock[pindex]
        /\ UNCHANGED <<dbTxIndex, dbHashBestChain>>
    BY <1>2 DEF DisconnectTip, ForkInv, Segment, TypeOK, db
  <2>2. Reflects(txnTxIndex', pindex')
    BY <1>1, <2>1, DisconnectReflects DEF CoinsInv
  <2> QED
    BY <1>1, <2>1, <2>2 DEF CoinsInv
<1>3. CASE ConnectNext
  <2>1. PICK b \in vConnect : /\ hashPrevBlock[b] = pindex
                              /\ ConnectBlock(b, txnTxIndex, fCheckSig)
                              /\ txnTxIndex' = Connected(b, txnTxIndex)
                              /\ pindex' = b
    BY <1>3 DEF ConnectNext
  <2>2. /\ nPhase = "reorganize" /\ nPhase' = "reorganize"
        /\ b \in Block \ {Genesis}
        /\ UNCHANGED <<dbTxIndex, dbHashBestChain>>
    BY <1>3 DEF ConnectNext, ForkInv, Segment, TypeOK, db
  <2>3. Reflects(txnTxIndex', pindex')
    BY <1>1, <2>1, <2>2, ConnectReflects DEF CoinsInv
  <2> QED
    BY <1>1, <2>2, <2>3 DEF CoinsInv
<1>4. CASE CommitReorganize
  BY <1>1, <1>4 DEF CommitReorganize, CoinsInv, locals, txn
<1>5. CASE SetBestChainInner
  <2>1. /\ InnerBlock \in Block \ {Genesis}
        /\ hashPrevBlock[InnerBlock] = dbHashBestChain
    BY <1>1, <1>5, InnerBlockIndexed
    DEF SetBestChainInner, CommittedInv, SyncInv, IndexInv, Linked, mapBlockIndex
  <2>2. /\ ConnectBlock(InnerBlock, dbTxIndex, fCheckSig)
        /\ dbTxIndex' = Connected(InnerBlock, dbTxIndex)
        /\ txnTxIndex' = dbTxIndex'
        /\ dbHashBestChain' = InnerBlock
        /\ nPhase' # "reorganize"
    BY <1>1, <1>5 DEF SetBestChainInner, CoinsInv
  <2>3. Reflects(dbTxIndex', dbHashBestChain')
    BY <1>1, <2>1, <2>2, ConnectReflects DEF CoinsInv
  <2> QED
    BY <2>2, <2>3 DEF CoinsInv
<1>6. CASE FindFork
  <2>1. /\ nPhase = "fork" /\ pindex = pindexBest /\ pindexBest = dbHashBestChain
        /\ txnTxIndex = dbTxIndex
    BY <1>1, <1>6 DEF FindFork, TxnInv, SyncInv, CoinsInv
  <2> QED
    BY <1>1, <1>6, <2>1 DEF FindFork, CoinsInv, db, txn
<1>7. CASE /\ UNCHANGED <<dbTxIndex, dbHashBestChain>>
           /\ nPhase' \in {"extend", "postpone", "fork", "secondary"} =>
                \/ txnTxIndex' = dbTxIndex'
                \/ /\ nPhase \in {"extend", "postpone", "fork", "secondary"}
                   /\ txnTxIndex' = txnTxIndex
           /\ nPhase' = "reorganize" => nPhase = "reorganize" /\ UNCHANGED <<txnTxIndex, pindex>>
  BY <1>1, <1>7 DEF CoinsInv
<1> QED
  BY <1>2, <1>3, <1>4, <1>5, <1>6, <1>7
  DEF Next, Step, vars, memory, db, txn, locals, history, AcceptBlock, AddToBlockIndexFails,
      RecordIsLost, InsertBlock, SetBestChain, Postpone, Reorganize, ReorganizeFails,
      InvalidChainFound, SetBestChainInnerFails, NewBestBlock, ExtendFault, ReorganizeFault,
      SecondaryFault, Crash, CrashWithHole, LoadChainWork, LoadBestChain

\* What the proofs of this module need of every reachable state.
LEMMA CoinsInvariance == Spec => [](IInv /\ CommittedInv /\ CoinsInv)
<1>1. IInv /\ IInv' /\ CommittedInv /\ CoinsInv /\ [Next]_vars => CoinsInv'
  BY CoinsStepInv
<1> QED
  BY <1>1, CoinsInit, Invariance, CommittedInvariance, PTL DEF Spec

\* Whatever was connected, disconnected, given up or lost in a crash, the
\* unspent outputs in the database are those that replaying its best chain
\* from the first block leaves, as long as no postponed block failed to
\* connect.
THEOREM CoinsAreReplayed == Spec => []UnspentIsReplay
<1>1. CoinsInv => UnspentIsReplay
  BY DEF CoinsInv, Reflects, UnspentIsReplay
<1> QED
  BY <1>1, CoinsInvariance, PTL

----------------------------------------------------------------------------
(* The database implements BestChain.                                      *)

\* The recursive definition of BranchWork defines a function.
LEMMA BranchWorkDef ==
  /\ BranchWork[Genesis] = GetBlockWork[Genesis]
  /\ \A b \in Block : BranchWork[b] \in Nat
  /\ \A b \in Block \ {Genesis} :
       BranchWork[b] = GetBlockWork[b] + BranchWork[hashPrevBlock[b]]
<1> DEFINE V == Nat
           e == GetBlockWork[Genesis]
           G == [b \in Block |-> [v \in V |-> GetBlockWork[b] + v]]
<1>0. \A b \in Block : GetBlockWork[b] \in Nat
  BY WorkAssumption
<1>1. e \in V /\ IsRule(G, Block, V)
  BY <1>0, BlockAssumption DEF IsRule
<1>2. PICK f \in [Block -> V] :
        \A b \in Block : f[b] = IF b = Genesis THEN e ELSE G[b][f[hashPrevBlock[b]]]
  <2> HIDE DEF V, e, G
  <2> QED
    BY <1>1, TreeGrounded, WalkRecursion
<1>3. f = [b \in Block |-> GetBlockWork[b] + IF b = Genesis THEN 0 ELSE f[hashPrevBlock[b]]]
  <2>1. ASSUME NEW b \in Block
        PROVE  f[b] = GetBlockWork[b] + IF b = Genesis THEN 0 ELSE f[hashPrevBlock[b]]
    <3>1. CASE b = Genesis
      <4>1. f[b] = GetBlockWork[b]
        BY <1>2, <3>1
      <4> QED
        BY <1>0, <3>1, <4>1
    <3>2. CASE b # Genesis
      <4>1. f[hashPrevBlock[b]] \in V
        BY <3>2, BlockAssumption
      <4>2. f[b] = G[b][f[hashPrevBlock[b]]]
        BY <1>2, <3>2
      <4> QED
        BY <3>2, <4>1, <4>2
    <3> QED
      BY <3>1, <3>2
  <2> QED
    BY <2>1
<1>4. BranchWork = [b \in Block |-> GetBlockWork[b] + IF b = Genesis THEN 0
                                                      ELSE BranchWork[hashPrevBlock[b]]]
  BY <1>3 DEF BranchWork
<1>5. /\ BranchWork[Genesis] = GetBlockWork[Genesis]
      /\ \A b \in Block \ {Genesis} :
           BranchWork[b] = GetBlockWork[b] + BranchWork[hashPrevBlock[b]]
  BY <1>0, <1>4, BlockAssumption
<1> DEFINE S == {b \in Block : BranchWork[b] \in Nat}
<1>6. Genesis \in S
  BY <1>0, <1>5, BlockAssumption
<1>7. \A b \in Block \ {Genesis} : hashPrevBlock[b] \in S => b \in S
  BY <1>0, <1>5
<1> HIDE DEF S
<1>8. Block \subseteq S
  BY <1>6, <1>7, TreeGrounded, WalkInduction
<1> QED
  BY <1>5, <1>8 DEF S

\* The work in memory is that of the branch, and the block a reorganisation
\* starts with already has more of it than the tip.
LeadInv ==
  /\ \A b \in DOMAIN bnChainWork : bnChainWork[b] = BranchWork[b]
  /\ nPhase \in {"postpone", "fork", "reorganize"} =>
       bnChainWork[pindexIntermediate] > bnBestChainWork

\* Loading the index computes the work of a block after that of its
\* predecessor.
LEMMA LoadChainWorkLead ==
  ASSUME IInv, LeadInv, LoadChainWork PROVE LeadInv'
<1> USE DEF IInv
<1>1. PICK b \in mapBlockIndex \ DOMAIN bnChainWork :
        /\ \A x \in mapBlockIndex \ DOMAIN bnChainWork : nHeight[b] <= nHeight[x]
        /\ bnChainWork' =
             [x \in DOMAIN bnChainWork \cup {b} |->
                IF x # b THEN bnChainWork[x]
                ELSE GetBlockWork[b] +
                     IF b = Genesis THEN 0 ELSE bnChainWork[hashPrevBlock[b]]]
  BY DEF LoadChainWork
<1>2. b # Genesis => hashPrevBlock[b] \in DOMAIN bnChainWork
  <2>1. b # Genesis => /\ hashPrevBlock[b] \in mapBlockIndex
                       /\ nHeight[b] = nHeight[hashPrevBlock[b]] + 1
                       /\ nHeight[hashPrevBlock[b]] \in Nat
    BY DEF IndexInv, Linked, mapBlockIndex
  <2> QED
    BY <1>1, <2>1
<1>3. GetBlockWork[b] \in Nat /\ b \in Block
  BY WorkAssumption DEF IndexInv, Linked, mapBlockIndex
<1>4. bnChainWork'[b] = BranchWork[b]
  BY <1>1, <1>2, <1>3, BranchWorkDef DEF LeadInv
<1>5. \A x \in DOMAIN bnChainWork' : bnChainWork'[x] = BranchWork[x]
  BY <1>1, <1>4 DEF LeadInv
<1>6. nPhase' = "load"
  BY DEF LoadChainWork
<1> QED
  BY <1>5, <1>6 DEF LeadInv

\* Every step keeps the lead.
LEMMA LeadStep ==
  ASSUME LateBlocks = {} \/ nPhase # "load", IInv, IInv', WorkLead, LeadInv, [Next]_vars
  PROVE  LeadInv'
<1> USE DEF IInv
<1>1. ASSUME NEW b \in Block,
             AcceptBlock(b) \/ AddToBlockIndexFails(b) \/ RecordIsLost(b)
      PROVE  LeadInv'
  <2>1. /\ nPhase' \in {"idle", "setbest"}
        /\ hashPrevBlock[b] \in DOMAIN bnChainWork
        /\ b # Genesis
        /\ bnChainWork' = [x \in mapBlockIndex \cup {b} |->
                             IF x = b THEN bnChainWork[hashPrevBlock[b]] + GetBlockWork[b]
                             ELSE bnChainWork[x]]
        /\ mapBlockIndex = DOMAIN bnChainWork
    BY <1>1, BlockAssumption
    DEF AcceptBlock, AddToBlockIndexFails, RecordIsLost, InsertBlock, WorkInv, IndexInv, Linked,
        mapBlockIndex
  <2>2. GetBlockWork[b] \in Nat /\ BranchWork[hashPrevBlock[b]] \in Nat
    BY <2>1, WorkAssumption, BranchWorkDef, BlockAssumption
  <2>3. bnChainWork'[b] = BranchWork[b]
    BY <2>1, <2>2, BranchWorkDef DEF LeadInv
  <2> QED
    BY <2>1, <2>3 DEF LeadInv
<1>2. CASE LoadChainWork
  BY <1>2, LoadChainWorkLead
<1>3. CASE SetBestChain
  BY <1>3 DEF SetBestChain, LeadInv, WorkLead, memory
<1>4. CASE Postpone
  BY <1>4 DEF Postpone, LeadInv, memory
<1>5. CASE Crash
  BY <1>5 DEF Crash, LeadInv
<1>6. CASE /\ UNCHANGED bnChainWork
           /\ nPhase' \in {"postpone", "fork", "reorganize"} =>
                /\ nPhase \in {"postpone", "fork", "reorganize"}
                /\ UNCHANGED <<pindexIntermediate, bnBestChainWork>>
  BY <1>6 DEF LeadInv
<1> QED
  BY <1>1, <1>2, <1>3, <1>4, <1>5, <1>6
  DEF Next, Step, vars, memory, db, txn, locals, history, Reorganize, FindFork, DisconnectTip,
      ConnectNext, CommitReorganize, ReorganizeFails, SetBestChainInner,
      SetBestChainInnerFails, NewBestBlock, ExtendFault, ReorganizeFault, SecondaryFault,
      CrashWithHole, LoadBestChain

\* So the work of the tip is that of its branch in every reachable state.
LEMMA LeadInvariance ==
  ASSUME LateBlocks = {}
  PROVE  Spec => [](WorkLead /\ LeadInv)
<1>1. Init => WorkLead /\ LeadInv
  <2> SUFFICES ASSUME Init PROVE WorkLead /\ LeadInv
    OBVIOUS
  <2>1. /\ DOMAIN bnChainWork = {Genesis} /\ bnChainWork[Genesis] = GetBlockWork[Genesis]
        /\ nPhase = "idle"
    BY DEF Init
  <2> QED
    BY <2>1, BranchWorkDef DEF WorkLead, LeadInv
<1>2. IInv /\ IInv' /\ WorkLead /\ LeadInv /\ [Next]_vars => WorkLead' /\ LeadInv'
  BY WorkLeadStep, LeadStep
<1> QED
  BY <1>1, <1>2, Invariance, PTL DEF Spec

\* Whoever connects a block above the last checkpoint verifies its
\* signatures.  The code decides that by the height of the tip it leaves, not
\* of the block it connects, so this is a condition and not a fact.
SignaturesVerified ==
  nPhase \in {"extend", "reorganize", "secondary"} =>
    \A b \in BadSig \cap mapBlockIndex : Height(b) > GetTotalBlocksEstimate => fCheckSig

\* The best chain in the database is valid, and so is the branch that the
\* transaction of a reorganisation has reached.
ValidInv ==
  /\ Replay[dbHashBestChain].ok
  /\ nPhase = "reorganize" => Replay[pindex].ok

\* A block that connects on top of a valid branch makes a valid branch.
LEMMA ConnectValid ==
  ASSUME NEW b \in Block \ {Genesis}, NEW txindex, Reflects(txindex, hashPrevBlock[b]),
         Replay[hashPrevBlock[b]].ok,
         ConnectBlock(b, txindex, fCheckSig),
         b \in mapBlockIndex, SignaturesVerified,
         nPhase \in {"extend", "reorganize", "secondary"}
  PROVE  Replay[b].ok
<1>1. fCheckSig \in BOOLEAN
  BY DEF fCheckSig
<1>2. b \notin BadValue /\ (fCheckSig => b \notin BadSig) /\ FitsBlock(b) /\ Matures(b)
  BY <1>1, ConnectIsReplay
<1>3. Height(b) > GetTotalBlocksEstimate => b \notin BadSig
  BY <1>2 DEF SignaturesVerified
<1> QED
  BY <1>2, <1>3, ReplayStep DEF Checked

\* Every step keeps the best chain valid.
LEMMA ValidStep ==
  ASSUME IInv, CommittedInv, CoinsInv, ValidInv, SignaturesVerified,
         ~ fSecondaryFailed, [Next]_vars
  PROVE  ValidInv'
<1> USE DEF IInv
<1>1. CASE DisconnectTip
  <2>1. /\ nPhase = "reorganize" /\ pindex \in Block \ {Genesis}
        /\ pindex' = hashPrevBlock[pindex]
        /\ UNCHANGED dbHashBestChain
    BY <1>1 DEF DisconnectTip, ForkInv, Segment, TypeOK, db
  <2> QED
    BY <2>1, ReplayStep DEF ValidInv
<1>2. CASE ConnectNext
  <2>1. PICK b \in vConnect : /\ hashPrevBlock[b] = pindex
                              /\ ConnectBlock(b, txnTxIndex, fCheckSig)
                              /\ pindex' = b
    BY <1>2 DEF ConnectNext
  <2>2. /\ nPhase = "reorganize"
        /\ b \in Block \ {Genesis} /\ b \in mapBlockIndex
        /\ Reflects(txnTxIndex, pindex)
        /\ UNCHANGED dbHashBestChain
    BY <1>2 DEF ConnectNext, ForkInv, Segment, TypeOK, CoinsInv, mapBlockIndex, db
  <2>3. Replay[b].ok
    BY <2>1, <2>2, ConnectValid DEF ValidInv
  <2> QED
    BY <2>1, <2>2, <2>3 DEF ValidInv
<1>3. CASE CommitReorganize
  BY <1>3 DEF CommitReorganize, ValidInv
<1>4. CASE SetBestChainInner
  <2>1. /\ nPhase \in {"extend", "secondary"}
        /\ InnerBlock \in Block \ {Genesis} /\ InnerBlock \in mapBlockIndex
        /\ hashPrevBlock[InnerBlock] = dbHashBestChain
        /\ ConnectBlock(InnerBlock, dbTxIndex, fCheckSig)
        /\ Reflects(dbTxIndex, dbHashBestChain)
        /\ dbHashBestChain' = InnerBlock
        /\ nPhase' # "reorganize"
    BY <1>4, InnerBlockIndexed
    DEF SetBestChainInner, CommittedInv, CoinsInv, SyncInv, IndexInv, Linked, mapBlockIndex
  <2>2. Replay[InnerBlock].ok
    BY <2>1, ConnectValid DEF ValidInv
  <2> QED
    BY <2>1, <2>2 DEF ValidInv
<1>5. CASE FindFork
  BY <1>5 DEF FindFork, ValidInv, TxnInv, SyncInv, db
<1>6. CASE /\ UNCHANGED dbHashBestChain
           /\ nPhase' = "reorganize" => nPhase = "reorganize" /\ UNCHANGED pindex
  BY <1>6 DEF ValidInv
<1> QED
  BY <1>1, <1>2, <1>3, <1>4, <1>5, <1>6
  DEF Next, Step, vars, memory, db, txn, locals, history, AcceptBlock, AddToBlockIndexFails,
      RecordIsLost, InsertBlock, SetBestChain, Postpone,
      Reorganize, ReorganizeFails, InvalidChainFound, SetBestChainInnerFails, NewBestBlock,
      ExtendFault, ReorganizeFault, SecondaryFault, Crash, CrashWithHole, LoadChainWork,
      LoadBestChain

\* No record of an indexed block is lost.
AllRecorded == DOMAIN dbHeight = mapBlockIndex

\* Each step of Chain is one of BestChain, or none.
LEMMA RefinementStep ==
  ASSUME IInv, CommittedInv, LeadInv, ValidInv, ValidInv', AllRecorded, AllRecorded',
         ~ fSecondaryFailed, [Next]_vars
  PROVE  [DatabaseBestChain!Next]_<<DOMAIN dbHeight, dbHashBestChain>>
<1> USE DEF IInv
<1>1. ASSUME NEW b \in Block, AcceptBlock(b)
      PROVE  DatabaseBestChain!Learn(b)
  BY <1>1 DEF AcceptBlock, InsertBlock, DatabaseBestChain!Learn, AllRecorded, mapBlockIndex
<1>5. ASSUME NEW b \in Block, AddToBlockIndexFails(b) \/ RecordIsLost(b) PROVE FALSE
  BY <1>5 DEF AddToBlockIndexFails, RecordIsLost, InsertBlock, AllRecorded, mapBlockIndex, db
<1>2. CASE CommitReorganize
  <2>1. /\ nPhase = "reorganize" /\ pindex = pindexIntermediate
        /\ dbHashBestChain' = pindexIntermediate /\ DOMAIN dbHeight' = DOMAIN dbHeight
        /\ Replay[pindexIntermediate].ok
    BY <1>2 DEF CommitReorganize, ValidInv, AllRecorded, mapBlockIndex
  <2>2. /\ pindexIntermediate \in mapBlockIndex
        /\ pindexIntermediate \in Block
        /\ pindexBest \in mapBlockIndex
        /\ pindexBest = dbHashBestChain
        /\ bnBestChainWork = bnChainWork[pindexBest]
        /\ DOMAIN bnChainWork = mapBlockIndex
        /\ DOMAIN dbHeight = mapBlockIndex
    BY <2>1 DEF TypeOK, ForkInv, Segment, SyncInv, WorkInv, AllRecorded, mapBlockIndex
  <2>3. BranchWork[pindexIntermediate] > BranchWork[dbHashBestChain]
    BY <2>1, <2>2 DEF LeadInv
  <2>4. DatabaseBestChain!Adopt(pindexIntermediate)
    BY <2>1, <2>2, <2>3 DEF DatabaseBestChain!Adopt, ValidBranches
  <2> QED
    BY <2>2, <2>4 DEF DatabaseBestChain!Next
<1>3. CASE SetBestChainInner
  <2>1. /\ InnerBlock \in Block \ {Genesis} /\ InnerBlock \in mapBlockIndex
        /\ hashPrevBlock[InnerBlock] = dbHashBestChain
        /\ dbHashBestChain' = InnerBlock /\ DOMAIN dbHeight' = DOMAIN dbHeight
        /\ Replay[InnerBlock].ok
        /\ DOMAIN dbHeight = mapBlockIndex
    BY <1>3, InnerBlockIndexed
    DEF SetBestChainInner, CommittedInv, ValidInv, SyncInv, IndexInv, Linked, AllRecorded,
        mapBlockIndex
  <2>2. BranchWork[InnerBlock] > BranchWork[dbHashBestChain]
    <3>1. BranchWork[dbHashBestChain] \in Nat /\ GetBlockWork[InnerBlock] \in Nat \ {0}
      BY <2>1, BranchWorkDef, BlockAssumption, WorkAssumption
    <3> QED
      BY <2>1, <3>1, BranchWorkDef
  <2>3. DatabaseBestChain!Adopt(InnerBlock)
    BY <2>1, <2>2 DEF DatabaseBestChain!Adopt, ValidBranches
  <2> QED
    BY <2>1, <2>3 DEF DatabaseBestChain!Next
<1>4. CASE UNCHANGED <<dbHeight, dbHashBestChain>>
  BY <1>4
<1> QED
  BY <1>1, <1>2, <1>3, <1>4, <1>5
  DEF DatabaseBestChain!Next, Next, Step, vars, memory, db, txn, locals, history, SetBestChain,
      Postpone, Reorganize, FindFork, DisconnectTip, ConnectNext, ReorganizeFails,
      InvalidChainFound, SetBestChainInnerFails, NewBestBlock, ExtendFault, ReorganizeFault,
      SecondaryFault, Crash, CrashWithHole, LoadChainWork, LoadBestChain

\* The database is a BestChain: its tip only ever moves to a block whose whole
\* branch is valid and has more work.  That no start-up refuses a block of the
\* chain, that no postponed block fails, that no record of a new block is lost
\* and that signatures above the checkpoint are verified are conditions, because
\* the code does not see to them.
THEOREM ChainImplementsBestChain ==
  ASSUME LateBlocks = {}
  PROVE  Spec /\ [](~ fSecondaryFailed /\ AllRecorded /\ SignaturesVerified)
           => ImplementsBestChain
<1> DEFINE Good == ~ fSecondaryFailed /\ AllRecorded /\ SignaturesVerified
           Ind == IInv /\ CommittedInv /\ CoinsInv
<1>1. Spec => []Ind
  BY CoinsInvariance
<1>2. Spec => []LeadInv
  BY LeadInvariance, PTL
<1>3. Init => ValidInv
  <2>1. Replay[Genesis].ok
    BY ReplayDef, BlockAssumption
  <2> QED
    BY <2>1 DEF Init, ValidInv
<1>4. Ind /\ Good /\ ValidInv /\ [Next]_vars => ValidInv'
  BY ValidStep
<1>5. Ind /\ LeadInv /\ Good /\ Good' /\ ValidInv /\ ValidInv' /\ [Next]_vars
        => [DatabaseBestChain!Next]_<<DOMAIN dbHeight, dbHashBestChain>>
  BY RefinementStep
<1>6. Init => DatabaseBestChain!Init
  BY DEF Init, DatabaseBestChain!Init
<1> HIDE DEF Good, Ind
<1>7. Spec /\ []Good => DatabaseBestChain!Spec
  BY <1>1, <1>2, <1>3, <1>4, <1>5, <1>6, PTL DEF Spec, DatabaseBestChain!Spec
<1> QED
  BY <1>7 DEF Good, ImplementsBestChain

\* When there is no checkpoint the signatures are always verified.
THEOREM ImplementsWithoutCheckpoints ==
  ASSUME LateBlocks = {}, GetTotalBlocksEstimate = 0
  PROVE  Spec /\ [](~ fSecondaryFailed /\ AllRecorded) => ImplementsBestChain
<1>1. IInv => SignaturesVerified
  <2>1. ASSUME IInv, nPhase \notin {"load", "holed"} PROVE fCheckSig
    <3>1. nHeight[pindexBest] \in Nat
      BY <2>1 DEF IInv, WorkInv, IndexInv, Linked, mapBlockIndex
    <3> QED
      BY <3>1 DEF fCheckSig, nBestHeight
  <2> QED
    BY <2>1 DEF SignaturesVerified
<1>2. Spec /\ [](~ fSecondaryFailed /\ AllRecorded)
        => [](~ fSecondaryFailed /\ AllRecorded /\ SignaturesVerified)
  BY <1>1, Invariance, PTL
<1> QED
  BY <1>2, ChainImplementsBestChain

----------------------------------------------------------------------------
(* The tip is the heaviest valid branch.                                   *)

\* The transactions of a branch, those of the first block apart.
BranchTx(b) == UNION {Transactions(a) : a \in Ancestors[b] \ {Genesis}}

\* No valid branch holds a transaction twice.  BIP30 allows that once all the
\* outputs are spent, and then a reorganisation can fail.
NoRepeats ==
  \A b \in ValidBranches \ {Genesis} :
    BranchTx(hashPrevBlock[b]) \cap Transactions(b) = {}

\* A coin is one of the outputs of its transaction.
LEMMA CoinIsOutput ==
  ASSUME NEW b \in Block, \A a \in Ancestors[b] \ {Genesis} : FitsBlock(a)
  PROVE  \A o \in Coins(b) : o[2] \in Outputs(o[1])
<1> DEFINE S == {x \in Block :
                   (\A a \in Ancestors[x] \ {Genesis} : FitsBlock(a)) =>
                     \A o \in Coins(x) : o[2] \in Outputs(o[1])}
<1>1. Genesis \in S
  BY ReplayDef, BlockAssumption DEF Coins
<1>2. ASSUME NEW x \in Block \ {Genesis}, hashPrevBlock[x] \in S PROVE x \in S
  <2> SUFFICES ASSUME \A a \in Ancestors[x] \ {Genesis} : FitsBlock(a), NEW o \in Coins(x)
               PROVE  o[2] \in Outputs(o[1])
    OBVIOUS
  <2>1. FitsBlock(x) /\ Ancestors[x] = {x} \cup Ancestors[hashPrevBlock[x]]
    BY AncestorsStep
  <2>2. CASE o \in Coins(hashPrevBlock[x])
    BY <1>2, <2>1, <2>2
  <2>3. CASE \E t \in Transactions(x) : \E n \in Outputs(t) : o = <<t, n>>
    BY <2>3
  <2> QED
    BY <2>1, <2>2, <2>3, CoinsStep
<1> HIDE DEF S
<1>3. Block \subseteq S
  BY <1>1, <1>2, TreeGrounded, WalkInduction
<1> QED
  BY <1>3 DEF S

\* The last block of a branch can be disconnected as long as the index has all
\* the records of the branch.
LEMMA DisconnectSucceeds ==
  ASSUME NEW b \in Block \ {Genesis}, NEW txindex, Reflects(txindex, b),
         DOMAIN txindex = BranchTx(b), NoRepeats, Replay[b].ok
  PROVE  DisconnectBlock(b, txindex)
<1> DEFINE pr == hashPrevBlock[b]
           C == Replay[pr].coins
<1>1. /\ pr \in Block
      /\ Ancestors[b] = {b} \cup Ancestors[pr]
      /\ DOMAIN vtx[b] = 1..Len(vtx[b])
      /\ FitsBlock(b)
      /\ \A a \in Ancestors[pr] \ {Genesis} : FitsBlock(a)
  BY AncestorsStep, EarlierAll DEF Reflects
<1>2. BranchTx(b) = BranchTx(pr) \cup Transactions(b)
  BY <1>1 DEF BranchTx
<1> SUFFICES ASSUME NEW i \in 1..Len(vtx[b]), NEW in \in vin[vtx[b][i]]
             PROVE  /\ in[1] \in DOMAIN txindex
                    /\ \A k \in 1..Len(vtx[b]) : k > i => vtx[b][k] # in[1]
                    /\ in[2] \in Outputs(in[1])
  BY <1>1 DEF DisconnectBlock
<1>3. IF in[1] \in Earlier(b, i) THEN in[2] \in Outputs(in[1])
      ELSE in[1] \notin Transactions(b) /\ in \in Outs(C)
  BY <1>1 DEF FitsBlock, FitsTx
<1>4. CASE in[1] \in Earlier(b, i)
  <2>1. PICK j \in 1..(i - 1) : in[1] = vtx[b][j]
    BY <1>4 DEF Earlier
  <2>2. j \in 1..Len(vtx[b]) /\ Len(vtx[b]) \in Nat
    BY EarlierAll
  <2>3. \A k \in 1..Len(vtx[b]) : k > i => vtx[b][k] # in[1]
    BY <1>1, <2>1, <2>2, UniqueTxAssumption
  <2>4. in[1] \in Transactions(b)
    BY <1>4, EarlierStep
  <2> QED
    BY <1>2, <1>3, <1>4, <2>3, <2>4
<1>5. CASE in[1] \notin Earlier(b, i)
  <2>1. in[1] \notin Transactions(b) /\ in \in Outs(C)
    BY <1>3, <1>5
  <2>2. PICK c \in C : c.out = in
    BY <2>1 DEF Outs
  <2>3. PICK a \in Block : Newest(a, in[1], pr)
    BY <1>1, <2>2, CoinAge
  <2>4. in[1] \in BranchTx(pr)
    BY <2>3 DEF Newest, BranchTx
  <2>5. in[2] \in Outputs(in[1])
    BY <1>1, <2>2, CoinIsOutput DEF Coins
  <2>6. \A k \in 1..Len(vtx[b]) : vtx[b][k] # in[1]
    BY <1>1, <2>1 DEF Transactions
  <2> QED
    BY <1>2, <2>4, <2>5, <2>6
<1> QED
  BY <1>4, <1>5

\* The branch of a valid block is valid.
LEMMA ValidBelow ==
  ASSUME NEW b \in Block, Replay[b].ok
  PROVE  \A a \in Ancestors[b] : Replay[a].ok
<1> DEFINE S == {x \in Block : Replay[x].ok => \A a \in Ancestors[x] : Replay[a].ok}
<1>1. Genesis \in S
  BY AncestorsStep, BlockAssumption
<1>2. ASSUME NEW x \in Block \ {Genesis}, hashPrevBlock[x] \in S PROVE x \in S
  <2>1. /\ Ancestors[x] = {x} \cup Ancestors[hashPrevBlock[x]]
        /\ Replay[x].ok => Replay[hashPrevBlock[x]].ok
    BY AncestorsStep, ReplayStep
  <2> QED
    BY <1>2, <2>1
<1> HIDE DEF S
<1>3. Block \subseteq S
  BY <1>1, <1>2, TreeGrounded, WalkInduction
<1> QED
  BY <1>3 DEF S

\* The index has the records of the whole branch.
RecordsInv ==
  /\ DOMAIN dbTxIndex = BranchTx(dbHashBestChain)
  /\ nPhase = "reorganize" => DOMAIN txnTxIndex = BranchTx(pindex)

\* One block more, or less.
LEMMA BranchTxStep ==
  ASSUME NEW b \in Block \ {Genesis}
  PROVE  BranchTx(b) = BranchTx(hashPrevBlock[b]) \cup Transactions(b)
BY AncestorsStep DEF BranchTx

\* Every step keeps the records.
LEMMA RecordsStep ==
  ASSUME NoRepeats, IInv, CommittedInv, CoinsInv, ValidInv, RecordsInv,
         ~ fSecondaryFailed, [Next]_vars
  PROVE  RecordsInv'
<1> USE DEF IInv
<1>1. CASE DisconnectTip
  <2>1. /\ nPhase = "reorganize" /\ pindex \in Block \ {Genesis}
        /\ pindex' = hashPrevBlock[pindex]
        /\ txnTxIndex' = Disconnected(pindex, txnTxIndex)
        /\ UNCHANGED <<dbHashBestChain, dbTxIndex>>
    BY <1>1 DEF DisconnectTip, ForkInv, Segment, TypeOK, db
  <2>2. DOMAIN txnTxIndex' = DOMAIN txnTxIndex \ Transactions(pindex)
    BY <2>1 DEF Disconnected
  <2>3. BranchTx(pindex') \cap Transactions(pindex) = {}
    BY <2>1 DEF NoRepeats, ValidInv, ValidBranches
  <2>4. DOMAIN txnTxIndex' = BranchTx(pindex')
    BY <2>1, <2>2, <2>3, BranchTxStep DEF RecordsInv
  <2> QED
    BY <2>1, <2>4 DEF RecordsInv
<1>2. CASE ConnectNext
  <2>1. PICK b \in vConnect : /\ hashPrevBlock[b] = pindex
                              /\ txnTxIndex' = Connected(b, txnTxIndex)
                              /\ pindex' = b
    BY <1>2 DEF ConnectNext
  <2>2. /\ nPhase = "reorganize" /\ b \in Block \ {Genesis}
        /\ UNCHANGED <<dbHashBestChain, dbTxIndex>>
    BY <1>2 DEF ConnectNext, ForkInv, Segment, TypeOK, db
  <2>3. DOMAIN txnTxIndex' = DOMAIN txnTxIndex \cup Transactions(b)
    BY <2>1 DEF Connected
  <2> QED
    BY <2>1, <2>2, <2>3, BranchTxStep DEF RecordsInv
<1>3. CASE CommitReorganize
  BY <1>3 DEF CommitReorganize, RecordsInv
<1>4. CASE SetBestChainInner
  <2>1. /\ InnerBlock \in Block \ {Genesis}
        /\ hashPrevBlock[InnerBlock] = dbHashBestChain
        /\ dbTxIndex' = Connected(InnerBlock, dbTxIndex)
        /\ dbHashBestChain' = InnerBlock
        /\ nPhase' # "reorganize"
    BY <1>4, InnerBlockIndexed
    DEF SetBestChainInner, CommittedInv, CoinsInv, SyncInv, IndexInv, Linked, mapBlockIndex
  <2>2. DOMAIN dbTxIndex' = DOMAIN dbTxIndex \cup Transactions(InnerBlock)
    BY <2>1 DEF Connected
  <2> QED
    BY <2>1, <2>2, BranchTxStep DEF RecordsInv
<1>5. CASE FindFork
  <2>1. txnTxIndex = dbTxIndex /\ pindex = dbHashBestChain
    BY <1>5 DEF FindFork, TxnInv, SyncInv, CoinsInv
  <2> QED
    BY <1>5, <2>1 DEF FindFork, RecordsInv, db, txn
<1>6. CASE /\ UNCHANGED <<dbHashBestChain, dbTxIndex>>
           /\ nPhase' = "reorganize" => nPhase = "reorganize" /\ UNCHANGED <<pindex, txnTxIndex>>
  BY <1>6 DEF RecordsInv
<1> QED
  BY <1>1, <1>2, <1>3, <1>4, <1>5, <1>6
  DEF Next, Step, vars, memory, db, txn, locals, history, AcceptBlock, AddToBlockIndexFails,
      RecordIsLost, InsertBlock, SetBestChain, Postpone,
      Reorganize, ReorganizeFails, InvalidChainFound, SetBestChainInnerFails, NewBestBlock,
      ExtendFault, ReorganizeFault, SecondaryFault, Crash, CrashWithHole, LoadChainWork,
      LoadBestChain

\* As long as no postponed block fails and signatures are verified.
LEMMA RecordsInvariance ==
  ASSUME NoRepeats
  PROVE  Spec /\ [](~ fSecondaryFailed /\ SignaturesVerified)
           => [](IInv /\ CoinsInv /\ ValidInv /\ RecordsInv)
<1> DEFINE Good == ~ fSecondaryFailed /\ SignaturesVerified
           Ind == IInv /\ CommittedInv /\ CoinsInv
           Rec == ValidInv /\ RecordsInv
<1>1. Init => Rec
  <2>1. Replay[Genesis].ok
    BY ReplayDef, BlockAssumption
  <2>2. BranchTx(Genesis) = {}
    BY AncestorsStep DEF BranchTx
  <2> QED
    BY <2>1, <2>2 DEF Init, ValidInv, RecordsInv
<1>2. Ind /\ Good /\ Rec /\ [Next]_vars => Rec'
  BY ValidStep, RecordsStep
<1> HIDE DEF Good
<1>3. Spec /\ []Good => [](Ind /\ Rec)
  BY <1>1, <1>2, CoinsInvariance, PTL DEF Spec
<1>4. Ind /\ Rec => IInv /\ CoinsInv /\ ValidInv /\ RecordsInv
  OBVIOUS
<1>5. Spec /\ []Good => [](IInv /\ CoinsInv /\ ValidInv /\ RecordsInv)
  BY <1>3, <1>4, PTL
<1> QED
  BY <1>5 DEF Good

\* What the transactions of a valid branch spend are outputs of its transactions,
\* and none of them is a coin any more.
LEMMA BranchSpends ==
  ASSUME NoRepeats, NEW b \in Block, Replay[b].ok
  PROVE  \A t \in BranchTx(b) : \A in \in vin[t] :
           /\ in[1] \in BranchTx(b) /\ in[2] \in Outputs(in[1])
           /\ in \notin Coins(b)
<1> DEFINE Spends(x) == \A t \in BranchTx(x) : \A in \in vin[t] :
                          /\ in[1] \in BranchTx(x) /\ in[2] \in Outputs(in[1])
                          /\ in \notin Coins(x)
           S == {x \in Block : Replay[x].ok => Spends(x)}
<1>1. Genesis \in S
  <2>1. BranchTx(Genesis) = {} /\ Genesis \in Block
    BY AncestorsStep, BlockAssumption DEF BranchTx
  <2> QED
    BY <2>1
<1>2. ASSUME NEW x \in Block \ {Genesis}, hashPrevBlock[x] \in S PROVE x \in S
  <2> DEFINE pr == hashPrevBlock[x]
  <2> SUFFICES ASSUME Replay[x].ok PROVE Spends(x)
    OBVIOUS
  <2>1. /\ pr \in Block /\ Replay[pr].ok /\ FitsBlock(x) /\ Spends(pr)
        /\ BranchTx(x) = BranchTx(pr) \cup Transactions(x)
        /\ BranchTx(pr) \cap Transactions(x) = {}
    BY <1>2, ReplayStep, AncestorsStep, BranchTxStep DEF NoRepeats, ValidBranches
  <2>2. \A a \in Ancestors[pr] \ {Genesis} : FitsBlock(a)
    <3>1. Ancestors[pr] \subseteq Block /\ \A a \in Ancestors[pr] : Replay[a].ok
      BY <2>1, ValidBelow, AncestorsType
    <3> QED
      BY <3>1, ReplayStep
  <2> SUFFICES ASSUME NEW t \in BranchTx(x), NEW in \in vin[t]
               PROVE  /\ in[1] \in BranchTx(x) /\ in[2] \in Outputs(in[1])
                      /\ in \notin Coins(x)
    OBVIOUS
  <2>3. CASE t \in BranchTx(pr)
    <3>1. in[1] \in BranchTx(pr) /\ in[2] \in Outputs(in[1]) /\ in \notin Coins(pr)
      BY <2>1, <2>3
    <3>2. ~ \E u \in Transactions(x) : \E n \in Outputs(u) : in = <<u, n>>
      BY <2>1, <3>1
    <3> QED
      BY <2>1, <3>1, <3>2, CoinsStep
  <2>4. CASE t \in Transactions(x)
    <3>1. PICK i \in 1..Len(vtx[x]) : t = vtx[x][i]
      BY <2>4, EarlierAll DEF Transactions
    <3>2. in \in Spent(x)
      BY <3>1, SpentByOne
    <3>3. in \notin Coins(x)
      BY <2>1, <3>2, CoinsStep
    <3>4. IF in[1] \in Earlier(x, i) THEN in[2] \in Outputs(in[1])
          ELSE in[1] \notin Transactions(x) /\ in \in Outs(Replay[pr].coins)
      BY <2>1, <3>1 DEF FitsBlock, FitsTx
    <3>5. CASE in[1] \in Earlier(x, i)
      <4>1. in[1] \in Transactions(x)
        BY <3>1, <3>5, EarlierStep
      <4> QED
        BY <2>1, <3>3, <3>4, <3>5, <4>1
    <3>6. CASE in[1] \notin Earlier(x, i)
      <4>1. PICK c \in Replay[pr].coins : c.out = in
        BY <3>4, <3>6 DEF Outs
      <4>2. PICK a \in Block : Newest(a, in[1], pr)
        BY <2>1, <2>2, <4>1, CoinAge
      <4>3. in[1] \in BranchTx(pr)
        BY <4>2 DEF Newest, BranchTx
      <4>4. in[2] \in Outputs(in[1])
        BY <2>1, <2>2, <4>1, CoinIsOutput DEF Coins
      <4> QED
        BY <2>1, <3>3, <4>3, <4>4
    <3> QED
      BY <3>5, <3>6
  <2> QED
    BY <2>1, <2>3, <2>4
<1> HIDE DEF S
<1>3. Block \subseteq S
  BY <1>1, <1>2, TreeGrounded, WalkInduction
<1> QED
  BY <1>3 DEF S

\* So an index that reflects such a branch has what its transactions spend, as spent.
LEMMA IndexSpends ==
  ASSUME NoRepeats, NEW b \in Block, Replay[b].ok,
         NEW txindex, Reflects(txindex, b), DOMAIN txindex = BranchTx(b)
  PROVE  \A t \in BranchTx(b) : \A in \in vin[t] :
           in[1] \in DOMAIN txindex /\ in[2] \in txindex[in[1]].vSpent
<1> SUFFICES ASSUME NEW t \in BranchTx(b), NEW in \in vin[t]
             PROVE  in[1] \in DOMAIN txindex /\ in[2] \in txindex[in[1]].vSpent
  OBVIOUS
<1>1. in[1] \in DOMAIN txindex /\ in[2] \in Outputs(in[1]) /\ in \notin Unspent(txindex)
  BY BranchSpends DEF Reflects
<1>2. in = <<in[1], in[2]>>
  <2>1. t \in Tx
    BY AncestorsType, TransactionsType DEF BranchTx
  <2> QED
    BY <2>1, TxAssumption
<1> QED
  BY <1>1, <1>2, InUnspent

\* A signature that does not verify is found above the last checkpoint only.
BadSigsAbove == \A b \in BadSig \ {Genesis} : Height(b) > GetTotalBlocksEstimate

\* A block whose branch is valid connects.
LEMMA ValidConnects ==
  ASSUME BadSigsAbove, NEW b \in Block \ {Genesis}, Replay[b].ok,
         NEW txindex, Reflects(txindex, hashPrevBlock[b])
  PROVE  ConnectBlock(b, txindex, fCheckSig)
<1>1. Checked(b) /\ FitsBlock(b) /\ Matures(b)
  BY ReplayStep
<1>2. b \notin BadValue /\ b \notin BadSig
  BY <1>1 DEF Checked, BadSigsAbove
<1>3. fCheckSig \in BOOLEAN
  BY DEF fCheckSig
<1> QED
  BY <1>1, <1>2, <1>3, ConnectIsReplay

\* So a reorganisation only fails when the new branch is not valid.
LEMMA ReorganizeFailsInvalid ==
  ASSUME NoRepeats, BadSigsAbove, IInv, CoinsInv, ValidInv, RecordsInv,
         ~ fSecondaryFailed, ReorganizeFails
  PROVE  ~ Replay[pindexNew].ok
<1> USE DEF IInv
<1> SUFFICES ASSUME Replay[pindexNew].ok PROVE FALSE
  OBVIOUS
<1>1. /\ nPhase = "reorganize"
      /\ Linked(nHeight)
      /\ pindexNew \in Block
      /\ Segment(vpindexSecondary, pindexIntermediate, pindexNew, nHeight)
      /\ Segment(vConnect, plonger, pindexIntermediate, nHeight)
      /\ vDisconnect \subseteq Block \ {Genesis}
      /\ vConnect \subseteq Block \ {Genesis}
      /\ Reflects(txnTxIndex, pindex)
      /\ DOMAIN txnTxIndex = BranchTx(pindex)
      /\ Replay[pindex].ok
  BY DEF ReorganizeFails, TypeOK, IndexInv, PostponedInv, ForkInv, Segment, CoinsInv,
         RecordsInv, ValidInv
<1>2. CASE pindex \in vDisconnect
  <2>1. ~ DisconnectBlock(pindex, txnTxIndex)
    BY <1>2 DEF ReorganizeFails
  <2> QED
    BY <1>1, <1>2, <2>1, DisconnectSucceeds
<1>3. CASE pindex \notin vDisconnect
  <2>1. PICK b \in vConnect : /\ hashPrevBlock[b] = pindex
                              /\ ~ ConnectBlock(b, txnTxIndex, fCheckSig)
    BY <1>3 DEF ReorganizeFails
  <2>2. b \in Ancestors[pindexIntermediate]
    BY <1>1, SegmentBranch
  <2>3. /\ Ancestors[pindexIntermediate] \subseteq Ancestors[pindexNew]
    BY <1>1, SegmentBranch
  <2>4. Replay[b].ok
    BY <1>1, <2>2, <2>3, ValidBelow
  <2> QED
    BY <1>1, <2>1, <2>4, ValidConnects
<1> QED
  BY <1>2, <1>3

\* Without crashes and errors: every valid branch that is indexed, but for the
\* one SetBestChain is working on, has at most the work of the tip.
HeaviestInv ==
  nCrashes = 0 /\ nFaults = 0 =>
    /\ nPhase \notin {"load", "holed", "secondary"}
    /\ ~ fSecondaryFailed
    /\ WorkLead /\ LeadInv /\ ValidInv /\ RecordsInv
    /\ \A b \in mapBlockIndex \cap ValidBranches :
         nPhase = "idle" \/ b # pindexNew => BranchWork[b] <= bnBestChainWork

\* A reorganisation has no blocks to postpone: the one it stops at would have
\* been a valid branch with more work than the tip before.
LEMMA NothingPostponed ==
  ASSUME IInv, HeaviestInv, nCrashes = 0, nFaults = 0, CommitReorganize
  PROVE  pindexIntermediate = pindexNew /\ vpindexSecondary = {}
<1> USE DEF IInv
<1>1. /\ nPhase = "reorganize"
      /\ pindex = pindexIntermediate
      /\ Replay[pindexIntermediate].ok
      /\ bnChainWork[pindexIntermediate] > bnBestChainWork
      /\ \A b \in DOMAIN bnChainWork : bnChainWork[b] = BranchWork[b]
      /\ Segment(vpindexSecondary, pindexIntermediate, pindexNew, nHeight)
      /\ pindexIntermediate \in mapBlockIndex \cap Block
      /\ DOMAIN bnChainWork = mapBlockIndex
      /\ bnBestChainWork \in Nat
  BY DEF CommitReorganize, HeaviestInv, ValidInv, LeadInv, PostponedInv, Segment, WorkInv,
         TypeOK, mapBlockIndex
<1>2. BranchWork[pindexIntermediate] \in Nat /\ BranchWork[pindexIntermediate] > bnBestChainWork
  BY <1>1, BranchWorkDef
<1>3. pindexIntermediate \in ValidBranches
  BY <1>1 DEF ValidBranches
<1>4. pindexIntermediate = pindexNew
  BY <1>1, <1>2, <1>3 DEF HeaviestInv
<1>5. vpindexSecondary = {}
  <2> SUFFICES ASSUME NEW b \in vpindexSecondary PROVE FALSE
    OBVIOUS
  <2>1. /\ b \in DOMAIN nHeight
        /\ nHeight[pindexNew] < nHeight[b] /\ nHeight[b] <= nHeight[pindexNew]
        /\ nHeight[b] \in Nat /\ nHeight[pindexNew] \in Nat
    BY <1>1, <1>4 DEF Segment, IndexInv, Linked, mapBlockIndex
  <2> QED
    BY <2>1
<1> QED
  BY <1>4, <1>5

\* Every step keeps the tip the heaviest.
LEMMA HeaviestStep ==
  ASSUME NoRepeats, BadSigsAbove, SignaturesVerified,
         IInv, IInv', CommittedInv, CoinsInv, HeaviestInv, [Next]_vars
  PROVE  HeaviestInv'
<1> USE DEF IInv
<1> SUFFICES ASSUME nCrashes' = 0, nFaults' = 0 PROVE HeaviestInv'
  BY DEF HeaviestInv
<1>0. nCrashes \in Nat /\ nFaults \in Nat
  BY DEF TypeOK
<1>1. \/ nCrashes' = nCrashes /\ nFaults' = nFaults
      \/ nCrashes' = nCrashes + 1
      \/ nFaults' = nFaults + 1
  <2>1. CASE UNCHANGED vars
    BY <2>1 DEF vars, history
  <2>2. CASE \E b \in Block : AcceptBlock(b)
    BY <2>2 DEF AcceptBlock, InsertBlock, history
  <2>6. CASE \E b \in Block : AddToBlockIndexFails(b) \/ RecordIsLost(b)
    BY <2>6 DEF AddToBlockIndexFails, RecordIsLost, Fault
  <2>3. CASE Step
    BY <2>3 DEF Step, SetBestChain, Postpone, Reorganize, FindFork, DisconnectTip, ConnectNext,
                CommitReorganize, ReorganizeFails, SetBestChainInner, SetBestChainInnerFails,
                NewBestBlock, LoadChainWork, LoadBestChain, history
  <2>4. CASE ExtendFault \/ ReorganizeFault \/ SecondaryFault
    BY <2>4 DEF ExtendFault, ReorganizeFault, SecondaryFault, Fault
  <2>5. CASE Crash \/ CrashWithHole
    BY <2>5 DEF Crash, CrashWithHole
  <2> QED
    BY <2>1, <2>2, <2>3, <2>4, <2>5, <2>6 DEF Next
<1>2. nCrashes = 0 /\ nFaults = 0
  BY <1>0, <1>1
<1>3. /\ ~ Crash /\ ~ CrashWithHole /\ ~ ExtendFault /\ ~ ReorganizeFault /\ ~ SecondaryFault
      /\ \A b \in Block : ~ AddToBlockIndexFails(b) /\ ~ RecordIsLost(b)
  BY <1>2 DEF Crash, CrashWithHole, ExtendFault, ReorganizeFault, SecondaryFault, Fault,
              AddToBlockIndexFails, RecordIsLost
<1>4. /\ nPhase \notin {"load", "holed", "secondary"} /\ ~ fSecondaryFailed
      /\ WorkLead /\ LeadInv /\ ValidInv /\ RecordsInv
      /\ \A b \in mapBlockIndex \cap ValidBranches :
           nPhase = "idle" \/ b # pindexNew => BranchWork[b] <= bnBestChainWork
  BY <1>2 DEF HeaviestInv
<1>5. WorkLead' /\ LeadInv' /\ ValidInv' /\ RecordsInv'
  BY <1>4, WorkLeadStep, LeadStep, ValidStep, RecordsStep
<1>6. /\ DOMAIN bnChainWork = mapBlockIndex
      /\ mapBlockIndex \subseteq Block
      /\ \A b \in mapBlockIndex : bnChainWork[b] = BranchWork[b]
      /\ \A b \in mapBlockIndex : BranchWork[b] \in Nat
      /\ bnBestChainWork \in Nat
      /\ nPhase # "idle" => pindexNew \in mapBlockIndex
  <2>1. mapBlockIndex \subseteq Block /\ DOMAIN bnChainWork = mapBlockIndex /\ bnBestChainWork \in Nat
    BY <1>4 DEF WorkInv, TypeOK
  <2>2. nPhase # "idle" => pindexNew \in mapBlockIndex
    BY <1>4 DEF SyncInv
  <2> QED
    BY <1>4, <2>1, <2>2, BranchWorkDef DEF LeadInv
<1> SUFFICES /\ nPhase' \notin {"load", "holed", "secondary"} /\ ~ fSecondaryFailed'
             /\ \A b \in mapBlockIndex' \cap ValidBranches :
                  nPhase' = "idle" \/ b # pindexNew' => BranchWork[b] <= bnBestChainWork'
  BY <1>5 DEF HeaviestInv
<1> DEFINE Goal == /\ nPhase' \notin {"load", "holed", "secondary"} /\ ~ fSecondaryFailed'
                   /\ \A b \in mapBlockIndex' \cap ValidBranches :
                        nPhase' = "idle" \/ b # pindexNew' => BranchWork[b] <= bnBestChainWork'
<1>7. ASSUME NEW b \in Block, AcceptBlock(b) PROVE Goal
  <2>1. /\ nPhase = "idle" /\ nPhase' \in {"idle", "setbest"}
        /\ mapBlockIndex' = mapBlockIndex \cup {b}
        /\ pindexNew' = b
        /\ bnBestChainWork' = bnBestChainWork
        /\ fSecondaryFailed' = fSecondaryFailed
        /\ bnChainWork'[b] = bnChainWork[hashPrevBlock[b]] + GetBlockWork[b]
        /\ nPhase' = "idle" => ~ bnChainWork[hashPrevBlock[b]] + GetBlockWork[b] > bnBestChainWork
    BY <1>7 DEF AcceptBlock, InsertBlock, IsNewBest, mapBlockIndex, history
  <2>2. bnChainWork'[b] = BranchWork[b]
    <3>1. b \in DOMAIN bnChainWork'
      BY <1>7 DEF AcceptBlock, InsertBlock
    <3> QED
      BY <3>1, <1>5 DEF LeadInv
  <2>3. nPhase' = "idle" => BranchWork[b] <= bnBestChainWork
    <3>1. BranchWork[b] \in Nat
      BY BranchWorkDef
    <3> QED
      BY <2>1, <2>2, <3>1, <1>6
  <2> QED
    BY <1>4, <2>1, <2>3
<1>8. CASE Step
  <2>1. CASE SetBestChain \/ Postpone \/ Reorganize \/ FindFork \/ DisconnectTip \/ ConnectNext
    BY <2>1, <1>4 DEF SetBestChain, Postpone, Reorganize, FindFork, DisconnectTip, ConnectNext,
                      memory, locals, history, mapBlockIndex
  <2>2. CASE CommitReorganize
    <3>1. vpindexSecondary = {}
      BY <2>2, <1>2, NothingPostponed
    <3> QED
      BY <2>2, <3>1, <1>4 DEF CommitReorganize, locals, history, mapBlockIndex
  <2>3. CASE ReorganizeFails
    <3>1. ~ Replay[pindexNew].ok
      BY <2>3, <1>4, ReorganizeFailsInvalid
    <3> QED
      BY <2>3, <3>1, <1>4 DEF ReorganizeFails, ValidBranches, locals, history, mapBlockIndex
  <2>4. CASE SetBestChainInner
    <3>1. nPhase = "extend" /\ vpindexSecondary = {}
      BY <2>4, <1>4 DEF SetBestChainInner, SyncInv
    <3> QED
      BY <2>4, <3>1, <1>4 DEF SetBestChainInner, locals, history, mapBlockIndex
  <2>5. CASE SetBestChainInnerFails
    <3>1. nPhase = "extend" /\ ~ ConnectBlock(pindexNew, txnTxIndex, fCheckSig)
      BY <2>5, <1>4 DEF SetBestChainInnerFails, InnerBlock
    <3>2. /\ pindexNew \in Block \ {Genesis}
          /\ Reflects(txnTxIndex, hashPrevBlock[pindexNew])
      BY <3>1, <1>4 DEF SyncInv, CoinsInv, TypeOK
    <3>3. ~ Replay[pindexNew].ok
      BY <3>1, <3>2, ValidConnects
    <3> QED
      BY <2>5, <3>1, <3>3, <1>4 DEF SetBestChainInnerFails, ValidBranches, locals, history,
                               mapBlockIndex
  <2>6. CASE NewBestBlock
    <3>1. /\ nPhase = "publish" /\ nPhase' = "idle"
          /\ mapBlockIndex' = mapBlockIndex
          /\ bnBestChainWork' = BranchWork[pindexNew]
          /\ fSecondaryFailed' = fSecondaryFailed
      BY <2>6, <1>6 DEF NewBestBlock, mapBlockIndex, history
    <3>2. BranchWork[pindexNew] > bnBestChainWork
      BY <3>1, <1>4, <1>6 DEF WorkLead
    <3>3. \A b \in mapBlockIndex \cap ValidBranches : BranchWork[b] <= BranchWork[pindexNew]
      <4> TAKE b \in mapBlockIndex \cap ValidBranches
      <4>1. CASE b = pindexNew
        BY <4>1, <1>6
      <4>2. CASE b # pindexNew
        <5>1. BranchWork[b] <= bnBestChainWork
          BY <4>2, <1>4
        <5>2. BranchWork[b] \in Nat /\ BranchWork[pindexNew] \in Nat /\ bnBestChainWork \in Nat
          BY <1>6, <3>1
        <5> QED
          BY <5>1, <5>2, <3>2
      <4> QED
        BY <4>1, <4>2
    <3> QED
      BY <3>1, <3>3, <1>4
  <2>7. CASE LoadChainWork \/ LoadBestChain
    BY <2>7, <1>4 DEF LoadChainWork, LoadBestChain
  <2> QED
    BY <1>8, <2>1, <2>2, <2>3, <2>4, <2>5, <2>6, <2>7 DEF Step
<1>9. CASE UNCHANGED vars
  BY <1>9, <1>4 DEF vars, memory, locals, history, mapBlockIndex
<1> QED
  BY <1>3, <1>7, <1>8, <1>9 DEF Next

\* So it begins.
LEMMA HeaviestInit == Init => HeaviestInv
<1> SUFFICES ASSUME Init PROVE HeaviestInv
  OBVIOUS
<1>1. mapBlockIndex = {Genesis} /\ bnBestChainWork = BranchWork[Genesis] /\ Genesis \in Block
  BY BranchWorkDef, BlockAssumption DEF Init, mapBlockIndex
<1>2. BranchWork[Genesis] \in Nat
  BY <1>1, BranchWorkDef
<1>3. Replay[Genesis].ok
  <2>1. Replay[Genesis] = [ok |-> TRUE, coins |-> {}]
    BY <1>1, ReplayDef
  <2> QED
    BY <2>1
<1>4. BranchTx(Genesis) = {}
  BY AncestorsStep DEF BranchTx
<1> QED
  BY <1>1, <1>2, <1>3, <1>4 DEF Init, HeaviestInv, WorkLead, LeadInv, ValidInv, RecordsInv

\* Between blocks the invariant says what TipIsHeaviest does.
LEMMA HeaviestIsTip == IInv /\ HeaviestInv => TipIsHeaviest
<1> SUFFICES ASSUME IInv, HeaviestInv, nPhase = "idle", nCrashes = 0, nFaults = 0
             PROVE  \A b \in mapBlockIndex \cap ValidBranches :
                      BranchWork[b] <= BranchWork[pindexBest]
  BY DEF TipIsHeaviest
<1>1. bnBestChainWork = bnChainWork[pindexBest] /\ pindexBest \in DOMAIN bnChainWork
  BY DEF IInv, WorkInv
<1>2. bnBestChainWork = BranchWork[pindexBest]
  BY <1>1 DEF HeaviestInv, LeadInv
<1> QED
  BY <1>2 DEF HeaviestInv

\* TipIsHeaviest (AddToBlockIndex, SetBestChain and Reorganize): without crashes
\* and errors, and as long as the signatures of the blocks that connect are
\* verified, no valid branch that is indexed has more work than the tip.  No
\* valid branch may repeat a transaction, as in CheckBlock's comment on
\* duplicate coinbases: one that repeats it cannot be disconnected.
THEOREM TipStaysHeaviest ==
  ASSUME NoRepeats, BadSigsAbove
  PROVE  Spec /\ []SignaturesVerified => []TipIsHeaviest
<1>1. IInv /\ IInv' /\ CommittedInv /\ CoinsInv /\ HeaviestInv /\ SignaturesVerified
        /\ [Next]_vars => HeaviestInv'
  BY HeaviestStep
<1> QED
  BY <1>1, HeaviestInit, HeaviestIsTip, Invariance, CoinsInvariance, PTL DEF Spec
=============================================================================
