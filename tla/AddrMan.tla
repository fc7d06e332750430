------------------------------ MODULE AddrMan ------------------------------
(***************************************************************************)
(* The address manager (CAddrMan): the addresses a node has heard of, in   *)
(* "new" and "tried" buckets of limited size, with the indexes that let it *)
(* pick one at random.  Every operation holds the manager's lock.          *)
(*                                                                         *)
(* An address is its own id, and which bucket it falls into is a constant  *)
(* in place of the hashes.  Of its times only that of the last success is  *)
(* kept, so any member of a full "new" bucket may be the one to go.        *)
(***************************************************************************)
EXTENDS Integers, Sequences, FiniteSets, SequencesExt

CONSTANTS
  Addrs,              \* addresses without their ports
  NewBucketOf,        \* NewBucketOf[a]: the buckets a's sources lead to, the first source first
  TriedBucketOf,      \* TriedBucketOf[a]: its bucket in vvTried
  NEW_BUCKET_SIZE, TRIED_BUCKET_SIZE,
  NEW_BUCKETS_PER_ADDRESS,
  TRIED_ENTRIES_INSPECT_ON_EVICT,
  GETADDR_MAX_PCT

NewBuckets == UNION {Range(NewBucketOf[a]) : a \in Addrs}
TriedBuckets == {TriedBucketOf[a] : a \in Addrs}

ASSUME AddrManAssumption ==
  /\ IsFiniteSet(Addrs) /\ IsFiniteSet(NewBuckets)
  /\ {NEW_BUCKET_SIZE, TRIED_BUCKET_SIZE, NEW_BUCKETS_PER_ADDRESS,
      TRIED_ENTRIES_INSPECT_ON_EVICT} \subseteq Nat \ {0}
  /\ GETADDR_MAX_PCT \in 0..100

VARIABLES
  mapInfo,  \* entries: source, nLastSuccess, nRefCount, fInTried, nRandomPos
  vRandom,  \* all of them
  vvNew, nNew, vvTried, nTried

addrVars == <<mapInfo, vRandom, vvNew, nNew, vvTried, nTried>>

\* The operations work on a record of the tables.
Tables == [info |-> mapInfo, random |-> vRandom, new |-> vvNew, nNew |-> nNew,
           tried |-> vvTried, nTried |-> nTried]

BecomesTables(m) ==
  /\ mapInfo' = m.info /\ vRandom' = m.random
  /\ vvNew' = m.new /\ nNew' = m.nNew /\ vvTried' = m.tried /\ nTried' = m.nTried

NoTables == [info |-> <<>>, random |-> <<>>, new |-> [b \in NewBuckets |-> {}], nNew |-> 0,
             tried |-> [b \in TriedBuckets |-> <<>>], nTried |-> 0]

AddrManInit ==
  /\ mapInfo = NoTables.info /\ vRandom = NoTables.random
  /\ vvNew = NoTables.new /\ nNew = NoTables.nNew
  /\ vvTried = NoTables.tried /\ nTried = NoTables.nTried

Known(m) == DOMAIN m.info

----------------------------------------------------------------------------
(* Entries *)

Create(m, a, source) ==
  LET entry == [source |-> source, last |-> 0, ref |-> 0, tried |-> FALSE,
                pos |-> Len(m.random) + 1]
  IN  [m EXCEPT !.info = [x \in DOMAIN @ \cup {a} |-> IF x = a THEN entry ELSE @[x]],
                !.random = Append(@, a)]

SwapRandom(m, i, j) ==
  LET a == m.random[i]
      b == m.random[j]
  IN  [m EXCEPT !.info[a].pos = j, !.info[b].pos = i,
                !.random[i] = b, !.random[j] = a]

\* Mutant: the last entry is dropped where it stands.
EraseLast(m, a) ==
  [m EXCEPT !.random = SubSeq(@, 1, Len(@) - 1),
            !.info = [x \in DOMAIN @ \ {a} |-> @[x]],
            !.nNew = @ - 1]

\* The last entry takes the place of the one that goes.
Erase(m, a) ==
  LET swapped == SwapRandom(m, m.info[a].pos, Len(m.random))
  IN  [swapped EXCEPT !.random = SubSeq(@, 1, Len(@) - 1),
                      !.info = [x \in DOMAIN @ \ {a} |-> @[x]],
                      !.nNew = @ - 1]

\* ShrinkNew takes a terrible entry, or the oldest of four picked at random, out
\* of the bucket, and deletes it when no other bucket has it.
ShrinkNew(m, b, a) ==
  LET m1 == [m EXCEPT !.info[a].ref = @ - 1, !.new[b] = @ \ {a}]
  IN  IF m1.info[a].ref = 0 THEN Erase(m1, a) ELSE m1

----------------------------------------------------------------------------
(* Add_ *)

\* A known entry gains a bucket only while it is not tried, has room for one
\* more, and chance is with it.
MayAdd(m, a) ==
  a \in Known(m) => /\ ~m.info[a].tried
                    /\ m.info[a].ref # NEW_BUCKETS_PER_ADDRESS

InsertNew(m, a, b) ==
  [m EXCEPT !.info[a].ref = @ + 1, !.new[b] = @ \cup {a}]

Add(a, source) ==
  /\ MayAdd(Tables, a)
  /\ LET b == NewBucketOf[a][source]
         m == IF a \in Known(Tables) THEN Tables
              ELSE [Create(Tables, a, source) EXCEPT !.nNew = @ + 1]
     IN  /\ a \notin m.new[b]
         /\ IF Cardinality(m.new[b]) = NEW_BUCKET_SIZE
            THEN \E old \in m.new[b] :
                   BecomesTables(InsertNew(ShrinkNew(m, b, old), a, b))
            ELSE BecomesTables(InsertNew(m, a, b))

----------------------------------------------------------------------------
(* Good_ *)

\* SelectTried shuffles the first entries of the bucket, swapping the i-th with
\* the one at pick[i], and reports where it found the one whose last success is
\* the longest ago: at pick[i], although the swap has moved it to i.
LookAt(m, s, i, j) ==
  LET found == s.bucket[j]
      older == s.pos = 0 \/ m.info[found].last < m.info[s.oldest].last
  IN  [bucket |-> [s.bucket EXCEPT ![j] = s.bucket[i], ![i] = found],
       oldest |-> IF older THEN found ELSE s.oldest,
       pos    |-> IF older THEN j ELSE s.pos]

SelectTried(m, b, pick) ==
  LET looked[i \in 0..Len(pick)] ==
        IF i = 0 THEN [bucket |-> m.tried[b], oldest |-> m.tried[b][1], pos |-> 0]
        ELSE LookAt(m, looked[i - 1], i, pick[i])
  IN  looked[Len(pick)]

\* The i-th of the first k of n entries changes places with itself or a later one.
Picks(k, n) == {pick \in [1..k -> 1..n] : \A i \in 1..k : pick[i] >= i}

Inspected(n) ==
  IF n < TRIED_ENTRIES_INSPECT_ON_EVICT THEN n ELSE TRIED_ENTRIES_INSPECT_ON_EVICT

LeaveNew(m, a) ==
  LET in == {b \in NewBuckets : a \in m.new[b]} IN
  [m EXCEPT !.new = [b \in NewBuckets |-> @[b] \ {a}],
            !.info[a].ref = @ - Cardinality(in),
            !.nNew = @ - 1]

\* The evicted entry goes back to the bucket of its source, or to the one the
\* tried entry came from.
ReturnToNew(m, old, origin) ==
  LET b == NewBucketOf[old][m.info[old].source]
      to == IF Cardinality(m.new[b]) < NEW_BUCKET_SIZE THEN b ELSE origin
  IN  [m EXCEPT !.info[old].tried = FALSE, !.info[old].ref = 1,
                !.new[to] = @ \cup {old}, !.nNew = @ + 1]

MakeTried(m0, a, origin) ==
  LET b == TriedBucketOf[a]
      m == [LeaveNew(m0, a) EXCEPT !.info[a].tried = TRUE]
  IN  IF Len(m.tried[b]) < TRIED_BUCKET_SIZE
      THEN /\ BecomesTables([m EXCEPT !.tried[b] = Append(@, a), !.nTried = @ + 1])
      ELSE \E pick \in Picks(Inspected(Len(m.tried[b])), Len(m.tried[b])) :
             LET s == SelectTried(m, b, pick)
                 old == s.bucket[s.pos]
             IN  BecomesTables([ReturnToNew(m, old, origin) EXCEPT
                                  !.tried[b] = [s.bucket EXCEPT ![s.pos] = a]])

\* Times of success are ranks: those of the others close up behind.
Succeeds(m, a) ==
  LET before(x) == {y \in Known(m) \ {a} : 0 < m.info[y].last /\
                                           (x = a \/ m.info[y].last < m.info[x].last)}
  IN  [m EXCEPT !.info = [x \in DOMAIN @ |->
         IF x = a \/ @[x].last > 0 THEN [@[x] EXCEPT !.last = 1 + Cardinality(before(x))]
         ELSE @[x]]]

Good(a) ==
  /\ a \in Known(Tables)
  /\ IF mapInfo[a].tried THEN BecomesTables(Succeeds(Tables, a))
     ELSE \E origin \in {b \in NewBuckets : a \in vvNew[b]} :
            MakeTried(Succeeds(Tables, a), a, origin)

----------------------------------------------------------------------------
(* GetAddr_, and the file *)

Shuffle(m, pick) ==
  LET swapped[i \in 0..Len(pick)] ==
        IF i = 0 THEN m ELSE SwapRandom(swapped[i - 1], i, pick[i])
  IN  swapped[Len(pick)]

GetAddr ==
  LET n == (GETADDR_MAX_PCT * Len(vRandom)) \div 100 IN
  /\ n > 0
  /\ \E pick \in Picks(n, Len(vRandom)) : BecomesTables(Shuffle(Tables, pick))

\* The file has the new entries, then the tried ones, then the buckets of the
\* new ones; the rest is built again from the entries.  The tried ones that
\* find their bucket full are lost.
LoadNew(m, a) ==
  [Create(m, a, mapInfo[a].source) EXCEPT !.info[a].last = mapInfo[a].last]

LoadTried(m, a) ==
  LET b == TriedBucketOf[a] IN
  IF Len(m.tried[b]) < TRIED_BUCKET_SIZE
  THEN [LoadNew(m, a) EXCEPT !.info[a].tried = TRUE, !.tried[b] = Append(@, a)]
  ELSE [m EXCEPT !.nTried = @ - 1]

LoadBucket(m, b) ==
  LET fits == {a \in vvNew[b] : m.info[a].ref < NEW_BUCKETS_PER_ADDRESS}
  IN  [m EXCEPT !.new[b] = fits,
                !.info = [a \in Known(m) |-> IF a \in fits THEN [m.info[a] EXCEPT !.ref = @ + 1]
                                             ELSE m.info[a]]]

\* Each part of the file is read in a loop.
Load(m, part, x) ==
  CASE part = "new"    -> LoadNew(m, x)
    [] part = "tried"  -> LoadTried(m, x)
    [] part = "bucket" -> LoadBucket(m, x)

LoadEach(m, part, s) ==
  LET loaded[i \in 0..Len(s)] == IF i = 0 THEN m ELSE Load(loaded[i - 1], part, s[i])
  IN  loaded[Len(s)]

\* The counts of the tables say how many entries of each kind are written.
Reload ==
  LET new   == SetToSeq({a \in Known(Tables) : mapInfo[a].ref # 0})
      tried == SetToSeq({a \in Known(Tables) : mapInfo[a].tried})
      empty == [NoTables EXCEPT !.nNew = nNew, !.nTried = nTried]
      m1 == LoadEach(empty, "new", SubSeq(new, 1, nNew))
      m2 == LoadEach(m1, "tried", SubSeq(tried, 1, nTried))
  IN  BecomesTables(LoadEach(m2, "bucket", SetToSeq(NewBuckets)))

AddrManNext ==
  \/ \E a \in Addrs :
       \/ \E source \in DOMAIN NewBucketOf[a] : Add(a, source)
       \/ Good(a)
  \/ GetAddr \/ Reload

AddrManSpec == AddrManInit /\ [][AddrManNext]_addrVars

----------------------------------------------------------------------------

\* Select_ draws from one of the two kinds for as long as it takes, going by
\* the counts: a kind with a count has a member to draw.
SelectEnds ==
  /\ nTried > 0 => \E b \in TriedBuckets : vvTried[b] # <<>>
  /\ nNew > 0 => \E b \in NewBuckets : vvNew[b] # {}

\* What Check_ tests: every entry is in exactly as many new buckets as it
\* counts, up to the limit, or in its tried bucket alone; vRandom has every entry
\* where the entry says it is; the counts and the sizes are right.
AddrManAgrees ==
  LET tried == {a \in DOMAIN mapInfo : mapInfo[a].tried} IN
  /\ \A a \in DOMAIN mapInfo :
       /\ mapInfo[a].ref = Cardinality({b \in NewBuckets : a \in vvNew[b]})
       /\ IF a \in tried THEN mapInfo[a].ref = 0 /\ mapInfo[a].last > 0
          ELSE mapInfo[a].ref \in 1..NEW_BUCKETS_PER_ADDRESS
       /\ mapInfo[a].pos \in DOMAIN vRandom /\ vRandom[mapInfo[a].pos] = a
  /\ Len(vRandom) = Cardinality(DOMAIN mapInfo) /\ Len(vRandom) = nTried + nNew
  /\ nTried = Cardinality(tried)
  /\ \A b \in TriedBuckets :
       /\ Len(vvTried[b]) <= TRIED_BUCKET_SIZE /\ IsInjective(vvTried[b])
       /\ Range(vvTried[b]) = {a \in tried : TriedBucketOf[a] = b}
  /\ \A b \in NewBuckets : vvNew[b] \subseteq DOMAIN mapInfo
                           /\ Cardinality(vvNew[b]) <= NEW_BUCKET_SIZE
  /\ SelectEnds

\* When a whole bucket is looked at, the entry that is evicted is the one
\* whose last success is the longest ago.  It is not: SelectTried
\* gives the place where it found the entry before it swapped it (addrman.cpp:142).
EvictsOldest ==
  [][\A b \in TriedBuckets : \A old, a \in Range(vvTried[b]) :
       Len(vvTried[b]) <= TRIED_ENTRIES_INSPECT_ON_EVICT /\ ~mapInfo'[old].tried
         => mapInfo[old].last <= mapInfo[a].last]_addrVars
=============================================================================
