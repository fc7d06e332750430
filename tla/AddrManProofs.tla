--------------------------- MODULE AddrManProofs ---------------------------
(***************************************************************************)
(* Theorems about the address manager: the tables that CAddrMan keeps      *)
(* agree with each other after every operation, a reload of its file       *)
(* included.                                                               *)
(***************************************************************************)
EXTENDS AddrMan, FiniteSetTheorems, SequenceTheorems, TLAPS

\* Agreement is stated of a record of the tables, which the operations pass from
\* one helper to the next.
Source == UNION {DOMAIN NewBucketOf[a] : a \in Addrs}
Entry == [source : Source, last : Nat, ref : Int, tried : BOOLEAN, pos : Int]

Typed(m) ==
  /\ m = [info |-> m.info, random |-> m.random, new |-> m.new, nNew |-> m.nNew,
          tried |-> m.tried, nTried |-> m.nTried]
  /\ Known(m) \subseteq Addrs /\ m.info \in [Known(m) -> Entry]
  /\ \A a \in Known(m) : m.info[a].source \in DOMAIN NewBucketOf[a]
  /\ m.random \in Seq(Addrs)
  /\ m.new \in [NewBuckets -> SUBSET Addrs]
  /\ m.tried \in [TriedBuckets -> Seq(Addrs)]
  /\ m.nNew \in Int /\ m.nTried \in Int

\* vRandom and the positions in the entries are each other's inverse.
Listed(m) ==
  /\ \A a \in Known(m) : m.info[a].pos \in 1..Len(m.random) /\ m.random[m.info[a].pos] = a
  /\ \A i \in 1..Len(m.random) : m.random[i] \in Known(m) /\ m.info[m.random[i]].pos = i

NewIn(m, a) == {b \in NewBuckets : a \in m.new[b]}

\* Every entry counts its new buckets; those of S may be in no table for the moment.
Bucketed(m, S) ==
  /\ \A a \in Known(m) :
       /\ m.info[a].ref = Cardinality(NewIn(m, a))
       /\ m.info[a].ref <= NEW_BUCKETS_PER_ADDRESS
       /\ m.info[a].tried => m.info[a].ref = 0 /\ m.info[a].last > 0
       /\ m.info[a].tried \/ a \in S \/ m.info[a].ref >= 1
  /\ \A b \in NewBuckets : m.new[b] \subseteq Known(m) /\ Cardinality(m.new[b]) <= NEW_BUCKET_SIZE

TriedIn(m, b) == {a \in Known(m) : m.info[a].tried /\ TriedBucketOf[a] = b}

\* s is the list of a tried bucket.
TriedList(m, b, s) ==
  /\ Len(s) <= TRIED_BUCKET_SIZE
  /\ \A i, j \in 1..Len(s) : s[i] = s[j] => i = j
  /\ \A i \in 1..Len(s) : s[i] \in TriedIn(m, b)
  /\ \A a \in TriedIn(m, b) : \E i \in 1..Len(s) : s[i] = a

Tried(m) == \A b \in TriedBuckets : TriedList(m, b, m.tried[b])

Agrees(m, S) == Typed(m) /\ Listed(m) /\ Bucketed(m, S) /\ Tried(m)

AreNew(m) == {a \in Known(m) : ~m.info[a].tried}
AreTried(m) == {a \in Known(m) : m.info[a].tried}
Counted(m) == m.nNew = Cardinality(AreNew(m)) /\ m.nTried = Cardinality(AreTried(m))

AddrManInv == Agrees(Tables, {}) /\ Counted(Tables)

----------------------------------------------------------------------------
(* Lists *)

\* A list without repetitions is as long as what it lists.
LEMMA ListedOnce ==
  ASSUME NEW S, NEW s \in Seq(S), NEW T,
         \A i, j \in 1..Len(s) : s[i] = s[j] => i = j,
         \A i \in 1..Len(s) : s[i] \in T,
         \A x \in T : \E i \in 1..Len(s) : s[i] = x
  PROVE  IsFiniteSet(T) /\ Cardinality(T) = Len(s)
<1>1. Len(s) \in Nat /\ DOMAIN s = 1..Len(s) /\ s \in [1..Len(s) -> S]
  BY ElementOfSeq, LenProperties
<1>2. s \in [1..Len(s) -> T]
  BY <1>1
<1>3. s \in Bijection(1..Len(s), T)
  BY <1>1, <1>2 DEF Bijection, Injection, Surjection, IsInjective
<1>4. ExistsBijection(1..Len(s), T)
  BY <1>3 DEF ExistsBijection
<1>5. Cardinality(T) = Len(s)
  BY <1>1, <1>4, FS_CountingElements
<1> QED
  BY <1>1, <1>4, <1>5, FS_NatBijection

\* The addresses a node knows, and its buckets, are finite.
LEMMA FiniteTables ==
  ASSUME NEW m, Typed(m)
  PROVE  /\ IsFiniteSet(Known(m)) /\ IsFiniteSet(AreNew(m)) /\ IsFiniteSet(AreTried(m))
         /\ Cardinality(AreNew(m)) \in Nat /\ Cardinality(AreTried(m)) \in Nat
         /\ \A b \in NewBuckets : IsFiniteSet(m.new[b]) /\ Cardinality(m.new[b]) \in Nat
         /\ \A a : IsFiniteSet(NewIn(m, a)) /\ Cardinality(NewIn(m, a)) \in Nat
<1>1. IsFiniteSet(Known(m))
  BY AddrManAssumption, FS_Subset DEF Typed
<1>2. AreNew(m) \subseteq Known(m) /\ AreTried(m) \subseteq Known(m)
  BY DEF AreNew, AreTried
<1>3. IsFiniteSet(AreNew(m)) /\ IsFiniteSet(AreTried(m))
  BY <1>1, <1>2, FS_Subset
<1>4. \A b \in NewBuckets : IsFiniteSet(m.new[b])
  <2>1. \A b \in NewBuckets : m.new[b] \subseteq Addrs
    BY DEF Typed
  <2> QED
    BY <2>1, AddrManAssumption, FS_Subset
<1>5. \A a : IsFiniteSet(NewIn(m, a))
  <2>1. \A a : NewIn(m, a) \subseteq NewBuckets
    BY DEF NewIn
  <2> QED
    BY <2>1, AddrManAssumption, FS_Subset
<1> QED
  BY <1>1, <1>3, <1>4, <1>5, FS_CardinalityType

\* To be in no new bucket is to count none.
LEMMA InNoNewBucket ==
  ASSUME NEW m, NEW S, Agrees(m, S), NEW a \in Known(m)
  PROVE  (m.info[a].ref = 0) = (\A b \in NewBuckets : a \notin m.new[b])
<1>1. IsFiniteSet(NewIn(m, a)) /\ m.info[a].ref = Cardinality(NewIn(m, a))
  BY FiniteTables DEF Agrees, Bucketed
<1>2. m.info[a].ref = 0 <=> NewIn(m, a) = {}
  BY <1>1, FS_EmptySet
<1> QED
  BY <1>2 DEF NewIn

----------------------------------------------------------------------------
(* Entries *)

\* The entries of T are the same in both, but for their positions in the list.
Alike(m, r, T) ==
  \A a \in T : /\ r.info[a].source = m.info[a].source /\ r.info[a].last = m.info[a].last
               /\ r.info[a].ref = m.info[a].ref /\ r.info[a].tried = m.info[a].tried

\* Positions are nothing to the buckets.
LEMMA BucketsKept ==
  ASSUME NEW m, NEW r, NEW S, Known(r) = Known(m), r.new = m.new, r.tried = m.tried,
         Alike(m, r, Known(m))
  PROVE  /\ Bucketed(m, S) => Bucketed(r, S)
         /\ Tried(m) => Tried(r)
         /\ AreNew(r) = AreNew(m) /\ AreTried(r) = AreTried(m)
<1>1. \A a : NewIn(r, a) = NewIn(m, a)
  BY DEF NewIn
<1>2. \A b : TriedIn(r, b) = TriedIn(m, b)
  BY DEF TriedIn, Alike
<1>3. AreNew(r) = AreNew(m) /\ AreTried(r) = AreTried(m)
  BY DEF AreNew, AreTried, Alike
<1>4. Bucketed(m, S) => Bucketed(r, S)
  BY <1>1 DEF Bucketed, Alike
<1>5. Tried(m) => Tried(r)
  BY <1>2 DEF Tried, TriedList
<1> QED
  BY <1>3, <1>4, <1>5

\* What Create changes.
LEMMA CreateMakes ==
  ASSUME NEW m, Typed(m), NEW a \in Addrs \ Known(m), NEW source, NEW r, r = Create(m, a, source)
  PROVE  /\ Known(r) = Known(m) \cup {a}
         /\ \A x \in Known(m) : r.info[x] = m.info[x]
         /\ r.info[a].source = source /\ r.info[a].last = 0 /\ r.info[a].ref = 0
         /\ ~r.info[a].tried
         /\ r.new = m.new /\ r.tried = m.tried /\ r.nNew = m.nNew /\ r.nTried = m.nTried
<1> DEFINE entry == [source |-> source, last |-> 0, ref |-> 0, tried |-> FALSE,
                     pos |-> Len(m.random) + 1]
<1>1. /\ r.info = [x \in Known(m) \cup {a} |-> IF x = a THEN entry ELSE m.info[x]]
      /\ r.new = m.new /\ r.tried = m.tried /\ r.nNew = m.nNew /\ r.nTried = m.nTried
  BY DEF Create, Typed, Known
<1> QED
  BY <1>1 DEF Known

\* A new entry is the last of the list, and in no bucket.
LEMMA CreateAgrees ==
  ASSUME NEW m, NEW S, Agrees(m, S), NEW a \in Addrs \ Known(m),
         NEW source \in DOMAIN NewBucketOf[a], NEW r, r = Create(m, a, source)
  PROVE  Agrees(r, S \cup {a})
<1> DEFINE entry == [source |-> source, last |-> 0, ref |-> 0, tried |-> FALSE,
                     pos |-> Len(m.random) + 1]
<1>0. Typed(m) /\ Listed(m) /\ Bucketed(m, S) /\ Tried(m)
  BY DEF Agrees
<1>1. /\ r.info = [x \in Known(m) \cup {a} |-> IF x = a THEN entry ELSE m.info[x]]
      /\ r.random = Append(m.random, a)
      /\ r.new = m.new /\ r.tried = m.tried /\ r.nNew = m.nNew /\ r.nTried = m.nTried
      /\ r = [info |-> r.info, random |-> r.random, new |-> r.new, nNew |-> r.nNew,
              tried |-> r.tried, nTried |-> r.nTried]
  BY <1>0 DEF Create, Typed, Known
<1>2. /\ Known(r) = Known(m) \cup {a} /\ r.info[a] = entry
      /\ \A x \in Known(m) : r.info[x] = m.info[x]
  BY <1>1 DEF Known
<1>3. Typed(r)
  <2>1. entry \in Entry
    <3>1. source \in Source
      BY DEF Source
    <3>2. Len(m.random) + 1 \in Int
      BY <1>0, LenProperties DEF Typed
    <3> QED
      BY <3>1, <3>2 DEF Entry
  <2>2. r.info \in [Known(r) -> Entry]
    BY <1>0, <1>1, <1>2, <2>1 DEF Typed
  <2>3. \A x \in Known(r) : r.info[x].source \in DOMAIN NewBucketOf[x]
    BY <1>0, <1>2 DEF Typed
  <2>4. r.random \in Seq(Addrs) /\ Known(r) \subseteq Addrs
    BY <1>0, <1>1, <1>2, AppendProperties DEF Typed
  <2> QED
    BY <1>0, <1>1, <2>2, <2>3, <2>4 DEF Typed
<1>4. Listed(r)
  <2>1. /\ Len(m.random) \in Nat /\ Len(r.random) = Len(m.random) + 1
        /\ \A i \in 1..Len(m.random) : r.random[i] = m.random[i]
        /\ r.random[Len(m.random) + 1] = a
    BY <1>0, <1>1, AppendProperties, LenProperties DEF Typed
  <2>2. \A x \in Known(m) : m.info[x].pos \in 1..Len(m.random) /\ m.random[m.info[x].pos] = x
    BY <1>0 DEF Listed
  <2>3. \A i \in 1..Len(m.random) : m.random[i] \in Known(m) /\ m.info[m.random[i]].pos = i
    BY <1>0 DEF Listed
  <2>4. r.info[a].pos = Len(m.random) + 1
    BY <1>2
  <2>5. ASSUME NEW x \in Known(r)
        PROVE  r.info[x].pos \in 1..Len(r.random) /\ r.random[r.info[x].pos] = x
    <3>1. CASE x = a
      BY <2>1, <2>4, <3>1
    <3>2. CASE x \in Known(m)
      <4>1. /\ r.info[x].pos = m.info[x].pos /\ m.info[x].pos \in 1..Len(m.random)
            /\ m.random[m.info[x].pos] = x
        BY <1>2, <2>2, <3>2
      <4> QED
        BY <2>1, <4>1
    <3> QED
      BY <1>2, <3>1, <3>2
  <2>6. ASSUME NEW i \in 1..Len(r.random)
        PROVE  r.random[i] \in Known(r) /\ r.info[r.random[i]].pos = i
    <3>1. CASE i = Len(m.random) + 1
      BY <1>2, <2>1, <2>4, <3>1
    <3>2. CASE i \in 1..Len(m.random)
      BY <1>2, <2>1, <2>3, <3>2
    <3> QED
      BY <2>1, <3>1, <3>2
  <2> QED
    BY <2>5, <2>6 DEF Listed
<1>5. Bucketed(r, S \cup {a})
  <2>1. \A x : NewIn(r, x) = NewIn(m, x)
    BY <1>1 DEF NewIn
  <2>2. NewIn(m, a) = {}
    BY <1>0 DEF NewIn, Bucketed
  <2>3. r.info[a].ref = 0 /\ r.info[a].tried = FALSE
    BY <1>2
  <2>4. NewIn(r, a) = {} /\ Cardinality({}) = 0 /\ 0 <= NEW_BUCKETS_PER_ADDRESS
    BY <2>1, <2>2, FS_EmptySet, AddrManAssumption
  <2>5. ASSUME NEW x \in Known(r)
        PROVE  /\ r.info[x].ref = Cardinality(NewIn(r, x))
               /\ r.info[x].ref <= NEW_BUCKETS_PER_ADDRESS
               /\ r.info[x].tried => r.info[x].ref = 0 /\ r.info[x].last > 0
               /\ r.info[x].tried \/ x \in S \cup {a} \/ r.info[x].ref >= 1
    <3>1. CASE x = a
      BY <2>3, <2>4, <3>1
    <3>2. CASE x \in Known(m)
      BY <1>0, <1>2, <2>1, <3>2 DEF Bucketed
    <3> QED
      BY <1>2, <3>1, <3>2
  <2>6. \A b \in NewBuckets : r.new[b] \subseteq Known(r) /\ Cardinality(r.new[b]) <= NEW_BUCKET_SIZE
    BY <1>0, <1>1, <1>2 DEF Bucketed
  <2> QED
    BY <2>5, <2>6 DEF Bucketed
<1>6. Tried(r)
  <2>1. \A b : TriedIn(r, b) = TriedIn(m, b)
    <3>1. ~r.info[a].tried
      BY <1>2
    <3> QED
      BY <1>2, <3>1 DEF TriedIn
  <2> QED
    BY <1>0, <1>1, <2>1 DEF Tried, TriedList
<1> HIDE DEF entry
<1> QED
  BY <1>3, <1>4, <1>5, <1>6 DEF Agrees

\* Two entries change places in the list.
LEMMA SwapRandomAgrees ==
  ASSUME NEW m, NEW S, Agrees(m, S), NEW i \in 1..Len(m.random), NEW j \in 1..Len(m.random),
         NEW r, r = SwapRandom(m, i, j)
  PROVE  /\ Agrees(r, S)
         /\ Known(r) = Known(m) /\ Alike(m, r, Known(m))
         /\ r.new = m.new /\ r.tried = m.tried /\ r.nNew = m.nNew /\ r.nTried = m.nTried
         /\ Len(r.random) = Len(m.random) /\ r.random[j] = m.random[i]
<1> DEFINE a == m.random[i]
           b == m.random[j]
<1>0. Typed(m) /\ Listed(m) /\ Bucketed(m, S) /\ Tried(m)
  BY DEF Agrees
<1>1. /\ a \in Known(m) /\ b \in Known(m) /\ m.info[a].pos = i /\ m.info[b].pos = j
      /\ m.info \in [Known(m) -> Entry] /\ m.random \in Seq(Addrs)
      /\ a \in Addrs /\ b \in Addrs
  BY <1>0 DEF Listed, Typed
<1>2. /\ r.info = [[m.info EXCEPT ![a].pos = j] EXCEPT ![b].pos = i]
      /\ r.random = [[m.random EXCEPT ![i] = b] EXCEPT ![j] = a]
      /\ r.new = m.new /\ r.tried = m.tried /\ r.nNew = m.nNew /\ r.nTried = m.nTried
      /\ r = [info |-> r.info, random |-> r.random, new |-> r.new, nNew |-> r.nNew,
              tried |-> r.tried, nTried |-> r.nTried]
  BY <1>0 DEF SwapRandom, Typed
<1>3. /\ Known(r) = Known(m) /\ r.info \in [Known(r) -> Entry] /\ Alike(m, r, Known(m))
      /\ \A x \in Known(m) : r.info[x].pos = IF x = b THEN i ELSE IF x = a THEN j ELSE m.info[x].pos
  <2> DEFINE infos == [m.info EXCEPT ![a].pos = j]
  <2>1. i \in Int /\ j \in Int /\ DOMAIN m.info = Known(m)
    BY <1>1
  <2> HIDE DEF a, b
  <2>2. ASSUME NEW x \in Known(m)
        PROVE  infos[x] = IF x = a THEN [m.info[x] EXCEPT !.pos = j] ELSE m.info[x]
    BY <1>1, <2>1
  <2>3. DOMAIN infos = Known(m)
    BY <2>1
  <2> HIDE DEF infos
  <2>4. ASSUME NEW x \in Known(m)
        PROVE  r.info[x] = IF x = b THEN [infos[x] EXCEPT !.pos = i] ELSE infos[x]
    BY <1>2, <2>3 DEF infos
  <2>5. DOMAIN r.info = Known(m)
    BY <1>2, <2>3 DEF infos
  <2>6. ASSUME NEW x \in Known(m)
        PROVE  /\ r.info[x] \in Entry
               /\ r.info[x].source = m.info[x].source /\ r.info[x].last = m.info[x].last
               /\ r.info[x].ref = m.info[x].ref /\ r.info[x].tried = m.info[x].tried
               /\ r.info[x].pos = IF x = b THEN i ELSE IF x = a THEN j ELSE m.info[x].pos
    <3>1. m.info[x] \in Entry
      BY <1>1
    <3>2. /\ infos[x] \in Entry /\ infos[x].pos = IF x = a THEN j ELSE m.info[x].pos
          /\ infos[x].source = m.info[x].source /\ infos[x].last = m.info[x].last
          /\ infos[x].ref = m.info[x].ref /\ infos[x].tried = m.info[x].tried
      BY <2>1, <2>2, <3>1 DEF Entry
    <3> QED
      BY <2>1, <2>4, <3>2 DEF Entry
  <2>7. r.info = [x \in Known(m) |-> r.info[x]]
    <3>1. r.info = [x \in DOMAIN r.info |-> r.info[x]]
      BY <1>2
    <3> QED
      BY <2>5, <3>1
  <2> QED
    BY <2>5, <2>6, <2>7 DEF Known, Alike
<1>4. /\ r.random \in Seq(Addrs) /\ Len(r.random) = Len(m.random)
      /\ \A k \in 1..Len(m.random) : r.random[k] = IF k = j THEN a ELSE IF k = i THEN b ELSE m.random[k]
  BY <1>1, <1>2
<1>5. Typed(r)
  <2>1. \A x \in Known(r) : r.info[x].source \in DOMAIN NewBucketOf[x]
    BY <1>0, <1>3 DEF Typed, Alike
  <2> QED
    BY <1>0, <1>2, <1>3, <1>4, <2>1 DEF Typed
<1>6. Listed(r)
  <2>1. \A x \in Known(m) : m.info[x].pos \in 1..Len(m.random) /\ m.random[m.info[x].pos] = x
    BY <1>0 DEF Listed
  <2>2. \A k \in 1..Len(m.random) : m.random[k] \in Known(m) /\ m.info[m.random[k]].pos = k
    BY <1>0 DEF Listed
  <2> HIDE DEF a, b
  <2>3. ASSUME NEW x \in Known(r)
        PROVE  r.info[x].pos \in 1..Len(r.random) /\ r.random[r.info[x].pos] = x
    <3>1. m.info[x].pos \in 1..Len(m.random) /\ m.random[m.info[x].pos] = x
      BY <1>3, <2>1
    <3>2. a = b <=> i = j
      BY <1>1 DEF a, b
    <3>3. CASE x = b
      BY <1>1, <1>3, <1>4, <3>2, <3>3
    <3>4. CASE x # b /\ x = a
      BY <1>1, <1>3, <1>4, <3>4
    <3>5. CASE x # b /\ x # a
      <4>1. m.info[x].pos # i /\ m.info[x].pos # j
        BY <3>1, <3>5 DEF a, b
      <4> QED
        BY <1>3, <1>4, <3>1, <3>5, <4>1
    <3> QED
      BY <3>3, <3>4, <3>5
  <2>4. ASSUME NEW k \in 1..Len(r.random)
        PROVE  r.random[k] \in Known(r) /\ r.info[r.random[k]].pos = k
    <3>1. k \in 1..Len(m.random)
      BY <1>4
    <3>2. m.random[k] \in Known(m) /\ m.info[m.random[k]].pos = k
      BY <2>2, <3>1
    <3>3. a = b => i = j
      BY <1>1
    <3>4. CASE k = j
      BY <1>1, <1>3, <1>4, <3>1, <3>3, <3>4
    <3>5. CASE k # j /\ k = i
      BY <1>1, <1>3, <1>4, <3>1, <3>3, <3>5
    <3>6. CASE k # j /\ k # i
      BY <1>1, <1>3, <1>4, <3>1, <3>2, <3>6
    <3> QED
      BY <3>4, <3>5, <3>6
  <2> QED
    BY <2>3, <2>4 DEF Listed
<1>7. Bucketed(r, S) /\ Tried(r)
  BY <1>0, <1>2, <1>3, BucketsKept
<1> QED
  BY <1>2, <1>3, <1>4, <1>5, <1>6, <1>7 DEF Agrees

\* To delete an entry that is in no bucket.
LEMMA EraseAgrees ==
  ASSUME NEW m, NEW S, Agrees(m, S), NEW a \in Known(m),
         m.info[a].ref = 0, ~m.info[a].tried, NEW r, r = Erase(m, a)
  PROVE  /\ Agrees(r, S)
         /\ Known(r) = Known(m) \ {a} /\ Alike(m, r, Known(r))
         /\ r.new = m.new /\ r.tried = m.tried /\ r.nNew = m.nNew - 1 /\ r.nTried = m.nTried
<1> DEFINE n == Len(m.random)
           i == m.info[a].pos
           w == SwapRandom(m, i, n)
<1>0. Typed(m) /\ Listed(m) /\ Bucketed(m, S) /\ Tried(m)
  BY DEF Agrees
<1>1. i \in 1..n /\ m.random[i] = a /\ n \in Nat /\ n \in 1..n
  <2>1. n \in Nat
    BY <1>0, LenProperties DEF Typed
  <2>2. i \in 1..n /\ m.random[i] = a
    BY <1>0 DEF Listed
  <2> QED
    BY <2>1, <2>2
<1>2. /\ Agrees(w, S) /\ Known(w) = Known(m) /\ Alike(m, w, Known(m))
      /\ w.new = m.new /\ w.tried = m.tried /\ w.nNew = m.nNew /\ w.nTried = m.nTried
      /\ Len(w.random) = n /\ w.random[n] = a
  <2> HIDE DEF i, n, w
  <2>1. \A x : x = SwapRandom(m, i, n) =>
          /\ Agrees(x, S) /\ Known(x) = Known(m) /\ Alike(m, x, Known(m))
          /\ x.new = m.new /\ x.tried = m.tried /\ x.nNew = m.nNew /\ x.nTried = m.nTried
          /\ Len(x.random) = Len(m.random) /\ x.random[n] = m.random[i]
    BY <1>1, SwapRandomAgrees DEF n
  <2> QED
    BY <1>1, <2>1 DEF w, n
<1>3. /\ r.random = SubSeq(w.random, 1, n - 1)
      /\ r.info = [x \in Known(w) \ {a} |-> w.info[x]]
      /\ r.new = w.new /\ r.tried = w.tried /\ r.nNew = w.nNew - 1 /\ r.nTried = w.nTried
      /\ r = [info |-> r.info, random |-> r.random, new |-> r.new, nNew |-> r.nNew,
              tried |-> r.tried, nTried |-> r.nTried]
  <2>1. w = [info |-> w.info, random |-> w.random, new |-> w.new, nNew |-> w.nNew,
             tried |-> w.tried, nTried |-> w.nTried]
    BY <1>2 DEF Agrees, Typed
  <2>2. r = [[[w EXCEPT !.random = SubSeq(w.random, 1, Len(w.random) - 1)]
               EXCEPT !.info = [x \in DOMAIN w.info \ {a} |-> w.info[x]]]
               EXCEPT !.nNew = w.nNew - 1]
    <3>1. r = [w EXCEPT !.random = SubSeq(@, 1, Len(@) - 1),
                        !.info = [x \in DOMAIN @ \ {a} |-> @[x]],
                        !.nNew = @ - 1]
      BY DEF Erase
    <3> HIDE DEF w
    <3> QED
      BY <2>1, <3>1
  <2> HIDE DEF w
  <2>3. r = [info |-> [x \in DOMAIN w.info \ {a} |-> w.info[x]],
             random |-> SubSeq(w.random, 1, Len(w.random) - 1),
             new |-> w.new, nNew |-> w.nNew - 1, tried |-> w.tried, nTried |-> w.nTried]
    BY <2>1, <2>2
  <2>4. Len(w.random) = n
    BY <1>2
  <2> HIDE DEF n
  <2> QED
    BY <2>3, <2>4 DEF Known
<1> HIDE DEF w, n, i
<1>4. Typed(w) /\ Listed(w) /\ Bucketed(w, S) /\ Tried(w)
  BY <1>2 DEF Agrees
<1>5. Known(r) = Known(m) \ {a} /\ \A x \in Known(r) : r.info[x] = w.info[x]
  BY <1>2, <1>3 DEF Known
<1>6. /\ r.random \in Seq(Addrs) /\ Len(r.random) = n - 1
      /\ \A k \in 1..(n - 1) : r.random[k] = w.random[k]
  <2>1. w.random \in Seq(Addrs) /\ Len(w.random) = n
    BY <1>2, <1>4 DEF Typed
  <2> QED
    BY <1>1, <1>3, <2>1, SubSeqProperties
<1>7. Typed(r)
  <2>1. r.info \in [Known(r) -> Entry]
    BY <1>2, <1>3, <1>4, <1>5 DEF Typed
  <2> QED
    BY <1>2, <1>3, <1>4, <1>5, <1>6, <2>1 DEF Typed
<1>8. Listed(r)
  <2>1. \A x \in Known(m) : w.info[x].pos \in 1..n /\ w.random[w.info[x].pos] = x
    BY <1>2, <1>4 DEF Listed
  <2>2. \A k \in 1..n : w.random[k] \in Known(m) /\ w.info[w.random[k]].pos = k
    BY <1>2, <1>4 DEF Listed
  <2>3. ASSUME NEW x \in Known(r)
        PROVE  r.info[x].pos \in 1..Len(r.random) /\ r.random[r.info[x].pos] = x
    <3>1. /\ x \in Known(m) /\ x # a /\ r.info[x].pos = w.info[x].pos
          /\ w.info[x].pos \in 1..n /\ w.random[w.info[x].pos] = x
      BY <1>5, <2>1
    <3>2. w.info[x].pos \in 1..(n - 1)
      BY <1>1, <1>2, <3>1
    <3> QED
      BY <1>6, <3>1, <3>2
  <2>4. ASSUME NEW k \in 1..Len(r.random)
        PROVE  r.random[k] \in Known(r) /\ r.info[r.random[k]].pos = k
    <3>1. k \in 1..(n - 1) /\ k \in 1..n /\ k # n
      BY <1>1, <1>6
    <3>2. w.random[k] \in Known(m) /\ w.info[w.random[k]].pos = k /\ r.random[k] = w.random[k]
      BY <1>6, <2>2, <3>1
    <3>3. w.random[k] # a
      BY <1>1, <1>2, <2>2, <3>1, <3>2
    <3> QED
      BY <1>5, <3>2, <3>3
  <2> QED
    BY <2>3, <2>4 DEF Listed
<1>9. \A b \in NewBuckets : a \notin m.new[b]
  BY InNoNewBucket
<1>10. Bucketed(r, S)
  <2>1. \A x : NewIn(r, x) = NewIn(w, x)
    BY <1>3 DEF NewIn
  <2>2. \A b \in NewBuckets : r.new[b] \subseteq Known(r)
    BY <1>2, <1>3, <1>4, <1>5, <1>9 DEF Bucketed
  <2> QED
    BY <1>2, <1>3, <1>4, <1>5, <2>1, <2>2 DEF Bucketed
<1>11. Tried(r)
  <2>1. \A b : TriedIn(r, b) = TriedIn(w, b)
    <3>1. ~w.info[a].tried
      BY <1>2 DEF Alike
    <3> QED
      BY <1>2, <1>5, <3>1 DEF TriedIn
  <2> QED
    BY <1>3, <1>4, <2>1 DEF Tried, TriedList
<1>12. Alike(m, r, Known(r))
  BY <1>2, <1>5 DEF Alike
<1> QED
  BY <1>2, <1>3, <1>5, <1>7, <1>8, <1>10, <1>11, <1>12 DEF Agrees

\* Sets of entries that differ by one are counted one apart.
LEMMA CountsStep ==
  ASSUME NEW T, IsFiniteSet(T), NEW a
  PROVE  /\ a \notin T => Cardinality(T \cup {a}) = Cardinality(T) + 1
         /\ a \in T => Cardinality(T \ {a}) = Cardinality(T) - 1
         /\ Cardinality(T) \in Nat
BY FS_AddElement, FS_RemoveElement, FS_CardinalityType

\* A full bucket loses a member, which is deleted when no other bucket has it.
LEMMA ShrinkNewAgrees ==
  ASSUME NEW m, NEW S, Agrees(m, S), Counted(m), NEW b \in NewBuckets, NEW old \in m.new[b],
         old \notin S, NEW r, r = ShrinkNew(m, b, old)
  PROVE  /\ Agrees(r, S) /\ Counted(r)
         /\ Known(m) \ {old} \subseteq Known(r) /\ Known(r) \subseteq Known(m)
         /\ Alike(m, r, Known(r) \ {old})
         /\ Cardinality(r.new[b]) = Cardinality(m.new[b]) - 1
         /\ \A x \in Known(r) \ {old} : \A c \in NewBuckets : x \in r.new[c] <=> x \in m.new[c]
<1> DEFINE q == [m EXCEPT !.info[old].ref = m.info[old].ref - 1, !.new[b] = m.new[b] \ {old}]
<1>0. Typed(m) /\ Listed(m) /\ Bucketed(m, S) /\ Tried(m)
  BY DEF Agrees
<1>1. old \in Known(m) /\ ~m.info[old].tried /\ m.info[old].ref >= 1 /\ m.info[old] \in Entry
  <2>1. old \in Known(m)
    BY <1>0 DEF Bucketed
  <2>2. m.info[old].ref # 0
    BY <2>1, InNoNewBucket
  <2>3. m.info[old].ref = Cardinality(NewIn(m, old)) /\ Cardinality(NewIn(m, old)) \in Nat
    BY <1>0, <2>1, FiniteTables DEF Bucketed
  <2> QED
    BY <1>0, <2>1, <2>2, <2>3 DEF Bucketed, Typed
<1>2. /\ q.info = [m.info EXCEPT ![old].ref = m.info[old].ref - 1]
      /\ q.new = [m.new EXCEPT ![b] = m.new[b] \ {old}]
      /\ q.random = m.random /\ q.tried = m.tried /\ q.nNew = m.nNew /\ q.nTried = m.nTried
      /\ q = [info |-> q.info, random |-> q.random, new |-> q.new, nNew |-> q.nNew,
              tried |-> q.tried, nTried |-> q.nTried]
  <2>1. m = [info |-> m.info, random |-> m.random, new |-> m.new, nNew |-> m.nNew,
             tried |-> m.tried, nTried |-> m.nTried]
    BY <1>0 DEF Typed
  <2> DEFINE info == [m.info EXCEPT ![old].ref = m.info[old].ref - 1]
             new == [m.new EXCEPT ![b] = m.new[b] \ {old}]
  <2>2. q = [[m EXCEPT !.info = info] EXCEPT !.new = new]
    BY <2>1
  <2> HIDE DEF info, new, q
  <2>3. q = [info |-> info, random |-> m.random, new |-> new, nNew |-> m.nNew,
             tried |-> m.tried, nTried |-> m.nTried]
    BY <2>1, <2>2
  <2>4. /\ q.info = info /\ q.new = new /\ q.random = m.random /\ q.tried = m.tried
        /\ q.nNew = m.nNew /\ q.nTried = m.nTried
    BY <2>3
  <2>5. q = [info |-> q.info, random |-> q.random, new |-> q.new, nNew |-> q.nNew,
              tried |-> q.tried, nTried |-> q.nTried]
    BY <2>3, <2>4
  <2> QED
    BY <2>4, <2>5 DEF info, new
<1>3. r = IF q.info[old].ref = 0 THEN Erase(q, old) ELSE q
  BY DEF ShrinkNew
<1> HIDE DEF q
<1>4. /\ Known(q) = Known(m) /\ q.info \in [Known(m) -> Entry]
      /\ \A x \in Known(m) \ {old} : q.info[x] = m.info[x]
      /\ q.info[old].ref = m.info[old].ref - 1 /\ q.info[old].pos = m.info[old].pos
      /\ q.info[old].source = m.info[old].source /\ q.info[old].last = m.info[old].last
      /\ q.info[old].tried = m.info[old].tried
  <2>1. DOMAIN m.info = Known(m) /\ m.info \in [Known(m) -> Entry]
    BY <1>0 DEF Known, Typed
  <2>2. q.info[old] = [m.info[old] EXCEPT !.ref = m.info[old].ref - 1]
    BY <1>1, <1>2, <2>1
  <2>3. /\ q.info[old] \in Entry /\ q.info[old].ref = m.info[old].ref - 1
        /\ q.info[old].pos = m.info[old].pos
        /\ q.info[old].source = m.info[old].source /\ q.info[old].last = m.info[old].last
        /\ q.info[old].tried = m.info[old].tried
    BY <1>1, <2>2 DEF Entry
  <2>4. \A x \in Known(m) \ {old} : q.info[x] = m.info[x]
    BY <1>2, <2>1
  <2>5. q.info \in [Known(m) -> Entry]
    BY <1>1, <1>2, <2>1, <2>2, <2>3
  <2> QED
    BY <2>3, <2>4, <2>5 DEF Known
<1>5. /\ q.new \in [NewBuckets -> SUBSET Addrs] /\ q.new[b] = m.new[b] \ {old}
      /\ \A c \in NewBuckets \ {b} : q.new[c] = m.new[c]
  BY <1>0, <1>2 DEF Typed
<1>6. Typed(q)
  <2>1. \A x \in Known(q) : q.info[x].source \in DOMAIN NewBucketOf[x]
    BY <1>0, <1>4 DEF Typed
  <2> QED
    BY <1>0, <1>2, <1>4, <1>5, <2>1 DEF Typed
<1>7. Listed(q)
  BY <1>0, <1>2, <1>4 DEF Listed
<1>8. Tried(q) /\ AreNew(q) = AreNew(m) /\ AreTried(q) = AreTried(m)
  <2>1. \A c : TriedIn(q, c) = TriedIn(m, c)
    BY <1>1, <1>4 DEF TriedIn
  <2>2. AreNew(q) = AreNew(m) /\ AreTried(q) = AreTried(m)
    BY <1>1, <1>4 DEF AreNew, AreTried
  <2> QED
    BY <1>0, <1>2, <2>1, <2>2 DEF Tried, TriedList
<1>9. /\ \A x \in Known(m) \ {old} : NewIn(q, x) = NewIn(m, x)
      /\ NewIn(q, old) = NewIn(m, old) \ {b} /\ b \in NewIn(m, old)
  BY <1>5 DEF NewIn
<1>10. Cardinality(q.new[b]) = Cardinality(m.new[b]) - 1
  BY <1>0, <1>5, FiniteTables, CountsStep
<1>11. Bucketed(q, S \cup {old})
  <2>1. q.info[old].ref = Cardinality(NewIn(q, old))
    <3>1. Cardinality(NewIn(m, old) \ {b}) = Cardinality(NewIn(m, old)) - 1
      BY <1>0, <1>9, FiniteTables, CountsStep
    <3> QED
      BY <1>0, <1>1, <1>4, <1>9, <3>1 DEF Bucketed
  <2>2. \A c \in NewBuckets : q.new[c] \subseteq Known(q) /\ Cardinality(q.new[c]) <= NEW_BUCKET_SIZE
    <3>1. \A c \in NewBuckets : m.new[c] \subseteq Known(m) /\ Cardinality(m.new[c]) <= NEW_BUCKET_SIZE
      BY <1>0 DEF Bucketed
    <3>2. Cardinality(m.new[b]) \in Nat /\ NEW_BUCKET_SIZE \in Nat
      BY <1>0, FiniteTables, AddrManAssumption
    <3>3. Cardinality(m.new[b]) - 1 <= NEW_BUCKET_SIZE
      BY <3>1, <3>2
    <3> QED
      BY <1>4, <1>5, <1>10, <3>1, <3>3
  <2>3. /\ q.info[old].ref <= NEW_BUCKETS_PER_ADDRESS /\ ~q.info[old].tried
    BY <1>0, <1>1, <1>4, AddrManAssumption DEF Bucketed, Entry
  <2> QED
    BY <1>0, <1>1, <1>4, <1>9, <2>1, <2>2, <2>3 DEF Bucketed
<1>12. Counted(q)
  BY <1>2, <1>8 DEF Counted
<1>13. Alike(m, q, Known(m) \ {old})
  BY <1>4 DEF Alike
<1>14. \A x \in Known(m) \ {old} : \A c \in NewBuckets : x \in q.new[c] <=> x \in m.new[c]
  BY <1>5
<1>15. CASE q.info[old].ref = 0
  <2>1. /\ Agrees(r, S \cup {old})
        /\ Known(r) = Known(q) \ {old} /\ Alike(q, r, Known(r))
        /\ r.new = q.new /\ r.tried = q.tried /\ r.nNew = q.nNew - 1 /\ r.nTried = q.nTried
    <3>1. Agrees(q, S \cup {old}) /\ old \in Known(q) /\ ~q.info[old].tried /\ r = Erase(q, old)
      BY <1>1, <1>3, <1>4, <1>6, <1>7, <1>8, <1>11, <1>15 DEF Agrees
    <3> QED
      BY <1>15, <3>1, EraseAgrees
  <2>2. Agrees(r, S)
    BY <2>1 DEF Agrees, Bucketed
  <2>3. Counted(r)
    <3>1. AreNew(r) = AreNew(q) \ {old} /\ old \in AreNew(q) /\ AreTried(r) = AreTried(q)
      BY <1>1, <1>4, <2>1 DEF AreNew, AreTried, Alike
    <3> QED
      BY <1>6, <1>12, <2>1, <3>1, FiniteTables, CountsStep DEF Counted
  <2>4. Alike(m, r, Known(r) \ {old})
    BY <1>4, <1>13, <2>1 DEF Alike
  <2> QED
    BY <1>4, <1>10, <1>14, <2>1, <2>2, <2>3, <2>4
<1>16. CASE q.info[old].ref # 0
  <2>1. r = q
    BY <1>3, <1>16
  <2>2. q.info[old].ref >= 1
    BY <1>1, <1>4, <1>16 DEF Entry
  <2>3. Bucketed(q, S)
    BY <1>4, <1>11, <2>2 DEF Bucketed
  <2> QED
    BY <1>4, <1>6, <1>7, <1>8, <1>10, <1>12, <1>13, <1>14, <2>1, <2>3 DEF Agrees
<1> QED
  BY <1>15, <1>16

\* An entry that is not tried goes into one more bucket.
LEMMA InsertNewAgrees ==
  ASSUME NEW m, NEW a \in Known(m), Agrees(m, {a}), Counted(m), NEW b \in NewBuckets,
         ~m.info[a].tried, m.info[a].ref # NEW_BUCKETS_PER_ADDRESS,
         a \notin m.new[b], Cardinality(m.new[b]) < NEW_BUCKET_SIZE,
         NEW r, r = InsertNew(m, a, b)
  PROVE  Agrees(r, {}) /\ Counted(r)
<1> DEFINE info == [m.info EXCEPT ![a].ref = m.info[a].ref + 1]
           new == [m.new EXCEPT ![b] = m.new[b] \cup {a}]
<1>0. Typed(m) /\ Listed(m) /\ Bucketed(m, {a}) /\ Tried(m)
  BY DEF Agrees
<1>1. m.info[a] \in Entry /\ DOMAIN m.info = Known(m) /\ a \in Addrs
  BY <1>0 DEF Typed, Known
<1>2. /\ r.info = info /\ r.new = new
      /\ r.random = m.random /\ r.tried = m.tried /\ r.nNew = m.nNew /\ r.nTried = m.nTried
      /\ r = [info |-> r.info, random |-> r.random, new |-> r.new, nNew |-> r.nNew,
              tried |-> r.tried, nTried |-> r.nTried]
  <2>1. m = [info |-> m.info, random |-> m.random, new |-> m.new, nNew |-> m.nNew,
             tried |-> m.tried, nTried |-> m.nTried]
    BY <1>0 DEF Typed
  <2>2. r = [[m EXCEPT !.info = info] EXCEPT !.new = new]
    BY <2>1 DEF InsertNew
  <2> HIDE DEF info, new
  <2>3. r = [info |-> info, random |-> m.random, new |-> new, nNew |-> m.nNew,
             tried |-> m.tried, nTried |-> m.nTried]
    BY <2>1, <2>2
  <2> QED
    BY <2>3
<1>3. /\ Known(r) = Known(m) /\ r.info \in [Known(m) -> Entry]
      /\ \A x \in Known(m) \ {a} : r.info[x] = m.info[x]
      /\ r.info[a].ref = m.info[a].ref + 1 /\ r.info[a].pos = m.info[a].pos
      /\ r.info[a].source = m.info[a].source /\ r.info[a].last = m.info[a].last
      /\ r.info[a].tried = m.info[a].tried
  <2>1. r.info[a] = [m.info[a] EXCEPT !.ref = m.info[a].ref + 1]
    BY <1>1, <1>2
  <2>2. /\ r.info[a] \in Entry /\ r.info[a].ref = m.info[a].ref + 1
        /\ r.info[a].pos = m.info[a].pos
        /\ r.info[a].source = m.info[a].source /\ r.info[a].last = m.info[a].last
        /\ r.info[a].tried = m.info[a].tried
    BY <1>1, <2>1 DEF Entry
  <2>3. \A x \in Known(m) \ {a} : r.info[x] = m.info[x]
    BY <1>1, <1>2
  <2>4. r.info \in [Known(m) -> Entry]
    <3>1. m.info \in [Known(m) -> Entry]
      BY <1>0 DEF Typed
    <3> QED
      BY <1>1, <1>2, <2>1, <2>2, <3>1
  <2> QED
    BY <2>2, <2>3, <2>4 DEF Known
<1> HIDE DEF info
<1>4. /\ r.new \in [NewBuckets -> SUBSET Addrs] /\ r.new[b] = m.new[b] \cup {a}
      /\ \A c \in NewBuckets \ {b} : r.new[c] = m.new[c]
  BY <1>0, <1>1, <1>2 DEF Typed
<1>5. Typed(r)
  <2>1. \A x \in Known(r) : r.info[x].source \in DOMAIN NewBucketOf[x]
    BY <1>0, <1>3 DEF Typed
  <2> QED
    BY <1>0, <1>2, <1>3, <1>4, <2>1 DEF Typed
<1>6. Listed(r)
  BY <1>0, <1>2, <1>3 DEF Listed
<1>7. Tried(r) /\ AreNew(r) = AreNew(m) /\ AreTried(r) = AreTried(m)
  <2>1. \A c : TriedIn(r, c) = TriedIn(m, c)
    BY <1>3 DEF TriedIn
  <2>2. AreNew(r) = AreNew(m) /\ AreTried(r) = AreTried(m)
    BY <1>3 DEF AreNew, AreTried
  <2> QED
    BY <1>0, <1>2, <2>1, <2>2 DEF Tried, TriedList
<1>8. Bucketed(r, {})
  <2>1. /\ \A x \in Known(m) \ {a} : NewIn(r, x) = NewIn(m, x)
        /\ NewIn(r, a) = NewIn(m, a) \cup {b} /\ b \notin NewIn(m, a)
    BY <1>4 DEF NewIn
  <2>2. r.info[a].ref = Cardinality(NewIn(r, a)) /\ Cardinality(NewIn(m, a)) \in Nat
    <3>1. Cardinality(NewIn(m, a) \cup {b}) = Cardinality(NewIn(m, a)) + 1
      BY <1>0, <2>1, FiniteTables, CountsStep
    <3> QED
      BY <1>0, <1>3, <2>1, <3>1, FiniteTables DEF Bucketed
  <2>3. r.info[a].ref \in 1..NEW_BUCKETS_PER_ADDRESS
    BY <1>0, <1>1, <1>3, <2>2, AddrManAssumption DEF Bucketed, Entry
  <2>4. Cardinality(r.new[b]) <= NEW_BUCKET_SIZE
    BY <1>0, <1>4, FiniteTables, CountsStep, AddrManAssumption
  <2>5. \A c \in NewBuckets : r.new[c] \subseteq Known(r) /\ Cardinality(r.new[c]) <= NEW_BUCKET_SIZE
    BY <1>0, <1>3, <1>4, <2>4 DEF Bucketed
  <2>6. ASSUME NEW x \in Known(r)
        PROVE  /\ r.info[x].ref = Cardinality(NewIn(r, x))
               /\ r.info[x].ref <= NEW_BUCKETS_PER_ADDRESS
               /\ r.info[x].tried => r.info[x].ref = 0 /\ r.info[x].last > 0
               /\ r.info[x].tried \/ x \in {} \/ r.info[x].ref >= 1
    <3>1. CASE x = a
      BY <1>3, <2>2, <2>3, <3>1, AddrManAssumption
    <3>2. CASE x # a
      BY <1>0, <1>3, <2>1, <2>6, <3>2 DEF Bucketed
    <3> QED
      BY <3>1, <3>2
  <2> QED
    BY <2>5, <2>6 DEF Bucketed
<1>9. Counted(r)
  BY <1>2, <1>7 DEF Counted
<1> QED
  BY <1>5, <1>6, <1>7, <1>8, <1>9 DEF Agrees

----------------------------------------------------------------------------
(* Operations *)

\* The tables are what the last helper made of them.
LEMMA TablesBecome ==
  ASSUME NEW r, Agrees(r, {}), Counted(r), BecomesTables(r)
  PROVE  AddrManInv'
<1>1. Tables' = r
  BY DEF Agrees, Typed, BecomesTables, Tables
<1>2. Agrees(Tables', {}) /\ Counted(Tables')
  BY <1>1
<1> QED
  BY <1>2 DEF AddrManInv, Agrees, Typed, Listed, Bucketed, Tried, TriedList, Counted, Tables, Known, NewIn, TriedIn,
              AreNew, AreTried

\* The buckets that a source of an address leads to.
LEMMA SourceBucket ==
  \A a \in Addrs : \A source \in DOMAIN NewBucketOf[a] : NewBucketOf[a][source] \in NewBuckets
BY DEF NewBuckets, Range

LEMMA AddInv ==
  ASSUME AddrManInv, NEW a \in Addrs, NEW source \in DOMAIN NewBucketOf[a], Add(a, source)
  PROVE  AddrManInv'
<1> DEFINE b == NewBucketOf[a][source]
           m == IF a \in Known(Tables) THEN Tables
                ELSE [Create(Tables, a, source) EXCEPT !.nNew = @ + 1]
<1>0. Agrees(Tables, {}) /\ Counted(Tables) /\ MayAdd(Tables, a) /\ b \in NewBuckets
  BY SourceBucket DEF AddrManInv, Add
<1>1. /\ a \notin m.new[b]
      /\ IF Cardinality(m.new[b]) = NEW_BUCKET_SIZE
         THEN \E old \in m.new[b] : BecomesTables(InsertNew(ShrinkNew(m, b, old), a, b))
         ELSE BecomesTables(InsertNew(m, a, b))
  BY DEF Add
<1>2. /\ Agrees(m, {a}) /\ Counted(m) /\ a \in Known(m)
      /\ ~m.info[a].tried /\ m.info[a].ref # NEW_BUCKETS_PER_ADDRESS
  <2>1. CASE a \in Known(Tables)
    <3>1. m = Tables
      BY <2>1
    <3> HIDE DEF m
    <3>2. Agrees(Tables, {a})
      BY <1>0 DEF Agrees, Bucketed
    <3> QED
      BY <1>0, <2>1, <3>1, <3>2 DEF MayAdd
  <2>2. CASE a \notin Known(Tables)
    <3> DEFINE c == Create(Tables, a, source)
    <3>1. m = [c EXCEPT !.nNew = c.nNew + 1]
      BY <2>2
    <3>2. /\ Agrees(c, {a}) /\ Known(c) = Known(Tables) \cup {a}
          /\ \A x \in Known(Tables) : c.info[x] = Tables.info[x]
          /\ c.info[a].ref = 0 /\ ~c.info[a].tried
          /\ c.nNew = Tables.nNew /\ c.nTried = Tables.nTried
      <4>1. c = Create(Tables, a, source) /\ a \in Addrs \ Known(Tables)
        BY <2>2
      <4> HIDE DEF c
      <4>2. Agrees(c, {} \cup {a})
        BY <1>0, <4>1, CreateAgrees
      <4>3. {} \cup {a} = {a}
        OBVIOUS
      <4>4. Agrees(c, {a})
        BY <4>2, <4>3
      <4>5. /\ Known(c) = Known(Tables) \cup {a}
            /\ \A x \in Known(Tables) : c.info[x] = Tables.info[x]
            /\ c.info[a].ref = 0 /\ ~c.info[a].tried
            /\ c.nNew = Tables.nNew /\ c.nTried = Tables.nTried
        <5>1. Typed(Tables)
          BY <1>0 DEF Agrees
        <5>2. \A t : Typed(t) /\ a \notin Known(t) /\ c = Create(t, a, source) =>
                /\ Known(c) = Known(t) \cup {a}
                /\ \A x \in Known(t) : c.info[x] = t.info[x]
                /\ c.info[a].ref = 0 /\ ~c.info[a].tried
                /\ c.nNew = t.nNew /\ c.nTried = t.nTried
          BY CreateMakes
        <5> QED
          BY <4>1, <5>1, <5>2
      <4> QED
        BY <4>4, <4>5
    <3> HIDE DEF c, m
    <3>3. /\ m.info = c.info /\ m.random = c.random /\ m.new = c.new /\ m.tried = c.tried
          /\ m.nNew = c.nNew + 1 /\ m.nTried = c.nTried
          /\ m = [info |-> m.info, random |-> m.random, new |-> m.new, nNew |-> m.nNew,
                  tried |-> m.tried, nTried |-> m.nTried]
      BY <3>1, <3>2 DEF Agrees, Typed
    <3>4. Agrees(m, {a})
      <4>1. c.nNew + 1 \in Int
        BY <3>2 DEF Agrees, Typed
      <4>2. Known(m) = Known(c) /\ \A x : NewIn(m, x) = NewIn(c, x) /\ TriedIn(m, x) = TriedIn(c, x)
        BY <3>3 DEF Known, NewIn, TriedIn
      <4>3. Typed(m)
        BY <3>2, <3>3, <4>1, <4>2 DEF Agrees, Typed
      <4>4. Listed(m) /\ Bucketed(m, {a}) /\ Tried(m)
        BY <3>2, <3>3, <4>2 DEF Agrees, Listed, Bucketed, Tried, TriedList
      <4> QED
        BY <4>3, <4>4 DEF Agrees
    <3>5. Counted(m)
      <4>1. AreNew(m) = AreNew(Tables) \cup {a} /\ a \notin AreNew(Tables) /\ AreTried(m) = AreTried(Tables)
        BY <2>2, <3>2, <3>3 DEF AreNew, AreTried, Known
      <4>2. Typed(Tables)
        BY <1>0 DEF Agrees
      <4> QED
        BY <1>0, <3>2, <3>3, <4>1, <4>2, FiniteTables, CountsStep DEF Counted
    <3>6. a \in Known(m) /\ m.info[a].ref = 0 /\ ~m.info[a].tried
      BY <3>2, <3>3 DEF Known
    <3> QED
      BY <3>4, <3>5, <3>6, AddrManAssumption
  <2> QED
    BY <2>1, <2>2
<1> HIDE DEF m, b
<1>3. Cardinality(m.new[b]) \in Nat /\ Cardinality(m.new[b]) <= NEW_BUCKET_SIZE
  BY <1>0, <1>2, FiniteTables DEF Agrees, Bucketed
<1>4. CASE Cardinality(m.new[b]) = NEW_BUCKET_SIZE
  <2>1. PICK old \in m.new[b] : BecomesTables(InsertNew(ShrinkNew(m, b, old), a, b))
    BY <1>1, <1>4
  <2> DEFINE q == ShrinkNew(m, b, old)
  <2>2. old # a
    BY <1>1
  <2>0. q = ShrinkNew(m, b, old) /\ old \notin {a}
    BY <2>2
  <2> HIDE DEF q
  <2>3. /\ Agrees(q, {a}) /\ Counted(q)
        /\ Known(m) \ {old} \subseteq Known(q) /\ Alike(m, q, Known(q) \ {old})
        /\ Cardinality(q.new[b]) = Cardinality(m.new[b]) - 1
        /\ \A x \in Known(q) \ {old} : \A c \in NewBuckets : x \in q.new[c] <=> x \in m.new[c]
    BY <1>0, <1>2, <2>0, ShrinkNewAgrees
  <2>4. /\ a \in Known(q) /\ ~q.info[a].tried /\ q.info[a].ref # NEW_BUCKETS_PER_ADDRESS
        /\ a \notin q.new[b]
    BY <1>0, <1>1, <1>2, <2>2, <2>3 DEF Alike
  <2>5. Cardinality(q.new[b]) < NEW_BUCKET_SIZE
    BY <1>3, <1>4, <2>3
  <2>6. Agrees(InsertNew(q, a, b), {}) /\ Counted(InsertNew(q, a, b))
    BY <1>0, <2>3, <2>4, <2>5, InsertNewAgrees
  <2> QED
    BY <2>1, <2>6, TablesBecome DEF q
<1>5. CASE Cardinality(m.new[b]) # NEW_BUCKET_SIZE
  <2>1. Cardinality(m.new[b]) < NEW_BUCKET_SIZE
    BY <1>3, <1>5, AddrManAssumption
  <2>2. Agrees(InsertNew(m, a, b), {}) /\ Counted(InsertNew(m, a, b))
    BY <1>0, <1>1, <1>2, <2>1, InsertNewAgrees
  <2> QED
    BY <1>1, <1>5, <2>2, TablesBecome
<1> QED
  BY <1>4, <1>5

\* A success is written in the entry, and in those that come after it in rank.
LEMMA SucceedsAgrees ==
  ASSUME NEW m, Agrees(m, {}), Counted(m), NEW a \in Known(m), NEW r, r = Succeeds(m, a)
  PROVE  /\ Agrees(r, {}) /\ Counted(r) /\ Known(r) = Known(m)
         /\ r.new = m.new /\ r.tried = m.tried
         /\ r.info[a].tried = m.info[a].tried /\ r.info[a].last > 0
<1> DEFINE before(x) == {y \in Known(m) \ {a} : 0 < m.info[y].last /\
                                                (x = a \/ m.info[y].last < m.info[x].last)}
<1>0. Typed(m) /\ Listed(m) /\ Bucketed(m, {}) /\ Tried(m)
  BY DEF Agrees
<1>1. \A x : Cardinality(before(x)) \in Nat
  <2> TAKE x
  <2>1. before(x) \subseteq Known(m)
    OBVIOUS
  <2> HIDE DEF before
  <2> QED
    BY <1>0, <2>1, FiniteTables, FS_Subset, FS_CardinalityType
<1>2. /\ r.info = [x \in Known(m) |-> IF x = a \/ m.info[x].last > 0
                                      THEN [m.info[x] EXCEPT !.last = 1 + Cardinality(before(x))]
                                      ELSE m.info[x]]
      /\ r.random = m.random /\ r.new = m.new /\ r.tried = m.tried
      /\ r.nNew = m.nNew /\ r.nTried = m.nTried
      /\ r = [info |-> r.info, random |-> r.random, new |-> r.new, nNew |-> r.nNew,
              tried |-> r.tried, nTried |-> r.nTried]
  <2>1. m = [info |-> m.info, random |-> m.random, new |-> m.new, nNew |-> m.nNew,
             tried |-> m.tried, nTried |-> m.nTried]
    BY <1>0 DEF Typed
  <2> DEFINE info == [x \in Known(m) |-> IF x = a \/ m.info[x].last > 0
                                         THEN [m.info[x] EXCEPT !.last = 1 + Cardinality(before(x))]
                                         ELSE m.info[x]]
  <2>2. r = [m EXCEPT !.info = info]
    BY <2>1 DEF Succeeds, Known
  <2> HIDE DEF info, before
  <2>3. r = [info |-> info, random |-> m.random, new |-> m.new, nNew |-> m.nNew,
             tried |-> m.tried, nTried |-> m.nTried]
    BY <2>1, <2>2
  <2> QED
    BY <2>3 DEF info
<1> HIDE DEF before
<1>3. ASSUME NEW x \in Known(m)
      PROVE  /\ r.info[x] \in Entry /\ r.info[x].source = m.info[x].source
             /\ r.info[x].ref = m.info[x].ref /\ r.info[x].tried = m.info[x].tried
             /\ r.info[x].pos = m.info[x].pos
             /\ x = a \/ m.info[x].last > 0 => r.info[x].last > 0
  <2>1. m.info[x] \in Entry
    BY <1>0 DEF Typed
  <2>2. CASE x = a \/ m.info[x].last > 0
    <3>1. r.info[x] = [m.info[x] EXCEPT !.last = 1 + Cardinality(before(x))]
      BY <1>2, <2>2
    <3>2. 1 + Cardinality(before(x)) \in Nat /\ 1 + Cardinality(before(x)) > 0
      BY <1>1
    <3> QED
      BY <2>1, <3>1, <3>2 DEF Entry
  <2>3. CASE ~(x = a \/ m.info[x].last > 0)
    <3>1. r.info[x] = m.info[x]
      BY <1>2, <2>3
    <3> QED
      BY <2>1, <2>3, <3>1
  <2> QED
    BY <2>2, <2>3
<1>4. Known(r) = Known(m) /\ r.info \in [Known(m) -> Entry]
  <2>1. DOMAIN r.info = Known(m)
    BY <1>2
  <2>2. r.info = [x \in Known(m) |-> r.info[x]]
    BY <1>2, <2>1
  <2> QED
    BY <1>3, <2>1, <2>2 DEF Known
<1>5. Typed(r)
  <2>1. \A x \in Known(r) : r.info[x].source \in DOMAIN NewBucketOf[x]
    BY <1>0, <1>3, <1>4 DEF Typed
  <2> QED
    BY <1>0, <1>2, <1>4, <2>1 DEF Typed
<1>6. Listed(r)
  BY <1>0, <1>2, <1>3, <1>4 DEF Listed
<1>7. Bucketed(r, {})
  <2>1. \A x : NewIn(r, x) = NewIn(m, x)
    BY <1>2 DEF NewIn
  <2> QED
    BY <1>0, <1>2, <1>3, <1>4, <2>1 DEF Bucketed
<1>8. Tried(r)
  <2>1. \A c : TriedIn(r, c) = TriedIn(m, c)
    BY <1>3, <1>4 DEF TriedIn
  <2> QED
    BY <1>0, <1>2, <2>1 DEF Tried, TriedList
<1>9. Counted(r)
  <2>1. AreNew(r) = AreNew(m) /\ AreTried(r) = AreTried(m)
    BY <1>3, <1>4 DEF AreNew, AreTried
  <2> QED
    BY <1>2, <2>1 DEF Counted
<1> QED
  BY <1>2, <1>3, <1>4, <1>5, <1>6, <1>7, <1>8, <1>9 DEF Agrees

\* An entry that succeeds for the first time leaves its new buckets.
Leaves(m, a) == [LeaveNew(m, a) EXCEPT !.info[a].tried = TRUE]

LEMMA LeaveNewAgrees ==
  ASSUME NEW m, Agrees(m, {}), Counted(m), NEW a \in Known(m),
         ~m.info[a].tried, m.info[a].last > 0,
         NEW r, r = Leaves(m, a)
  PROVE  /\ Typed(r) /\ Listed(r) /\ Bucketed(r, {})
         /\ Known(r) = Known(m) /\ \A x \in Known(m) \ {a} : r.info[x] = m.info[x]
         /\ r.info[a].tried
         /\ \A b \in NewBuckets : r.new[b] = m.new[b] \ {a}
         /\ r.tried = m.tried /\ r.nTried = m.nTried /\ r.nNew = Cardinality(AreNew(r))
         /\ AreTried(r) = AreTried(m) \cup {a} /\ a \notin AreTried(m)
<1> DEFINE in == {b \in NewBuckets : a \in m.new[b]}
           new == [b \in NewBuckets |-> m.new[b] \ {a}]
           left == [m.info EXCEPT ![a].ref = m.info[a].ref - Cardinality(in)]
           info == [left EXCEPT ![a].tried = TRUE]
<1>0. Typed(m) /\ Listed(m) /\ Bucketed(m, {}) /\ Tried(m)
  BY DEF Agrees
<1>1. /\ in = NewIn(m, a) /\ m.info[a].ref = Cardinality(in) /\ Cardinality(in) \in Nat
      /\ DOMAIN m.info = Known(m) /\ m.info[a] \in Entry /\ m.info \in [Known(m) -> Entry]
  BY <1>0, FiniteTables DEF Bucketed, NewIn, Typed
<1>2. /\ r.info = info /\ r.new = new /\ r.nNew = m.nNew - 1
      /\ r.random = m.random /\ r.tried = m.tried /\ r.nTried = m.nTried
      /\ r = [info |-> r.info, random |-> r.random, new |-> r.new, nNew |-> r.nNew,
              tried |-> r.tried, nTried |-> r.nTried]
  <2>1. m = [info |-> m.info, random |-> m.random, new |-> m.new, nNew |-> m.nNew,
             tried |-> m.tried, nTried |-> m.nTried]
    BY <1>0 DEF Typed
  <2> DEFINE l == LeaveNew(m, a)
  <2>2. l = [[[m EXCEPT !.new = new] EXCEPT !.info = left] EXCEPT !.nNew = m.nNew - 1]
    BY <2>1 DEF LeaveNew
  <2>3. r = [l EXCEPT !.info = [l.info EXCEPT ![a].tried = TRUE]]
    BY DEF Leaves
  <2> HIDE DEF new, left, l
  <2>4. l = [info |-> left, random |-> m.random, new |-> new, nNew |-> m.nNew - 1,
             tried |-> m.tried, nTried |-> m.nTried]
    BY <2>1, <2>2
  <2> HIDE DEF info
  <2>5. r = [l EXCEPT !.info = info]
    BY <2>3, <2>4 DEF info
  <2>6. r = [info |-> info, random |-> m.random, new |-> new, nNew |-> m.nNew - 1,
             tried |-> m.tried, nTried |-> m.nTried]
    BY <2>4, <2>5
  <2> QED
    BY <2>6
<1> HIDE DEF in
<1>3. /\ Known(r) = Known(m) /\ r.info \in [Known(m) -> Entry]
      /\ \A x \in Known(m) \ {a} : r.info[x] = m.info[x]
      /\ r.info[a].ref = 0 /\ r.info[a].tried /\ r.info[a].pos = m.info[a].pos
      /\ r.info[a].source = m.info[a].source /\ r.info[a].last = m.info[a].last
  <2>1. /\ left[a] = [m.info[a] EXCEPT !.ref = m.info[a].ref - Cardinality(in)]
        /\ \A x \in Known(m) \ {a} : left[x] = m.info[x]
        /\ DOMAIN left = Known(m)
    BY <1>1
  <2>2. /\ left[a] \in Entry /\ left[a].ref = 0 /\ left[a].pos = m.info[a].pos
        /\ left[a].source = m.info[a].source /\ left[a].last = m.info[a].last
    BY <1>1, <2>1 DEF Entry
  <2> HIDE DEF left
  <2>3. /\ r.info[a] = [left[a] EXCEPT !.tried = TRUE]
        /\ \A x \in Known(m) \ {a} : r.info[x] = left[x]
        /\ DOMAIN r.info = Known(m)
    BY <1>2, <2>1
  <2>4. /\ r.info[a] \in Entry /\ r.info[a].ref = 0 /\ r.info[a].pos = m.info[a].pos
        /\ r.info[a].source = m.info[a].source /\ r.info[a].last = m.info[a].last
        /\ r.info[a].tried
    BY <2>2, <2>3 DEF Entry
  <2>5. r.info = [x \in Known(m) |-> r.info[x]]
    BY <1>2, <2>1, <2>3
  <2>6. \A x \in Known(m) : r.info[x] \in Entry
    BY <1>1, <2>1, <2>3, <2>4
  <2> QED
    BY <2>1, <2>3, <2>4, <2>5, <2>6 DEF Known
<1> HIDE DEF info, left
<1>4. Typed(r)
  <2>1. \A x \in Known(r) : r.info[x].source \in DOMAIN NewBucketOf[x]
    BY <1>0, <1>3 DEF Typed
  <2>2. r.new \in [NewBuckets -> SUBSET Addrs] /\ r.nNew \in Int
    BY <1>0, <1>2 DEF Typed
  <2> QED
    BY <1>0, <1>2, <1>3, <2>1, <2>2 DEF Typed
<1>5. Listed(r)
  BY <1>0, <1>2, <1>3 DEF Listed
<1>6. Bucketed(r, {})
  <2>1. /\ \A x \in Known(m) \ {a} : NewIn(r, x) = NewIn(m, x)
        /\ NewIn(r, a) = {}
    BY <1>2 DEF NewIn
  <2>2. \A b \in NewBuckets : r.new[b] \subseteq Known(r) /\ Cardinality(r.new[b]) <= NEW_BUCKET_SIZE
    <3> TAKE b \in NewBuckets
    <3>1. r.new[b] = m.new[b] \ {a} /\ m.new[b] \subseteq Known(m)
      BY <1>0, <1>2 DEF Bucketed
    <3>2. Cardinality(m.new[b]) <= NEW_BUCKET_SIZE /\ IsFiniteSet(m.new[b])
      BY <1>0, FiniteTables DEF Bucketed
    <3>3. Cardinality(m.new[b] \ {a}) <= Cardinality(m.new[b])
      BY <3>2, FS_Subset
    <3>4. Cardinality(m.new[b]) \in Nat /\ Cardinality(m.new[b] \ {a}) \in Nat
      BY <3>2, FS_RemoveElement, FS_CardinalityType
    <3> QED
      BY <1>3, <3>1, <3>2, <3>3, <3>4, AddrManAssumption
  <2>3. ASSUME NEW x \in Known(r)
        PROVE  /\ r.info[x].ref = Cardinality(NewIn(r, x))
               /\ r.info[x].ref <= NEW_BUCKETS_PER_ADDRESS
               /\ r.info[x].tried => r.info[x].ref = 0 /\ r.info[x].last > 0
               /\ r.info[x].tried \/ x \in {} \/ r.info[x].ref >= 1
    <3>1. CASE x = a
      <4>1. Cardinality(NewIn(r, a)) = 0 /\ 0 <= NEW_BUCKETS_PER_ADDRESS
        BY <2>1, FS_EmptySet, AddrManAssumption
      <4>2. r.info[a].ref = 0 /\ r.info[a].last > 0 /\ r.info[a].tried
        BY <1>3
      <4> QED
        BY <3>1, <4>1, <4>2
    <3>2. CASE x # a
      BY <1>0, <1>3, <2>1, <2>3, <3>2 DEF Bucketed
    <3> QED
      BY <3>1, <3>2
  <2> QED
    BY <2>2, <2>3 DEF Bucketed
<1>7. /\ AreNew(r) = AreNew(m) \ {a} /\ a \in AreNew(m)
      /\ AreTried(r) = AreTried(m) \cup {a} /\ a \notin AreTried(m)
  BY <1>3 DEF AreNew, AreTried
<1>8. r.nNew = Cardinality(AreNew(r))
  <2>1. m.nNew = Cardinality(AreNew(m)) /\ IsFiniteSet(AreNew(m))
    BY <1>0, FiniteTables DEF Counted
  <2> QED
    BY <1>2, <1>7, <2>1, CountsStep
<1>9. \A b \in NewBuckets : r.new[b] = m.new[b] \ {a}
  BY <1>2
<1> QED
  BY <1>2, <1>3, <1>4, <1>5, <1>6, <1>7, <1>8, <1>9

\* A set of numbers that is not empty has a least one.
LEMMA LeastIndex ==
  ASSUME NEW T, T \subseteq Nat, T # {}
  PROVE  \E n \in T : \A i \in T : n <= i
<1> DEFINE Less == {pair \in Nat \X Nat : pair[1] < pair[2]}
<1>1. IsWellFoundedOn(Less, Nat)
  BY NatLessThanWellFounded, Zenon DEF OpToRel
<1>2. PICK n \in T : \A i \in T : <<i, n>> \notin Less
  BY <1>1, WFMin
<1>3. \A i \in T : ~ (i < n)
  <2> SUFFICES ASSUME NEW i \in T, i < n PROVE FALSE
    OBVIOUS
  <2>1. <<i, n>> \in Nat \X Nat /\ <<i, n>>[1] = i /\ <<i, n>>[2] = n
    OBVIOUS
  <2> QED
    BY <1>2, <2>1
<1> QED
  BY <1>3

\* What holds before a loop and after each of its turns holds at its end.
LEMMA LoopInduction ==
  ASSUME NEW n \in Nat, NEW S, 0 \in S, \A i \in 1..n : i - 1 \in S => i \in S
  PROVE  n \in S
<1> SUFFICES ASSUME n \notin S PROVE FALSE
  OBVIOUS
<1> DEFINE T == {i \in 0..n : i \notin S}
<1>1. PICK i \in T : \A j \in T : i <= j
  <2>1. T \subseteq Nat /\ n \in T
    OBVIOUS
  <2> QED
    BY <2>1, LeastIndex
<1>2. i \in 1..n /\ i - 1 \notin T
  BY <1>1
<1> QED
  BY <1>1, <1>2

\* The loop of SelectTried.
Looks(f, m, s, pick, n) ==
  f = [i \in 0..n |-> IF i = 0 THEN s ELSE LookAt(m, f[i - 1], i, pick[i])]

LEMMA LookedDef ==
  ASSUME NEW m, NEW s, NEW pick, NEW n \in Nat
  PROVE  \E f : Looks(f, m, s, pick, n)
<1> DEFINE Runs(f, k) == f = [i \in 0..k |-> IF i = 0 THEN s ELSE LookAt(m, f[i - 1], i, pick[i])]
           S == {k \in 0..n : \E f : Runs(f, k)}
<1>1. 0 \in S
  <2>1. Runs([i \in 0..0 |-> s], 0)
    OBVIOUS
  <2> HIDE DEF Runs
  <2> QED
    BY <2>1
<1>2. ASSUME NEW k \in 1..n, k - 1 \in S PROVE k \in S
  <2>1. PICK f : Runs(f, k - 1)
    BY <1>2
  <2> DEFINE g == [i \in 0..k |-> IF i < k THEN f[i] ELSE LookAt(m, f[k - 1], k, pick[k])]
  <2>2. \A i \in 0..(k - 1) : g[i] = f[i]
    OBVIOUS
  <2>3. g[k] = LookAt(m, f[k - 1], k, pick[k])
    OBVIOUS
  <2>4. \A i \in 0..(k - 1) : f[i] = IF i = 0 THEN s ELSE LookAt(m, f[i - 1], i, pick[i])
    BY <2>1
  <2>5. \A i \in 0..k : g[i] = IF i = 0 THEN s ELSE LookAt(m, g[i - 1], i, pick[i])
    <3> TAKE i \in 0..k
    <3> HIDE DEF g
    <3>1. CASE i = k
      BY <2>2, <2>3, <3>1
    <3>2. CASE i = 0
      BY <2>2, <2>4, <3>2
    <3>3. CASE i \in 1..(k - 1)
      <4>1. i - 1 \in 0..(k - 1) /\ i \in 0..(k - 1) /\ i # 0
        BY <3>3
      <4> QED
        BY <2>2, <2>4, <4>1
    <3> QED
      BY <3>1, <3>2, <3>3
  <2>6. g = [i \in 0..k |-> g[i]]
    OBVIOUS
  <2> HIDE DEF g
  <2>7. Runs(g, k)
    BY <2>5, <2>6
  <2> QED
    BY <2>7
<1> HIDE DEF S
<1>3. n \in S
  BY <1>1, <1>2, LoopInduction
<1> QED
  BY <1>3 DEF S, Looks

\* To shuffle a list, and to look for its oldest member, is to permute it.
Permutes(t, s) ==
  /\ t \in Seq(Addrs) /\ Len(t) = Len(s)
  /\ (\A i, j \in 1..Len(s) : s[i] = s[j] => i = j) => (\A i, j \in 1..Len(t) : t[i] = t[j] => i = j)
  /\ \A i \in 1..Len(t) : \E j \in 1..Len(s) : t[i] = s[j]
  /\ \A j \in 1..Len(s) : \E i \in 1..Len(t) : t[i] = s[j]

LEMMA SwapPermutes ==
  ASSUME NEW s \in Seq(Addrs), NEW t, Permutes(t, s), NEW i \in 1..Len(s), NEW j \in 1..Len(s),
         NEW u, u = [t EXCEPT ![j] = t[i], ![i] = t[j]]
  PROVE  Permutes(u, s)
<1>1. t \in Seq(Addrs) /\ Len(t) = Len(s) /\ i \in 1..Len(t) /\ j \in 1..Len(t)
  BY DEF Permutes
<1>2. /\ u \in Seq(Addrs) /\ Len(u) = Len(t)
      /\ \A k \in 1..Len(t) : u[k] = IF k = i THEN t[j] ELSE IF k = j THEN t[i] ELSE t[k]
  BY <1>1
<1>3. ASSUME \A k, l \in 1..Len(t) : t[k] = t[l] => k = l
      PROVE  \A k, l \in 1..Len(u) : u[k] = u[l] => k = l
  <2> DEFINE at(k) == IF k = i THEN j ELSE IF k = j THEN i ELSE k
  <2>1. \A k \in 1..Len(t) : u[k] = t[at(k)] /\ at(k) \in 1..Len(t)
    BY <1>1, <1>2
  <2>2. \A k, l \in 1..Len(t) : at(k) = at(l) => k = l
    OBVIOUS
  <2> HIDE DEF at
  <2> QED
    BY <1>2, <1>3, <2>1, <2>2
<1>4. \A k \in 1..Len(u) : \E l \in 1..Len(s) : u[k] = s[l]
  <2> TAKE k \in 1..Len(u)
  <2>1. \E l \in 1..Len(t) : u[k] = t[l]
    BY <1>1, <1>2
  <2> QED
    BY <2>1 DEF Permutes
<1>5. \A l \in 1..Len(s) : \E k \in 1..Len(u) : u[k] = s[l]
  <2> TAKE l \in 1..Len(s)
  <2>1. PICK k \in 1..Len(t) : t[k] = s[l]
    BY DEF Permutes
  <2>2. CASE k = i
    BY <1>1, <1>2, <2>1, <2>2
  <2>3. CASE k = j
    BY <1>1, <1>2, <2>1, <2>3
  <2>4. CASE k # i /\ k # j
    BY <1>1, <1>2, <2>1, <2>4
  <2> QED
    BY <2>2, <2>3, <2>4
<1> QED
  BY <1>1, <1>2, <1>3, <1>4, <1>5 DEF Permutes

\* SelectTried permutes the bucket and gives a place in it.
LEMMA SelectTriedPermutes ==
  ASSUME NEW m, Typed(m), NEW b \in TriedBuckets, Len(m.tried[b]) >= 1,
         NEW pick \in Picks(Inspected(Len(m.tried[b])), Len(m.tried[b])),
         NEW s, s = SelectTried(m, b, pick)
  PROVE  Permutes(s.bucket, m.tried[b]) /\ s.pos \in 1..Len(m.tried[b])
<1> DEFINE n == Len(m.tried[b])
           k == Inspected(n)
           first == [bucket |-> m.tried[b], oldest |-> m.tried[b][1], pos |-> 0]
           looked[i \in 0..k] == IF i = 0 THEN first ELSE LookAt(m, looked[i - 1], i, pick[i])
<1>1. m.tried[b] \in Seq(Addrs) /\ n \in Nat /\ k \in 1..n
  <2>1. m.tried[b] \in Seq(Addrs)
    BY DEF Typed
  <2>2. n \in Nat
    BY <2>1, LenProperties
  <2> HIDE DEF n
  <2> QED
    BY <2>1, <2>2, AddrManAssumption DEF Inspected, n
<1> HIDE DEF k
<1>2. pick \in [1..k -> 1..n] /\ Len(pick) = k
  BY <1>1 DEF Picks, k
<1>3. Looks(looked, m, first, pick, k)
  <2>1. \E f : Looks(f, m, first, pick, k)
    <3> HIDE DEF first, looked
    <3>1. k \in Nat
      BY <1>1
    <3> QED
      BY <3>1, LookedDef
  <2> QED
    BY <2>1 DEF Looks
<1>4. s = looked[k]
  BY <1>2 DEF SelectTried
<1> HIDE DEF looked, n
<1>5. /\ looked[0] = first
      /\ \A i \in 1..k : looked[i] = LookAt(m, looked[i - 1], i, pick[i])
  <2>1. \A i \in 0..k : looked[i] = IF i = 0 THEN first ELSE LookAt(m, looked[i - 1], i, pick[i])
    BY <1>3 DEF Looks
  <2> QED
    BY <1>1, <2>1
<1> HIDE DEF first
<1> DEFINE S == {i \in 0..k : /\ Permutes(looked[i].bucket, m.tried[b])
                              /\ looked[i].pos \in 0..n /\ (i > 0 => looked[i].pos > 0)}
<1>6. 0 \in S
  <2>1. Permutes(m.tried[b], m.tried[b])
    BY <1>1 DEF Permutes
  <2> QED
    BY <1>1, <1>5, <2>1 DEF first
<1>7. ASSUME NEW i \in 1..k, i - 1 \in S PROVE i \in S
  <2> DEFINE t == looked[i - 1]
  <2>1. Permutes(t.bucket, m.tried[b]) /\ t.pos \in 0..n
    BY <1>7
  <2>2. pick[i] \in 1..n /\ i \in 1..n
    BY <1>1, <1>2
  <2>3. looked[i] = LookAt(m, t, i, pick[i])
    BY <1>5
  <2> HIDE DEF t
  <2>4. /\ looked[i].bucket = [t.bucket EXCEPT ![pick[i]] = t.bucket[i], ![i] = t.bucket[pick[i]]]
        /\ looked[i].pos \in {t.pos, pick[i]} /\ looked[i].pos # 0
    BY <2>1, <2>2, <2>3 DEF LookAt
  <2>5. Permutes(looked[i].bucket, m.tried[b])
    BY <1>1, <2>1, <2>2, <2>4, SwapPermutes DEF n
  <2> QED
    BY <1>1, <2>1, <2>2, <2>4, <2>5
<1> HIDE DEF S
<1>8. k \in S
  BY <1>1, <1>6, <1>7, LoopInduction
<1> QED
  BY <1>1, <1>4, <1>8 DEF S, n

\* An entry that is evicted goes back to a new bucket with room for it.
LEMMA ReturnToNewAgrees ==
  ASSUME NEW m, Typed(m), Listed(m), Bucketed(m, {}), m.nNew = Cardinality(AreNew(m)),
         NEW old \in Known(m), m.info[old].tried,
         NEW origin \in NewBuckets, Cardinality(m.new[origin]) < NEW_BUCKET_SIZE,
         NEW r, r = ReturnToNew(m, old, origin)
  PROVE  /\ Typed(r) /\ Listed(r) /\ Bucketed(r, {})
         /\ Known(r) = Known(m) /\ \A x \in Known(m) \ {old} : r.info[x] = m.info[x]
         /\ ~r.info[old].tried
         /\ r.tried = m.tried /\ r.nTried = m.nTried /\ r.nNew = Cardinality(AreNew(r))
         /\ AreTried(r) = AreTried(m) \ {old}
<1> DEFINE b == NewBucketOf[old][m.info[old].source]
           to == IF Cardinality(m.new[b]) < NEW_BUCKET_SIZE THEN b ELSE origin
           new == [m.new EXCEPT ![to] = m.new[to] \cup {old}]
           untried == [m.info EXCEPT ![old].tried = FALSE]
           info == [untried EXCEPT ![old].ref = 1]
<1>1. /\ DOMAIN m.info = Known(m) /\ m.info[old] \in Entry /\ m.info \in [Known(m) -> Entry]
      /\ old \in Addrs /\ to \in NewBuckets /\ Cardinality(m.new[to]) < NEW_BUCKET_SIZE
  <2>1. old \in Addrs /\ b \in NewBuckets
    BY SourceBucket DEF Typed
  <2> QED
    BY <2>1 DEF Typed
<1> HIDE DEF b, to
<1>2. /\ r.info = info /\ r.new = new /\ r.nNew = m.nNew + 1
      /\ r.random = m.random /\ r.tried = m.tried /\ r.nTried = m.nTried
      /\ r = [info |-> r.info, random |-> r.random, new |-> r.new, nNew |-> r.nNew,
              tried |-> r.tried, nTried |-> r.nTried]
  <2>1. m = [info |-> m.info, random |-> m.random, new |-> m.new, nNew |-> m.nNew,
             tried |-> m.tried, nTried |-> m.nTried]
    BY DEF Typed
  <2> DEFINE u == [m EXCEPT !.info = untried]
             v == [u EXCEPT !.info = [u.info EXCEPT ![old].ref = 1]]
  <2>2. r = [[v EXCEPT !.new = [v.new EXCEPT ![to] = v.new[to] \cup {old}]] EXCEPT !.nNew = v.nNew + 1]
    BY <2>1 DEF ReturnToNew, b, to
  <2> HIDE DEF untried
  <2>3. u = [info |-> untried, random |-> m.random, new |-> m.new, nNew |-> m.nNew,
             tried |-> m.tried, nTried |-> m.nTried]
    BY <2>1
  <2> HIDE DEF u
  <2>4. v = [info |-> info, random |-> m.random, new |-> m.new, nNew |-> m.nNew,
             tried |-> m.tried, nTried |-> m.nTried]
    BY <2>3
  <2> HIDE DEF v, info
  <2>5. r = [info |-> info, random |-> m.random, new |-> new, nNew |-> m.nNew + 1,
             tried |-> m.tried, nTried |-> m.nTried]
    BY <2>2, <2>4
  <2> HIDE DEF new
  <2> QED
    BY <2>5
<1>3. /\ Known(r) = Known(m) /\ r.info \in [Known(m) -> Entry]
      /\ \A x \in Known(m) \ {old} : r.info[x] = m.info[x]
      /\ r.info[old].ref = 1 /\ ~r.info[old].tried /\ r.info[old].pos = m.info[old].pos
      /\ r.info[old].source = m.info[old].source
  <2>1. /\ untried[old] = [m.info[old] EXCEPT !.tried = FALSE]
        /\ \A x \in Known(m) \ {old} : untried[x] = m.info[x]
        /\ DOMAIN untried = Known(m)
    BY <1>1
  <2>2. /\ untried[old] \in Entry /\ ~untried[old].tried /\ untried[old].pos = m.info[old].pos
        /\ untried[old].source = m.info[old].source
    BY <1>1, <2>1 DEF Entry
  <2> HIDE DEF untried
  <2>3. /\ r.info[old] = [untried[old] EXCEPT !.ref = 1]
        /\ \A x \in Known(m) \ {old} : r.info[x] = untried[x]
        /\ DOMAIN r.info = Known(m)
    BY <1>2, <2>1
  <2>4. /\ r.info[old] \in Entry /\ r.info[old].ref = 1 /\ r.info[old].pos = m.info[old].pos
        /\ r.info[old].source = m.info[old].source /\ ~r.info[old].tried
    BY <2>2, <2>3 DEF Entry
  <2>5. r.info = [x \in Known(m) |-> r.info[x]]
    BY <1>2, <2>1, <2>3
  <2>6. \A x \in Known(m) : r.info[x] \in Entry
    BY <1>1, <2>1, <2>3, <2>4
  <2> QED
    BY <2>1, <2>3, <2>4, <2>5, <2>6 DEF Known
<1> HIDE DEF info, untried
<1>4. /\ r.new \in [NewBuckets -> SUBSET Addrs] /\ r.new[to] = m.new[to] \cup {old}
      /\ \A c \in NewBuckets \ {to} : r.new[c] = m.new[c]
  BY <1>1, <1>2 DEF Typed
<1> HIDE DEF new
<1>5. Typed(r)
  <2>1. \A x \in Known(r) : r.info[x].source \in DOMAIN NewBucketOf[x]
    BY <1>3 DEF Typed
  <2>2. r.nNew \in Int
    BY <1>2 DEF Typed
  <2> QED
    BY <1>2, <1>3, <1>4, <2>1, <2>2 DEF Typed
<1>6. Listed(r)
  BY <1>2, <1>3 DEF Listed
<1>7. NewIn(m, old) = {}
  <2>1. Cardinality(NewIn(m, old)) = 0 /\ IsFiniteSet(NewIn(m, old))
    BY FiniteTables DEF Bucketed
  <2> QED
    BY <2>1, FS_EmptySet
<1>8. Bucketed(r, {})
  <2>1. /\ \A x \in Known(m) \ {old} : NewIn(r, x) = NewIn(m, x)
        /\ NewIn(r, old) = {to}
    BY <1>1, <1>4, <1>7 DEF NewIn
  <2>2. Cardinality(r.new[to]) <= NEW_BUCKET_SIZE
    <3>1. IsFiniteSet(m.new[to]) /\ Cardinality(m.new[to]) \in Nat
      BY <1>1, FiniteTables
    <3>2. Cardinality(r.new[to]) = IF old \in m.new[to] THEN Cardinality(m.new[to])
                                   ELSE Cardinality(m.new[to]) + 1
      BY <1>4, <3>1, FS_AddElement
    <3> QED
      BY <1>1, <3>1, <3>2, AddrManAssumption
  <2>3. \A c \in NewBuckets : r.new[c] \subseteq Known(r) /\ Cardinality(r.new[c]) <= NEW_BUCKET_SIZE
    BY <1>1, <1>3, <1>4, <2>2 DEF Bucketed
  <2>4. ASSUME NEW x \in Known(r)
        PROVE  /\ r.info[x].ref = Cardinality(NewIn(r, x))
               /\ r.info[x].ref <= NEW_BUCKETS_PER_ADDRESS
               /\ r.info[x].tried => r.info[x].ref = 0 /\ r.info[x].last > 0
               /\ r.info[x].tried \/ x \in {} \/ r.info[x].ref >= 1
    <3>1. CASE x = old
      <4>1. Cardinality(NewIn(r, old)) = 1 /\ 1 <= NEW_BUCKETS_PER_ADDRESS
        <5>1. Cardinality({to}) = 1
          BY FS_Singleton
        <5>2. 1 <= NEW_BUCKETS_PER_ADDRESS
          BY AddrManAssumption
        <5> QED
          BY <2>1, <5>1, <5>2
      <4>2. r.info[old].ref = 1 /\ ~r.info[old].tried
        BY <1>3
      <4> QED
        BY <3>1, <4>1, <4>2
    <3>2. CASE x # old
      BY <1>3, <2>1, <2>4, <3>2 DEF Bucketed
    <3> QED
      BY <3>1, <3>2
  <2> QED
    BY <2>3, <2>4 DEF Bucketed
<1>9. /\ AreNew(r) = AreNew(m) \cup {old} /\ old \notin AreNew(m)
      /\ AreTried(r) = AreTried(m) \ {old}
  BY <1>3 DEF AreNew, AreTried
<1>10. r.nNew = Cardinality(AreNew(r))
  <2>1. IsFiniteSet(AreNew(m))
    BY FiniteTables
  <2> QED
    BY <1>2, <1>9, <2>1, CountsStep
<1> QED
  BY <1>2, <1>3, <1>5, <1>6, <1>8, <1>9, <1>10

\* The list of one tried bucket is written anew.
LEMMA RelistTried ==
  ASSUME NEW m, Typed(m), Listed(m), Bucketed(m, {}), m.nNew = Cardinality(AreNew(m)),
         NEW b \in TriedBuckets, NEW t \in Seq(Addrs), NEW count \in Int,
         \A c \in TriedBuckets \ {b} : TriedList(m, c, m.tried[c]),
         TriedList(m, b, t),
         count = Cardinality(AreTried(m)),
         NEW r, r = [info |-> m.info, random |-> m.random, new |-> m.new, nNew |-> m.nNew,
                     tried |-> [m.tried EXCEPT ![b] = t], nTried |-> count]
  PROVE  Agrees(r, {}) /\ Counted(r)
<1>1. /\ r.info = m.info /\ r.random = m.random /\ r.new = m.new /\ r.nNew = m.nNew
      /\ r.tried = [m.tried EXCEPT ![b] = t] /\ r.nTried = count
      /\ r = [info |-> r.info, random |-> r.random, new |-> r.new, nNew |-> r.nNew,
              tried |-> r.tried, nTried |-> r.nTried]
  OBVIOUS
<1>2. /\ Known(r) = Known(m) /\ \A x : NewIn(r, x) = NewIn(m, x)
      /\ \A c : TriedIn(r, c) = TriedIn(m, c)
      /\ AreNew(r) = AreNew(m) /\ AreTried(r) = AreTried(m)
  BY <1>1 DEF Known, NewIn, TriedIn, AreNew, AreTried
<1>3. r.tried \in [TriedBuckets -> Seq(Addrs)] /\ r.tried[b] = t
      /\ \A c \in TriedBuckets \ {b} : r.tried[c] = m.tried[c]
  BY <1>1 DEF Typed
<1>4. Typed(r)
  BY <1>1, <1>2, <1>3 DEF Typed
<1>5. Listed(r) /\ Bucketed(r, {})
  <2>1. Listed(r)
    BY <1>1, <1>2 DEF Listed
  <2>2. Bucketed(r, {})
    BY <1>1, <1>2 DEF Bucketed
  <2> QED
    BY <2>1, <2>2
<1>6. Tried(r)
  <2>1. ASSUME NEW c \in TriedBuckets PROVE TriedList(r, c, r.tried[c])
    <3>1. CASE c = b
      <4>1. TriedList(r, b, t)
        BY <1>2 DEF TriedList
      <4> QED
        BY <1>3, <3>1, <4>1
    <3>2. CASE c # b
      <4>1. TriedList(r, c, m.tried[c])
        BY <1>2, <3>2 DEF TriedList
      <4> QED
        BY <1>3, <3>2, <4>1
    <3> QED
      BY <3>1, <3>2
  <2> QED
    BY <2>1 DEF Tried
<1> QED
  BY <1>1, <1>2, <1>4, <1>5, <1>6 DEF Agrees, Counted

\* A list one shorter than it may be takes one more.
LEMMA AppendTried ==
  ASSUME NEW m, NEW r, NEW b \in TriedBuckets, NEW a \in Addrs, NEW s \in Seq(Addrs),
         TriedList(m, b, s), Len(s) < TRIED_BUCKET_SIZE,
         TriedIn(r, b) = TriedIn(m, b) \cup {a}, a \notin TriedIn(m, b)
  PROVE  TriedList(r, b, Append(s, a)) /\ Append(s, a) \in Seq(Addrs)
<1> DEFINE t == Append(s, a)
           n == Len(s)
<1>1. /\ t \in Seq(Addrs) /\ Len(t) = n + 1 /\ n \in Nat /\ t[n + 1] = a
      /\ \A i \in 1..n : t[i] = s[i]
  BY AppendProperties, LenProperties
<1>2. TRIED_BUCKET_SIZE \in Nat
  BY AddrManAssumption
<1> HIDE DEF t
<1>3. Len(t) <= TRIED_BUCKET_SIZE
  BY <1>1, <1>2
<1>4. /\ \A i, j \in 1..n : s[i] = s[j] => i = j
      /\ \A i \in 1..n : s[i] \in TriedIn(m, b)
      /\ \A x \in TriedIn(m, b) : \E i \in 1..n : s[i] = x
  BY DEF TriedList
<1> HIDE DEF n
<1>5. \A i \in 1..n + 1 : t[i] \in TriedIn(r, b)
  <2> TAKE i \in 1..n + 1
  <2>1. CASE i = n + 1
    BY <1>1, <2>1
  <2>2. CASE i \in 1..n
    BY <1>1, <1>4, <2>2
  <2> QED
    BY <1>1, <2>1, <2>2
<1>6. \A i, j \in 1..n + 1 : t[i] = t[j] => i = j
  <2>1. \A i \in 1..n : t[i] # t[n + 1]
    BY <1>1, <1>4
  <2>2. \A i, j \in 1..n : t[i] = t[j] => i = j
    BY <1>1, <1>4
  <2>3. \A i \in 1..n + 1 : i \in 1..n \/ i = n + 1
    BY <1>1
  <2> QED
    BY <2>1, <2>2, <2>3
<1>7. \A x \in TriedIn(r, b) : \E i \in 1..n + 1 : t[i] = x
  <2> TAKE x \in TriedIn(r, b)
  <2>1. CASE x = a
    BY <1>1, <2>1
  <2>2. CASE x # a
    <3>1. PICK i \in 1..n : s[i] = x
      BY <1>4, <2>2
    <3> QED
      BY <1>1, <3>1
  <2> QED
    BY <2>1, <2>2
<1> QED
  BY <1>1, <1>3, <1>5, <1>6, <1>7 DEF TriedList, t

\* One member takes the place of another.
LEMMA ReplaceTried ==
  ASSUME NEW m, NEW r, NEW b \in TriedBuckets, NEW a \in Addrs, NEW s \in Seq(Addrs),
         TriedList(m, b, s), NEW p \in 1..Len(s),
         TriedIn(r, b) = (TriedIn(m, b) \ {s[p]}) \cup {a}, a \notin TriedIn(m, b),
         NEW t, t = [s EXCEPT ![p] = a]
  PROVE  TriedList(r, b, t) /\ t \in Seq(Addrs)
<1>1. /\ t \in Seq(Addrs) /\ Len(t) = Len(s)
      /\ \A i \in 1..Len(s) : t[i] = IF i = p THEN a ELSE s[i]
  OBVIOUS
<1>2. /\ \A i, j \in 1..Len(s) : s[i] = s[j] => i = j
      /\ \A i \in 1..Len(s) : s[i] \in TriedIn(m, b)
      /\ \A x \in TriedIn(m, b) : \E i \in 1..Len(s) : s[i] = x
      /\ Len(s) <= TRIED_BUCKET_SIZE
  BY DEF TriedList
<1>3. \A i \in 1..Len(t) : t[i] \in TriedIn(r, b)
  <2> TAKE i \in 1..Len(t)
  <2>1. CASE i = p
    BY <1>1, <2>1
  <2>2. CASE i # p
    <3>1. s[i] # s[p] /\ s[i] \in TriedIn(m, b) /\ t[i] = s[i]
      BY <1>1, <1>2, <2>2
    <3> QED
      BY <3>1
  <2> QED
    BY <2>1, <2>2
<1>4. \A i, j \in 1..Len(t) : t[i] = t[j] => i = j
  BY <1>1, <1>2
<1>5. \A x \in TriedIn(r, b) : \E i \in 1..Len(t) : t[i] = x
  <2> TAKE x \in TriedIn(r, b)
  <2>1. CASE x = a
    BY <1>1, <2>1
  <2>2. CASE x # a
    <3>1. PICK i \in 1..Len(s) : s[i] = x
      BY <1>2, <2>2
    <3>2. i # p
      BY <2>2, <3>1
    <3> QED
      BY <1>1, <3>1, <3>2
  <2> QED
    BY <2>1, <2>2
<1> QED
  BY <1>1, <1>2, <1>3, <1>4, <1>5 DEF TriedList

\* A permuted list is as good.
LEMMA PermutedTried ==
  ASSUME NEW m, NEW b \in TriedBuckets, NEW s \in Seq(Addrs), TriedList(m, b, s), NEW t, Permutes(t, s)
  PROVE  TriedList(m, b, t) /\ t \in Seq(Addrs) /\ Len(t) = Len(s)
<1>1. /\ t \in Seq(Addrs) /\ Len(t) = Len(s)
      /\ \A i \in 1..Len(t) : \E j \in 1..Len(s) : t[i] = s[j]
      /\ \A j \in 1..Len(s) : \E i \in 1..Len(t) : t[i] = s[j]
  BY DEF Permutes
<1>2. /\ \A i \in 1..Len(s) : s[i] \in TriedIn(m, b)
      /\ \A x \in TriedIn(m, b) : \E i \in 1..Len(s) : s[i] = x
      /\ Len(s) <= TRIED_BUCKET_SIZE
  BY DEF TriedList
<1>3. \A i, j \in 1..Len(t) : t[i] = t[j] => i = j
  BY DEF TriedList, Permutes
<1>4. \A i \in 1..Len(t) : t[i] \in TriedIn(m, b)
  BY <1>1, <1>2
<1>5. \A x \in TriedIn(m, b) : \E i \in 1..Len(t) : t[i] = x
  BY <1>1, <1>2
<1> QED
  BY <1>1, <1>2, <1>3, <1>4, <1>5 DEF TriedList

\* The entry goes to its tried bucket, whose oldest goes back when it is full.
LEMMA MakeTriedInv ==
  ASSUME NEW m, Agrees(m, {}), Counted(m), NEW a \in Known(m),
         ~m.info[a].tried, m.info[a].last > 0,
         NEW origin \in NewBuckets, a \in m.new[origin], MakeTried(m, a, origin)
  PROVE  AddrManInv'
<1> DEFINE b == TriedBucketOf[a]
           r == Leaves(m, a)
<1>0. /\ Typed(m) /\ Tried(m) /\ a \in Addrs /\ b \in TriedBuckets /\ TRIED_BUCKET_SIZE \in Nat \ {0}
      /\ m.nTried = Cardinality(AreTried(m)) /\ IsFiniteSet(AreTried(m))
  <2>1. Typed(m) /\ Tried(m)
    BY DEF Agrees
  <2>2. a \in Addrs
    BY <2>1 DEF Typed
  <2> QED
    BY <2>1, <2>2, AddrManAssumption, FiniteTables DEF TriedBuckets, Counted
<1>1. IF Len(r.tried[b]) < TRIED_BUCKET_SIZE
      THEN BecomesTables([r EXCEPT !.tried[b] = Append(@, a), !.nTried = @ + 1])
      ELSE \E pick \in Picks(Inspected(Len(r.tried[b])), Len(r.tried[b])) :
             LET s == SelectTried(r, b, pick)
                 old == s.bucket[s.pos]
             IN  BecomesTables([ReturnToNew(r, old, origin) EXCEPT
                                  !.tried[b] = [s.bucket EXCEPT ![s.pos] = a]])
  BY DEF MakeTried, Leaves
<1>2. r = Leaves(m, a)
  OBVIOUS
<1> HIDE DEF r
<1>3. /\ Typed(r) /\ Listed(r) /\ Bucketed(r, {})
      /\ Known(r) = Known(m) /\ \A x \in Known(m) \ {a} : r.info[x] = m.info[x]
      /\ r.info[a].tried
      /\ \A c \in NewBuckets : r.new[c] = m.new[c] \ {a}
      /\ r.tried = m.tried /\ r.nTried = m.nTried /\ r.nNew = Cardinality(AreNew(r))
      /\ AreTried(r) = AreTried(m) \cup {a} /\ a \notin AreTried(m)
  BY <1>2, LeaveNewAgrees
<1>4. /\ TriedIn(r, b) = TriedIn(m, b) \cup {a} /\ a \notin TriedIn(m, b)
      /\ \A c \in TriedBuckets \ {b} : TriedIn(r, c) = TriedIn(m, c)
  BY <1>3 DEF TriedIn
<1>5. /\ m.tried[b] \in Seq(Addrs) /\ Len(m.tried[b]) \in Nat
      /\ \A c \in TriedBuckets : TriedList(m, c, m.tried[c])
  BY <1>0, LenProperties DEF Typed, Tried
<1>6. r = [info |-> r.info, random |-> r.random, new |-> r.new, nNew |-> r.nNew,
           tried |-> r.tried, nTried |-> r.nTried]
  BY <1>3 DEF Typed
<1> HIDE DEF b
<1>7. CASE Len(r.tried[b]) < TRIED_BUCKET_SIZE
  <2> DEFINE t == Append(m.tried[b], a)
             k == r.nTried + 1
             w == [info |-> r.info, random |-> r.random, new |-> r.new, nNew |-> r.nNew,
                   tried |-> [r.tried EXCEPT ![b] = t], nTried |-> k]
  <2>1. TriedList(r, b, t) /\ t \in Seq(Addrs)
    BY <1>0, <1>3, <1>4, <1>5, <1>7, AppendTried
  <2>2. \A c \in TriedBuckets \ {b} : TriedList(r, c, r.tried[c])
    BY <1>3, <1>4, <1>5 DEF TriedList
  <2>3. k = Cardinality(AreTried(r)) /\ k \in Int
    BY <1>0, <1>3, CountsStep
  <2>4. [r EXCEPT !.tried[b] = Append(@, a), !.nTried = @ + 1] = w
    <3> DEFINE u == [r EXCEPT !.tried = [r.tried EXCEPT ![b] = Append(r.tried[b], a)]]
    <3>1. [r EXCEPT !.tried[b] = Append(@, a), !.nTried = @ + 1] = [u EXCEPT !.nTried = k]
      BY <1>6
    <3>2. Append(r.tried[b], a) = t
      BY <1>3
    <3> HIDE DEF t, k
    <3>3. u = [info |-> r.info, random |-> r.random, new |-> r.new, nNew |-> r.nNew,
               tried |-> [r.tried EXCEPT ![b] = t], nTried |-> r.nTried]
      BY <1>6, <3>2
    <3> HIDE DEF u
    <3> QED
      BY <3>1, <3>3
  <2> HIDE DEF t, k
  <2>6. Agrees(w, {}) /\ Counted(w)
    <3>0. Typed(r) /\ Listed(r) /\ Bucketed(r, {}) /\ r.nNew = Cardinality(AreNew(r)) /\ b \in TriedBuckets
      BY <1>0, <1>3
    <3>1. \A x : x = w => Agrees(x, {}) /\ Counted(x)
      BY <2>1, <2>2, <2>3, <3>0, RelistTried
    <3> HIDE DEF w
    <3> QED
      BY <3>1
  <2>7. BecomesTables(w)
    BY <1>1, <1>7, <2>4
  <2> HIDE DEF w
  <2> QED
    BY <2>6, <2>7, TablesBecome
<1>8. CASE ~(Len(r.tried[b]) < TRIED_BUCKET_SIZE)
  <2>1. PICK pick \in Picks(Inspected(Len(r.tried[b])), Len(r.tried[b])) :
          LET s == SelectTried(r, b, pick)
              old == s.bucket[s.pos]
          IN  BecomesTables([ReturnToNew(r, old, origin) EXCEPT
                               !.tried[b] = [s.bucket EXCEPT ![s.pos] = a]])
    BY <1>1, <1>8
  <2> DEFINE s == SelectTried(r, b, pick)
             old == s.bucket[s.pos]
             q == ReturnToNew(r, old, origin)
             t == [s.bucket EXCEPT ![s.pos] = a]
  <2>2. BecomesTables([q EXCEPT !.tried[b] = t])
    BY <2>1
  <2>3. s = SelectTried(r, b, pick)
    OBVIOUS
  <2> HIDE DEF s
  <2>4. q = ReturnToNew(r, old, origin)
    OBVIOUS
  <2> HIDE DEF q
  <2>5. Permutes(s.bucket, m.tried[b]) /\ s.pos \in 1..Len(m.tried[b])
    <3>1. Len(r.tried[b]) >= 1
      BY <1>0, <1>3, <1>5, <1>8
    <3> QED
      BY <1>0, <1>3, <2>3, <3>1, SelectTriedPermutes
  <2>6. TriedList(m, b, s.bucket) /\ s.bucket \in Seq(Addrs) /\ s.pos \in 1..Len(s.bucket)
    <3>1. m.tried[b] \in Seq(Addrs) /\ TriedList(m, b, m.tried[b])
      BY <1>0, <1>5
    <3> QED
      BY <1>0, <2>5, <3>1, PermutedTried
  <2>7. old \in TriedIn(m, b)
    BY <2>6 DEF TriedList
  <2>8. old \in Known(r) /\ old # a /\ r.info[old].tried
    BY <1>3, <1>4, <2>7 DEF TriedIn
  <2> HIDE DEF old
  <2>9. Cardinality(r.new[origin]) < NEW_BUCKET_SIZE
    <3>1. IsFiniteSet(m.new[origin]) /\ Cardinality(m.new[origin]) \in Nat
      BY <1>0, FiniteTables
    <3>2. Cardinality(m.new[origin] \ {a}) = Cardinality(m.new[origin]) - 1
      BY <3>1, CountsStep
    <3>3. Cardinality(m.new[origin]) <= NEW_BUCKET_SIZE /\ NEW_BUCKET_SIZE \in Nat
      BY AddrManAssumption DEF Agrees, Bucketed
    <3>4. r.new[origin] = m.new[origin] \ {a}
      BY <1>3
    <3>5. Cardinality(m.new[origin] \ {a}) < NEW_BUCKET_SIZE
      BY <3>1, <3>2, <3>3
    <3> QED
      BY <3>4, <3>5
  <2>10. /\ Typed(q) /\ Listed(q) /\ Bucketed(q, {})
         /\ Known(q) = Known(r) /\ \A x \in Known(r) \ {old} : q.info[x] = r.info[x]
         /\ ~q.info[old].tried
         /\ q.tried = r.tried /\ q.nTried = r.nTried /\ q.nNew = Cardinality(AreNew(q))
         /\ AreTried(q) = AreTried(r) \ {old}
    BY <1>3, <2>4, <2>8, <2>9, ReturnToNewAgrees
  <2>11. /\ TriedIn(q, b) = (TriedIn(m, b) \ {old}) \cup {a}
         /\ \A c \in TriedBuckets \ {b} : TriedIn(q, c) = TriedIn(m, c)
    <3>1. \A c : TriedIn(q, c) = TriedIn(r, c) \ {old}
      BY <2>10 DEF TriedIn
    <3>2. \A c \in TriedBuckets \ {b} : old \notin TriedIn(m, c)
      BY <2>7 DEF TriedIn
    <3>3. TriedIn(q, b) = (TriedIn(m, b) \cup {a}) \ {old}
      BY <1>0, <1>4, <3>1
    <3>4. TriedIn(q, b) = (TriedIn(m, b) \ {old}) \cup {a}
      BY <2>8, <3>3
    <3>5. ASSUME NEW c \in TriedBuckets \ {b} PROVE TriedIn(q, c) = TriedIn(m, c)
      <4>1. TriedIn(r, c) = TriedIn(m, c) /\ old \notin TriedIn(m, c)
        BY <1>4, <3>2
      <4> QED
        BY <3>1, <4>1
    <3> QED
      BY <3>4, <3>5
  <2>12. TriedList(q, b, t) /\ t \in Seq(Addrs)
    BY <1>0, <1>4, <2>6, <2>11, ReplaceTried DEF old
  <2>13. \A c \in TriedBuckets \ {b} : TriedList(q, c, q.tried[c])
    BY <1>3, <1>5, <2>10, <2>11 DEF TriedList
  <2>14. q.nTried = Cardinality(AreTried(q)) /\ q.nTried \in Int
    <3>1. old \in AreTried(r) /\ IsFiniteSet(AreTried(r))
      BY <1>3, <2>8, FiniteTables DEF AreTried
    <3>2. Cardinality(AreTried(q)) = Cardinality(AreTried(r)) - 1
      BY <2>10, <3>1, CountsStep
    <3>3. Cardinality(AreTried(r)) = m.nTried + 1
      BY <1>0, <1>3, CountsStep
    <3>4. m.nTried \in Int
      BY <1>0 DEF Typed
    <3> QED
      BY <1>3, <2>10, <3>2, <3>3, <3>4
  <2> DEFINE w == [info |-> q.info, random |-> q.random, new |-> q.new, nNew |-> q.nNew,
                   tried |-> [q.tried EXCEPT ![b] = t], nTried |-> q.nTried]
  <2> HIDE DEF t
  <2>15. [q EXCEPT !.tried[b] = t] = w
    <3>1. q = [info |-> q.info, random |-> q.random, new |-> q.new, nNew |-> q.nNew,
               tried |-> q.tried, nTried |-> q.nTried]
      BY <2>10 DEF Typed
    <3> QED
      BY <3>1
  <2>16. Agrees(w, {}) /\ Counted(w)
    <3>1. \A x : x = w => Agrees(x, {}) /\ Counted(x)
      BY <1>0, <2>10, <2>12, <2>13, <2>14, RelistTried
    <3> HIDE DEF w
    <3> QED
      BY <3>1
  <2>17. BecomesTables(w)
    BY <2>2, <2>15
  <2> HIDE DEF w
  <2> QED
    BY <2>16, <2>17, TablesBecome
<1> QED
  BY <1>7, <1>8

LEMMA GoodInv ==
  ASSUME AddrManInv, NEW a \in Addrs, Good(a)
  PROVE  AddrManInv'
<1> DEFINE r == Succeeds(Tables, a)
<1>1. Agrees(Tables, {}) /\ Counted(Tables) /\ a \in Known(Tables) /\ Tables.info = mapInfo
      /\ Tables.new = vvNew
  BY DEF AddrManInv, Good, Tables
<1>2. r = Succeeds(Tables, a)
  OBVIOUS
<1>3. IF mapInfo[a].tried THEN BecomesTables(r)
      ELSE \E origin \in {b \in NewBuckets : a \in vvNew[b]} : MakeTried(r, a, origin)
  BY DEF Good
<1> HIDE DEF r
<1>4. /\ Agrees(r, {}) /\ Counted(r) /\ Known(r) = Known(Tables)
      /\ r.new = Tables.new /\ r.tried = Tables.tried
      /\ r.info[a].tried = Tables.info[a].tried /\ r.info[a].last > 0
  BY <1>1, <1>2, SucceedsAgrees
<1>5. CASE mapInfo[a].tried
  BY <1>3, <1>4, <1>5, TablesBecome
<1>6. CASE ~mapInfo[a].tried
  <2>1. PICK origin \in {b \in NewBuckets : a \in vvNew[b]} : MakeTried(r, a, origin)
    BY <1>3, <1>6
  <2>2. ~r.info[a].tried
    BY <1>1, <1>4, <1>6
  <2> QED
    BY <1>1, <1>4, <2>1, <2>2, MakeTriedInv
<1> QED
  BY <1>5, <1>6

----------------------------------------------------------------------------
(* GetAddr_ *)

\* The loop of Shuffle.
Swaps(f, m, pick, n) ==
  f = [i \in 0..n |-> IF i = 0 THEN m ELSE SwapRandom(f[i - 1], i, pick[i])]

LEMMA SwappedDef ==
  ASSUME NEW m, NEW pick, NEW n \in Nat
  PROVE  \E f : Swaps(f, m, pick, n)
<1> DEFINE Runs(f, k) == f = [i \in 0..k |-> IF i = 0 THEN m ELSE SwapRandom(f[i - 1], i, pick[i])]
           S == {k \in 0..n : \E f : Runs(f, k)}
<1>1. 0 \in S
  <2>1. Runs([i \in 0..0 |-> m], 0)
    OBVIOUS
  <2> HIDE DEF Runs
  <2> QED
    BY <2>1
<1>2. ASSUME NEW k \in 1..n, k - 1 \in S PROVE k \in S
  <2>1. PICK f : Runs(f, k - 1)
    BY <1>2
  <2> DEFINE g == [i \in 0..k |-> IF i < k THEN f[i] ELSE SwapRandom(f[k - 1], k, pick[k])]
  <2>2. \A i \in 0..(k - 1) : g[i] = f[i]
    OBVIOUS
  <2>3. g[k] = SwapRandom(f[k - 1], k, pick[k])
    OBVIOUS
  <2>4. \A i \in 0..(k - 1) : f[i] = IF i = 0 THEN m ELSE SwapRandom(f[i - 1], i, pick[i])
    BY <2>1
  <2>5. \A i \in 0..k : g[i] = IF i = 0 THEN m ELSE SwapRandom(g[i - 1], i, pick[i])
    <3> TAKE i \in 0..k
    <3> HIDE DEF g
    <3>1. CASE i = k
      BY <2>2, <2>3, <3>1
    <3>2. CASE i = 0
      BY <2>2, <2>4, <3>2
    <3>3. CASE i \in 1..(k - 1)
      <4>1. i - 1 \in 0..(k - 1) /\ i \in 0..(k - 1) /\ i # 0
        BY <3>3
      <4> QED
        BY <2>2, <2>4, <4>1
    <3> QED
      BY <3>1, <3>2, <3>3
  <2>6. g = [i \in 0..k |-> g[i]]
    OBVIOUS
  <2> HIDE DEF g
  <2>7. Runs(g, k)
    BY <2>5, <2>6
  <2> QED
    BY <2>7
<1> HIDE DEF S
<1>3. n \in S
  BY <1>1, <1>2, LoopInduction
<1> QED
  BY <1>3 DEF S, Swaps

\* The list is shuffled, and nothing else.
LEMMA ShuffleAgrees ==
  ASSUME NEW m, Agrees(m, {}), Counted(m), NEW k \in Nat,
         NEW pick \in Picks(k, Len(m.random)), NEW r, r = Shuffle(m, pick)
  PROVE  Agrees(r, {}) /\ Counted(r)
<1> DEFINE n == Len(m.random)
           swapped[i \in 0..k] == IF i = 0 THEN m ELSE SwapRandom(swapped[i - 1], i, pick[i])
<1>1. n \in Nat
  BY LenProperties DEF Agrees, Typed
<1>2. pick \in [1..k -> 1..n] /\ Len(pick) = k /\ \A i \in 1..k : pick[i] >= i
  BY DEF Picks
<1>3. Swaps(swapped, m, pick, k)
  <2>1. \E f : Swaps(f, m, pick, k)
    <3> HIDE DEF swapped, n
    <3> QED
      BY SwappedDef
  <2> QED
    BY <2>1 DEF Swaps
<1>4. r = swapped[k]
  BY <1>2 DEF Shuffle
<1> HIDE DEF swapped, n
<1>5. /\ swapped[0] = m
      /\ \A i \in 1..k : swapped[i] = SwapRandom(swapped[i - 1], i, pick[i])
  <2>1. \A i \in 0..k : swapped[i] = IF i = 0 THEN m ELSE SwapRandom(swapped[i - 1], i, pick[i])
    BY <1>3 DEF Swaps
  <2> QED
    BY <2>1
<1> DEFINE S == {i \in 0..k : /\ Agrees(swapped[i], {}) /\ Counted(swapped[i])
                              /\ Len(swapped[i].random) = n}
<1>6. 0 \in S
  BY <1>5 DEF n
<1>7. ASSUME NEW i \in 1..k, i - 1 \in S PROVE i \in S
  <2> DEFINE t == swapped[i - 1]
             u == swapped[i]
  <2>1. Agrees(t, {}) /\ Counted(t) /\ Len(t.random) = n
    BY <1>7
  <2>2. pick[i] \in 1..n /\ i \in 1..n
    BY <1>1, <1>2
  <2>3. u = SwapRandom(t, i, pick[i])
    BY <1>5
  <2> HIDE DEF t, u
  <2>4. /\ Agrees(u, {}) /\ Known(u) = Known(t) /\ Alike(t, u, Known(t))
        /\ u.new = t.new /\ u.tried = t.tried /\ u.nNew = t.nNew /\ u.nTried = t.nTried
        /\ Len(u.random) = n
    BY <2>1, <2>2, <2>3, SwapRandomAgrees
  <2>5. AreNew(u) = AreNew(t) /\ AreTried(u) = AreTried(t)
    BY <2>4, BucketsKept
  <2>6. Counted(u)
    BY <2>1, <2>4, <2>5 DEF Counted
  <2> QED
    BY <2>4, <2>6 DEF u
<1> HIDE DEF S
<1>8. k \in S
  BY <1>6, <1>7, LoopInduction
<1> QED
  BY <1>4, <1>8 DEF S

LEMMA GetAddrInv ==
  ASSUME AddrManInv, GetAddr
  PROVE  AddrManInv'
<1> DEFINE n == (GETADDR_MAX_PCT * Len(vRandom)) \div 100
<1>1. Agrees(Tables, {}) /\ Counted(Tables) /\ Tables.random = vRandom
  BY DEF AddrManInv, Tables
<1>2. n \in Nat
  <2>1. GETADDR_MAX_PCT \in Nat /\ Len(vRandom) \in Nat
    <3>1. vRandom \in Seq(Addrs)
      BY <1>1 DEF Agrees, Typed
    <3>2. GETADDR_MAX_PCT \in Nat
      BY AddrManAssumption
    <3> QED
      BY <3>1, <3>2, LenProperties
  <2>2. GETADDR_MAX_PCT * Len(vRandom) \in Int
    BY <2>1
  <2>3. n \in Int
    BY <2>2
  <2> QED
    BY <2>3 DEF GetAddr
<1>3. PICK pick \in Picks(n, Len(vRandom)) : BecomesTables(Shuffle(Tables, pick))
  BY DEF GetAddr
<1> HIDE DEF n
<1>4. Agrees(Shuffle(Tables, pick), {}) /\ Counted(Shuffle(Tables, pick))
  BY <1>1, <1>2, ShuffleAgrees
<1> QED
  BY <1>3, <1>4, TablesBecome

----------------------------------------------------------------------------
(* The file *)

\* What is written of a finite set is all of it, once each.
LEMMA Enumeration ==
  ASSUME NEW T, IsFiniteSet(T), NEW s, s = SetToSeq(T)
  PROVE  /\ s \in Seq(T) /\ Len(s) = Cardinality(T) /\ Len(s) \in Nat
         /\ \A i, j \in 1..Len(s) : s[i] = s[j] => i = j
         /\ \A x \in T : \E i \in 1..Len(s) : s[i] = x
<1> DEFINE n == Cardinality(T)
<1>1. n \in Nat /\ ExistsBijection(1..n, T)
  BY FS_CardinalityType
<1>2. PICK f : f \in Bijection(1..n, T)
  BY <1>1 DEF ExistsBijection
<1>3. f \in [1..n -> T] /\ IsInjective(f)
  BY <1>2 DEF Bijection, Injection
<1>4. s \in [1..n -> T] /\ IsInjective(s)
  BY <1>3 DEF SetToSeq
<1>5. IsFiniteSet(1..n) /\ Cardinality(1..n) = n
  BY <1>1, FS_Interval
<1> HIDE DEF n
<1>6. s \in Injection(1..n, T)
  BY <1>4 DEF Injection
<1>7. s \in Surjection(1..n, T)
  BY <1>5, <1>6, FS_Injection DEF n
<1>8. s \in Seq(T) /\ Len(s) = n
  BY <1>1, <1>4
<1>9. \A i, j \in 1..n : s[i] = s[j] => i = j
  BY <1>4 DEF IsInjective
<1>10. \A x \in T : \E i \in 1..n : s[i] = x
  BY <1>7 DEF Surjection
<1> QED
  BY <1>1, <1>8, <1>9, <1>10 DEF n

\* The loop of LoadEach.
Loads(f, m, part, s, n) ==
  f = [i \in 0..n |-> IF i = 0 THEN m ELSE Load(f[i - 1], part, s[i])]

LEMMA LoadedDef ==
  ASSUME NEW m, NEW part, NEW s, NEW n \in Nat
  PROVE  \E f : Loads(f, m, part, s, n)
<1> DEFINE Runs(f, k) == f = [i \in 0..k |-> IF i = 0 THEN m ELSE Load(f[i - 1], part, s[i])]
           S == {k \in 0..n : \E f : Runs(f, k)}
<1>1. 0 \in S
  <2>1. Runs([i \in 0..0 |-> m], 0)
    OBVIOUS
  <2> HIDE DEF Runs
  <2> QED
    BY <2>1
<1>2. ASSUME NEW k \in 1..n, k - 1 \in S PROVE k \in S
  <2>1. PICK f : Runs(f, k - 1)
    BY <1>2
  <2> DEFINE g == [i \in 0..k |-> IF i < k THEN f[i] ELSE Load(f[k - 1], part, s[k])]
  <2>2. \A i \in 0..(k - 1) : g[i] = f[i]
    OBVIOUS
  <2>3. g[k] = Load(f[k - 1], part, s[k])
    OBVIOUS
  <2>4. \A i \in 0..(k - 1) : f[i] = IF i = 0 THEN m ELSE Load(f[i - 1], part, s[i])
    BY <2>1
  <2>5. \A i \in 0..k : g[i] = IF i = 0 THEN m ELSE Load(g[i - 1], part, s[i])
    <3> TAKE i \in 0..k
    <3> HIDE DEF g
    <3>1. CASE i = k
      BY <2>2, <2>3, <3>1
    <3>2. CASE i = 0
      BY <2>2, <2>4, <3>2
    <3>3. CASE i \in 1..(k - 1)
      <4>1. i - 1 \in 0..(k - 1) /\ i \in 0..(k - 1) /\ i # 0
        BY <3>3
      <4> QED
        BY <2>2, <2>4, <4>1
    <3> QED
      BY <3>1, <3>2, <3>3
  <2>6. g = [i \in 0..k |-> g[i]]
    OBVIOUS
  <2> HIDE DEF g
  <2>7. Runs(g, k)
    BY <2>5, <2>6
  <2> QED
    BY <2>7
<1> HIDE DEF S
<1>3. n \in S
  BY <1>1, <1>2, LoopInduction
<1> QED
  BY <1>3 DEF S, Loads

\* The turns of LoadEach.
LEMMA LoadTurns ==
  ASSUME NEW m, NEW part, NEW s, Len(s) \in Nat
  PROVE  \E f : /\ f[0] = m /\ LoadEach(m, part, s) = f[Len(s)]
                /\ \A i \in 1..Len(s) : f[i] = Load(f[i - 1], part, s[i])
<1> DEFINE n == Len(s)
           loaded[i \in 0..n] == IF i = 0 THEN m ELSE Load(loaded[i - 1], part, s[i])
<1>1. Loads(loaded, m, part, s, n)
  <2>1. \E f : Loads(f, m, part, s, n)
    <3> HIDE DEF loaded, n
    <3> QED
      BY LoadedDef DEF n
  <2> QED
    BY <2>1 DEF Loads
<1>2. LoadEach(m, part, s) = loaded[n]
  BY DEF LoadEach
<1> HIDE DEF loaded, n
<1>3. \A i \in 0..n : loaded[i] = IF i = 0 THEN m ELSE Load(loaded[i - 1], part, s[i])
  BY <1>1 DEF Loads
<1>4. n \in Nat
  BY DEF n
<1>5. loaded[0] = m /\ \A i \in 1..n : loaded[i] = Load(loaded[i - 1], part, s[i])
  BY <1>3, <1>4
<1> QED
  BY <1>2, <1>5 DEF n


\* An entry is read: it is like one that was just made, but for its last success.
LEMMA LoadNewAgrees ==
  ASSUME NEW m, NEW S, Agrees(m, S), Typed(Tables), NEW a \in Known(Tables), a \notin Known(m),
         NEW r, r = LoadNew(m, a)
  PROVE  /\ Agrees(r, S \cup {a}) /\ Known(r) = Known(m) \cup {a}
         /\ \A x \in Known(m) : r.info[x] = m.info[x]
         /\ r.info[a].ref = 0 /\ ~r.info[a].tried /\ r.info[a].last = mapInfo[a].last
         /\ r.new = m.new /\ r.tried = m.tried /\ r.nNew = m.nNew /\ r.nTried = m.nTried
<1> DEFINE source == mapInfo[a].source
           c == Create(m, a, source)
           last == mapInfo[a].last
<1>1. /\ a \in Addrs \ Known(m) /\ source \in DOMAIN NewBucketOf[a] /\ last \in Nat
  <2>1. Tables.info = mapInfo
    BY DEF Tables
  <2>2. Known(Tables) \subseteq Addrs /\ Tables.info \in [Known(Tables) -> Entry]
        /\ \A x \in Known(Tables) : Tables.info[x].source \in DOMAIN NewBucketOf[x]
    BY DEF Typed
  <2>3. mapInfo[a] \in Entry
    BY <2>1, <2>2
  <2> QED
    BY <2>1, <2>2, <2>3 DEF Entry
<1>2. r = [c EXCEPT !.info = [c.info EXCEPT ![a].last = last]]
  <2>1. r = [c EXCEPT !.info[a].last = last]
    BY DEF LoadNew
  <2> HIDE DEF c, last
  <2> QED
    BY <2>1
<1>3. c = Create(m, a, source) /\ Typed(m)
  BY DEF Agrees
<1> HIDE DEF c, source, last
<1>4. /\ Agrees(c, S \cup {a}) /\ Known(c) = Known(m) \cup {a}
      /\ \A x \in Known(m) : c.info[x] = m.info[x]
      /\ c.info[a].ref = 0 /\ ~c.info[a].tried
      /\ c.new = m.new /\ c.tried = m.tried /\ c.nNew = m.nNew /\ c.nTried = m.nTried
  <2>1. Agrees(c, S \cup {a})
    BY <1>1, <1>3, CreateAgrees
  <2> QED
    BY <1>1, <1>3, <2>1, CreateMakes
<1>5. Typed(c) /\ Listed(c) /\ Bucketed(c, S \cup {a}) /\ Tried(c)
  BY <1>4 DEF Agrees
<1> DEFINE info == [c.info EXCEPT ![a].last = last]
<1>6. /\ r.info = info /\ r.random = c.random /\ r.new = c.new /\ r.tried = c.tried
      /\ r.nNew = c.nNew /\ r.nTried = c.nTried
      /\ r = [info |-> r.info, random |-> r.random, new |-> r.new, nNew |-> r.nNew,
              tried |-> r.tried, nTried |-> r.nTried]
  <2>1. c = [info |-> c.info, random |-> c.random, new |-> c.new, nNew |-> c.nNew,
             tried |-> c.tried, nTried |-> c.nTried]
    BY <1>5 DEF Typed
  <2>2. r = [c EXCEPT !.info = info]
    BY <1>2
  <2> HIDE DEF info
  <2> QED
    BY <2>1, <2>2
<1>7. /\ Known(r) = Known(c) /\ r.info \in [Known(c) -> Entry]
      /\ \A x \in Known(c) \ {a} : r.info[x] = c.info[x]
      /\ r.info[a].ref = c.info[a].ref /\ r.info[a].pos = c.info[a].pos
      /\ r.info[a].source = c.info[a].source /\ r.info[a].last = last
      /\ r.info[a].tried = c.info[a].tried
  <2>0. DOMAIN c.info = Known(c) /\ a \in Known(c) /\ c.info \in [Known(c) -> Entry]
    BY <1>4, <1>5 DEF Typed, Known
  <2>1. r.info[a] = [c.info[a] EXCEPT !.last = last]
    BY <2>0, <1>6
  <2>2. /\ r.info[a] \in Entry /\ r.info[a].ref = c.info[a].ref
        /\ r.info[a].pos = c.info[a].pos
        /\ r.info[a].source = c.info[a].source /\ r.info[a].last = last
        /\ r.info[a].tried = c.info[a].tried
    BY <1>1, <2>0, <2>1 DEF Entry
  <2>3. \A x \in Known(c) \ {a} : r.info[x] = c.info[x]
    BY <2>0, <1>6
  <2>4. r.info \in [Known(c) -> Entry]
    BY <2>0, <1>6, <2>1, <2>2
  <2> QED
    BY <2>2, <2>3, <2>4 DEF Known
<1> HIDE DEF info
<1>8. Typed(r)
  <2>1. \A x \in Known(r) : r.info[x].source \in DOMAIN NewBucketOf[x]
    BY <1>5, <1>7 DEF Typed
  <2> QED
    BY <1>5, <1>6, <1>7, <2>1 DEF Typed
<1>9. Listed(r)
  BY <1>5, <1>6, <1>7 DEF Listed
<1>10. Bucketed(r, S \cup {a})
  <2>1. \A x : NewIn(r, x) = NewIn(c, x)
    BY <1>6 DEF NewIn
  <2>2. ~r.info[a].tried
    BY <1>4, <1>7
  <2>3. ASSUME NEW x \in Known(r)
        PROVE  /\ r.info[x].ref = Cardinality(NewIn(r, x))
               /\ r.info[x].ref <= NEW_BUCKETS_PER_ADDRESS
               /\ r.info[x].tried => r.info[x].ref = 0 /\ r.info[x].last > 0
               /\ r.info[x].tried \/ x \in S \cup {a} \/ r.info[x].ref >= 1
    <3>1. CASE x = a
      <4>1. r.info[a].ref = Cardinality(NewIn(r, a)) /\ r.info[a].ref <= NEW_BUCKETS_PER_ADDRESS
        BY <1>5, <1>7, <2>1, <3>1 DEF Bucketed
      <4> QED
        BY <2>2, <3>1, <4>1
    <3>2. CASE x # a
      BY <1>5, <1>7, <2>1, <2>3, <3>2 DEF Bucketed
    <3> QED
      BY <3>1, <3>2
  <2>4. \A b \in NewBuckets : r.new[b] \subseteq Known(r) /\ Cardinality(r.new[b]) <= NEW_BUCKET_SIZE
    BY <1>5, <1>6, <1>7 DEF Bucketed
  <2> QED
    BY <2>3, <2>4 DEF Bucketed
<1>11. Tried(r)
  <2>1. \A b : TriedIn(r, b) = TriedIn(c, b)
    BY <1>7 DEF TriedIn
  <2> QED
    BY <1>5, <1>6, <2>1 DEF Tried, TriedList
<1>12. Agrees(r, S \cup {a})
  BY <1>8, <1>9, <1>10, <1>11 DEF Agrees
<1>13. /\ r.info[a].ref = 0 /\ ~r.info[a].tried /\ r.info[a].last = mapInfo[a].last
  BY <1>4, <1>7 DEF last
<1>14. \A x \in Known(m) : r.info[x] = m.info[x]
  BY <1>1, <1>4, <1>7
<1> QED
  BY <1>4, <1>6, <1>7, <1>12, <1>13, <1>14


\* A tried entry that is read finds room in its bucket, as it had before.
LEMMA RoomToLoad ==
  ASSUME Agrees(Tables, {}), NEW m, NEW S, Agrees(m, S), AreTried(m) \subseteq AreTried(Tables),
         NEW a \in AreTried(Tables) \ Known(m), NEW b \in TriedBuckets, b = TriedBucketOf[a]
  PROVE  Len(m.tried[b]) < TRIED_BUCKET_SIZE
<1> DEFINE here == TriedIn(m, b)
           all == TriedIn(Tables, b)
<1>1. here \cup {a} \subseteq all /\ a \notin here
  <2>1. \A t : TriedIn(t, b) = {x \in AreTried(t) : TriedBucketOf[x] = b}
    BY DEF TriedIn, AreTried
  <2>2. AreTried(m) \subseteq Known(m)
    BY DEF AreTried
  <2> QED
    BY <2>1, <2>2
<1>2. \A t : \A U : Agrees(t, U) => IsFiniteSet(TriedIn(t, b)) /\ Cardinality(TriedIn(t, b)) = Len(t.tried[b])
  <2> SUFFICES ASSUME NEW t, NEW U, Agrees(t, U)
               PROVE  IsFiniteSet(TriedIn(t, b)) /\ Cardinality(TriedIn(t, b)) = Len(t.tried[b])
    OBVIOUS
  <2> DEFINE s == t.tried[b]
  <2>1. s \in Seq(Addrs) /\ TriedList(t, b, s)
    BY DEF Agrees, Typed, Tried
  <2> HIDE DEF s
  <2>2. /\ \A i, j \in 1..Len(s) : s[i] = s[j] => i = j
        /\ \A i \in 1..Len(s) : s[i] \in TriedIn(t, b)
        /\ \A x \in TriedIn(t, b) : \E i \in 1..Len(s) : s[i] = x
    BY <2>1 DEF TriedList
  <2>3. IsFiniteSet(TriedIn(t, b)) /\ Cardinality(TriedIn(t, b)) = Len(s)
    BY <2>1, <2>2, ListedOnce
  <2> QED
    BY <2>3 DEF s
<1>3. /\ IsFiniteSet(here) /\ Cardinality(here) = Len(m.tried[b])
      /\ IsFiniteSet(all) /\ Cardinality(all) = Len(Tables.tried[b])
  BY <1>2
<1>4. Len(Tables.tried[b]) <= TRIED_BUCKET_SIZE
  BY DEF Agrees, Tried, TriedList
<1> HIDE DEF here, all
<1>5. Cardinality(here \cup {a}) = Cardinality(here) + 1 /\ Cardinality(here) \in Nat
  BY <1>1, <1>3, CountsStep
<1>6. Cardinality(here \cup {a}) <= Cardinality(all) /\ Cardinality(all) \in Nat
  BY <1>1, <1>3, FS_Subset, FS_CardinalityType
<1>7. TRIED_BUCKET_SIZE \in Nat
  BY AddrManAssumption
<1>8. Cardinality(here) < Cardinality(all) /\ Cardinality(all) <= TRIED_BUCKET_SIZE
  BY <1>3, <1>4, <1>5, <1>6
<1>9. Cardinality(here) < TRIED_BUCKET_SIZE
  BY <1>5, <1>6, <1>7, <1>8
<1> QED
  BY <1>3, <1>9

\* A tried entry is read, and joins the list of its bucket.
LEMMA LoadTriedAgrees ==
  ASSUME Agrees(Tables, {}), NEW m, NEW S, Agrees(m, S), AreTried(m) \subseteq AreTried(Tables),
         NEW a \in AreTried(Tables) \ Known(m), NEW r, r = LoadTried(m, a)
  PROVE  /\ Agrees(r, S \cup {a}) /\ Known(r) = Known(m) \cup {a}
         /\ AreTried(r) = AreTried(m) \cup {a}
         /\ r.new = m.new /\ r.nNew = m.nNew /\ r.nTried = m.nTried
<1> DEFINE b == TriedBucketOf[a]
           c == LoadNew(m, a)
           t == Append(m.tried[b], a)
           info == [c.info EXCEPT ![a].tried = TRUE]
           tried == [m.tried EXCEPT ![b] = t]
<1>0. Typed(Tables) /\ a \in Known(Tables) /\ a \in Addrs /\ b \in TriedBuckets /\ Typed(m)
  <2>1. a \in Known(Tables) /\ Typed(Tables) /\ Typed(m)
    BY DEF AreTried, Agrees
  <2>2. a \in Addrs
    BY <2>1 DEF Typed
  <2> QED
    BY <2>1, <2>2 DEF TriedBuckets
<1>1. Len(m.tried[b]) < TRIED_BUCKET_SIZE
  BY <1>0, RoomToLoad
<1>2. c = LoadNew(m, a)
  OBVIOUS
<1>3. r = [c EXCEPT !.info[a].tried = TRUE, !.tried[b] = Append(c.tried[b], a)]
  BY <1>1 DEF LoadTried
<1> HIDE DEF b, c
<1>4. /\ Agrees(c, S \cup {a}) /\ Known(c) = Known(m) \cup {a}
      /\ \A x \in Known(m) : c.info[x] = m.info[x]
      /\ c.info[a].ref = 0 /\ ~c.info[a].tried /\ c.info[a].last = mapInfo[a].last
      /\ c.new = m.new /\ c.tried = m.tried /\ c.nNew = m.nNew /\ c.nTried = m.nTried
  BY <1>0, <1>2, LoadNewAgrees
<1>5. Typed(c) /\ Listed(c) /\ Bucketed(c, S \cup {a}) /\ Tried(c)
  BY <1>4 DEF Agrees
<1>6. /\ r.info = info /\ r.random = c.random /\ r.new = c.new /\ r.tried = tried
      /\ r.nNew = c.nNew /\ r.nTried = c.nTried
      /\ r = [info |-> r.info, random |-> r.random, new |-> r.new, nNew |-> r.nNew,
              tried |-> r.tried, nTried |-> r.nTried]
  <2>1. c = [info |-> c.info, random |-> c.random, new |-> c.new, nNew |-> c.nNew,
             tried |-> m.tried, nTried |-> c.nTried]
    BY <1>4, <1>5 DEF Typed
  <2> DEFINE u == [c EXCEPT !.info = info]
  <2>2. r = [u EXCEPT !.tried = [u.tried EXCEPT ![b] = Append(c.tried[b], a)]]
    BY <1>3, <2>1
  <2> HIDE DEF info
  <2>3. u = [info |-> info, random |-> c.random, new |-> c.new, nNew |-> c.nNew,
             tried |-> m.tried, nTried |-> c.nTried]
    BY <2>1
  <2> HIDE DEF u
  <2>4. u.tried = m.tried /\ c.tried = m.tried
    BY <1>4, <2>3
  <2>5. r = [u EXCEPT !.tried = tried]
    BY <2>2, <2>4
  <2> HIDE DEF tried
  <2>6. r = [info |-> info, random |-> c.random, new |-> c.new, nNew |-> c.nNew,
             tried |-> tried, nTried |-> c.nTried]
    BY <2>3, <2>5
  <2> QED
    BY <2>6
<1>7. /\ Known(r) = Known(c) /\ r.info \in [Known(c) -> Entry]
      /\ \A x \in Known(c) \ {a} : r.info[x] = c.info[x]
      /\ r.info[a].ref = 0 /\ r.info[a].pos = c.info[a].pos /\ r.info[a].tried
      /\ r.info[a].source = c.info[a].source /\ r.info[a].last = c.info[a].last
  <2>0. DOMAIN c.info = Known(c) /\ a \in Known(c) /\ c.info \in [Known(c) -> Entry] /\ c.info[a] \in Entry
    BY <1>4, <1>5 DEF Typed, Known
  <2>1. /\ r.info[a] = [c.info[a] EXCEPT !.tried = TRUE]
        /\ \A x \in Known(c) \ {a} : r.info[x] = c.info[x]
        /\ DOMAIN r.info = Known(c)
    BY <1>6, <2>0
  <2>2. r.info = [x \in Known(c) |-> r.info[x]]
    BY <1>6, <2>0
  <2> HIDE DEF info
  <2>3. /\ r.info[a] \in Entry /\ r.info[a].ref = c.info[a].ref /\ r.info[a].pos = c.info[a].pos
        /\ r.info[a].source = c.info[a].source /\ r.info[a].last = c.info[a].last
        /\ r.info[a].tried
    BY <2>0, <2>1 DEF Entry
  <2>4. \A x \in Known(c) : r.info[x] \in Entry
    BY <2>0, <2>1, <2>3
  <2>5. r.info[a].ref = 0
    BY <1>4, <2>3
  <2> QED
    BY <2>1, <2>2, <2>3, <2>4, <2>5 DEF Known
<1> HIDE DEF info
<1>8. /\ t \in Seq(Addrs) /\ r.tried \in [TriedBuckets -> Seq(Addrs)] /\ r.tried[b] = t
      /\ \A d \in TriedBuckets \ {b} : r.tried[d] = m.tried[d]
  <2>1. m.tried \in [TriedBuckets -> Seq(Addrs)] /\ m.tried[b] \in Seq(Addrs)
    BY <1>0 DEF Typed
  <2>2. t \in Seq(Addrs)
    BY <1>0, <2>1, AppendProperties
  <2> HIDE DEF t
  <2> QED
    BY <1>0, <1>6, <2>1, <2>2
<1> HIDE DEF tried, t
<1>9. Typed(r)
  <2>1. \A x \in Known(r) : r.info[x].source \in DOMAIN NewBucketOf[x]
    BY <1>5, <1>7 DEF Typed
  <2> QED
    BY <1>5, <1>6, <1>7, <1>8, <2>1 DEF Typed
<1>10. Listed(r)
  BY <1>5, <1>6, <1>7 DEF Listed
<1>11. Bucketed(r, S \cup {a})
  <2>1. \A x : NewIn(r, x) = NewIn(c, x)
    BY <1>6 DEF NewIn
  <2>2. mapInfo[a].last > 0
    <3>1. Tables.info = mapInfo
      BY DEF Tables
    <3>2. Tables.info[a].tried
      BY DEF AreTried
    <3>3. Tables.info[a].last > 0
      BY <1>0, <3>2 DEF Agrees, Bucketed
    <3> QED
      BY <3>1, <3>3
  <2>3. ASSUME NEW x \in Known(r)
        PROVE  /\ r.info[x].ref = Cardinality(NewIn(r, x))
               /\ r.info[x].ref <= NEW_BUCKETS_PER_ADDRESS
               /\ r.info[x].tried => r.info[x].ref = 0 /\ r.info[x].last > 0
               /\ r.info[x].tried \/ x \in S \cup {a} \/ r.info[x].ref >= 1
    <3>1. CASE x = a
      <4>1. r.info[a].ref = Cardinality(NewIn(r, a)) /\ r.info[a].ref <= NEW_BUCKETS_PER_ADDRESS
        BY <1>4, <1>5, <1>7, <2>1, <3>1 DEF Bucketed
      <4>2. r.info[a].ref = 0 /\ r.info[a].last > 0
        BY <1>4, <1>7, <2>2
      <4> QED
        BY <3>1, <4>1, <4>2
    <3>2. CASE x # a
      BY <1>5, <1>7, <2>1, <2>3, <3>2 DEF Bucketed
    <3> QED
      BY <3>1, <3>2
  <2>4. \A d \in NewBuckets : r.new[d] \subseteq Known(r) /\ Cardinality(r.new[d]) <= NEW_BUCKET_SIZE
    BY <1>5, <1>6, <1>7 DEF Bucketed
  <2> QED
    BY <2>3, <2>4 DEF Bucketed
<1>12. /\ AreTried(r) = AreTried(m) \cup {a}
       /\ TriedIn(r, b) = TriedIn(m, b) \cup {a} /\ a \notin TriedIn(m, b)
       /\ \A d \in TriedBuckets \ {b} : TriedIn(r, d) = TriedIn(m, d)
  <2>1. \A x \in Known(m) : x # a /\ r.info[x] = m.info[x]
    BY <1>4, <1>7
  <2>2. Known(r) = Known(m) \cup {a} /\ r.info[a].tried
    BY <1>4, <1>7
  <2> QED
    BY <2>1, <2>2 DEF AreTried, TriedIn, b
<1>13. Tried(r)
  <2>1. \A d \in TriedBuckets : TriedList(m, d, m.tried[d])
    BY DEF Agrees, Tried
  <2>2. TriedList(r, b, t)
    <3>1. m.tried[b] \in Seq(Addrs) /\ TriedList(m, b, m.tried[b])
      BY <1>0, <2>1 DEF Typed
    <3> QED
      BY <1>0, <1>1, <1>12, <3>1, AppendTried DEF t
  <2>3. ASSUME NEW d \in TriedBuckets PROVE TriedList(r, d, r.tried[d])
    <3>1. CASE d = b
      BY <1>8, <2>2, <3>1
    <3>2. CASE d # b
      <4>1. r.tried[d] = m.tried[d] /\ TriedIn(r, d) = TriedIn(m, d) /\ TriedList(m, d, m.tried[d])
        BY <1>8, <1>12, <2>1, <3>2
      <4> QED
        BY <4>1 DEF TriedList
    <3> QED
      BY <3>1, <3>2
  <2> QED
    BY <2>3 DEF Tried
<1>14. Agrees(r, S \cup {a})
  BY <1>9, <1>10, <1>11, <1>13 DEF Agrees
<1> QED
  BY <1>4, <1>6, <1>7, <1>12, <1>14


\* A bucket is read: all its members still have room for it.
LEMMA LoadBucketAgrees ==
  ASSUME Agrees(Tables, {}), NEW m, NEW K, K = Known(Tables), Agrees(m, K), Known(m) = K,
         AreTried(m) = AreTried(Tables),
         NEW b \in NewBuckets, m.new[b] = {}, \A c \in NewBuckets : m.new[c] \subseteq vvNew[c],
         NEW r, r = LoadBucket(m, b)
  PROVE  /\ Agrees(r, K) /\ Known(r) = K /\ AreTried(r) = AreTried(Tables)
         /\ r.new[b] = vvNew[b] /\ \A c \in NewBuckets \ {b} : r.new[c] = m.new[c]
         /\ r.nNew = m.nNew /\ r.nTried = m.nTried
<1> DEFINE fits == {a \in vvNew[b] : m.info[a].ref < NEW_BUCKETS_PER_ADDRESS}
           new == [m.new EXCEPT ![b] = vvNew[b]]
           info == [a \in K |-> IF a \in vvNew[b] THEN [m.info[a] EXCEPT !.ref = m.info[a].ref + 1]
                                ELSE m.info[a]]
<1>0. /\ Typed(m) /\ Listed(m) /\ Bucketed(m, K) /\ Tried(m)
      /\ Typed(Tables) /\ Bucketed(Tables, {}) /\ Tables.new = vvNew
  BY DEF Agrees, Tables
<1>1. /\ vvNew \in [NewBuckets -> SUBSET Addrs] /\ vvNew[b] \subseteq K
      /\ Cardinality(vvNew[b]) <= NEW_BUCKET_SIZE
  BY <1>0 DEF Typed, Bucketed
<1>2. /\ DOMAIN m.info = K /\ m.info \in [K -> Entry]
      /\ \A x \in K : m.info[x].ref \in Int
  <2>1. DOMAIN m.info = K /\ m.info \in [K -> Entry]
    BY <1>0 DEF Typed, Known
  <2> QED
    BY <2>1 DEF Entry
<1>3. \A x \in K : /\ IsFiniteSet(NewIn(m, x)) /\ m.info[x].ref = Cardinality(NewIn(m, x))
                   /\ Cardinality(NewIn(m, x)) \in Nat
  BY <1>0, FiniteTables DEF Bucketed
<1>4. ASSUME NEW x \in vvNew[b]
      PROVE  /\ m.info[x].ref < NEW_BUCKETS_PER_ADDRESS
             /\ ~m.info[x].tried
  <2>1. x \in K
    BY <1>1
  <2>2. NewIn(m, x) \cup {b} \subseteq NewIn(Tables, x) /\ b \notin NewIn(m, x)
    BY <1>0 DEF NewIn
  <2>3. IsFiniteSet(NewIn(Tables, x)) /\ Cardinality(NewIn(Tables, x)) \in Nat
    BY <1>0, FiniteTables
  <2>4. Cardinality(NewIn(m, x) \cup {b}) <= Cardinality(NewIn(Tables, x))
    BY <2>2, <2>3, FS_Subset
  <2>5. Cardinality(NewIn(m, x) \cup {b}) = m.info[x].ref + 1 /\ m.info[x].ref \in Nat
    BY <1>3, <2>1, <2>2, CountsStep
  <2>6. /\ Cardinality(NewIn(Tables, x)) = Tables.info[x].ref
        /\ Tables.info[x].ref <= NEW_BUCKETS_PER_ADDRESS
        /\ Tables.info[x].tried => Tables.info[x].ref = 0
    BY <1>0, <2>1 DEF Bucketed
  <2>7. m.info[x].ref < NEW_BUCKETS_PER_ADDRESS
    <3>1. NEW_BUCKETS_PER_ADDRESS \in Nat
      BY AddrManAssumption
    <3>2. m.info[x].ref + 1 <= NEW_BUCKETS_PER_ADDRESS
      BY <2>3, <2>4, <2>5, <2>6, <3>1
    <3> QED
      BY <2>5, <3>1, <3>2
  <2>8. Cardinality(NewIn(Tables, x)) >= 1
    BY <2>3, <2>4, <2>5
  <2>9. x \notin AreTried(Tables)
    <3>1. Tables.info[x].ref # 0
      BY <2>3, <2>6, <2>8
    <3> QED
      BY <2>6, <3>1 DEF AreTried
  <2>10. x \notin AreTried(m) /\ x \in Known(m)
    BY <2>1, <2>9
  <2> QED
    BY <2>7, <2>10 DEF AreTried
<1>5. fits = vvNew[b]
  BY <1>4
<1>6. /\ r.info = info /\ r.random = m.random /\ r.new = new /\ r.tried = m.tried
      /\ r.nNew = m.nNew /\ r.nTried = m.nTried
      /\ r = [info |-> r.info, random |-> r.random, new |-> r.new, nNew |-> r.nNew,
              tried |-> r.tried, nTried |-> r.nTried]
  <2>1. m = [info |-> m.info, random |-> m.random, new |-> m.new, nNew |-> m.nNew,
             tried |-> m.tried, nTried |-> m.nTried]
    BY <1>0 DEF Typed
  <2> DEFINE u == [m EXCEPT !.new = [m.new EXCEPT ![b] = fits]]
             inc == [a \in Known(m) |-> IF a \in fits
                                        THEN [m.info[a] EXCEPT !.ref = m.info[a].ref + 1]
                                        ELSE m.info[a]]
  <2>2. r = [u EXCEPT !.info = inc]
    BY <2>1 DEF LoadBucket
  <2> HIDE DEF fits
  <2>3. u = [info |-> m.info, random |-> m.random, new |-> new, nNew |-> m.nNew,
             tried |-> m.tried, nTried |-> m.nTried]
    BY <1>5, <2>1
  <2> HIDE DEF u, new
  <2>4. inc = info
    BY <1>5
  <2> HIDE DEF inc, info
  <2>5. r = [info |-> info, random |-> m.random, new |-> new, nNew |-> m.nNew,
             tried |-> m.tried, nTried |-> m.nTried]
    BY <2>2, <2>3, <2>4
  <2> QED
    BY <2>5
<1>7. /\ Known(r) = K /\ r.info \in [K -> Entry]
      /\ \A x \in K \ vvNew[b] : r.info[x] = m.info[x]
      /\ \A x \in vvNew[b] : r.info[x].ref = m.info[x].ref + 1
      /\ \A x \in K : /\ r.info[x].pos = m.info[x].pos /\ r.info[x].source = m.info[x].source
                      /\ r.info[x].last = m.info[x].last /\ r.info[x].tried = m.info[x].tried
  <2>1. Known(r) = K /\ \A x \in K \ vvNew[b] : r.info[x] = m.info[x]
    BY <1>6 DEF Known
  <2>2. \A x \in vvNew[b] : r.info[x] = [m.info[x] EXCEPT !.ref = m.info[x].ref + 1]
    BY <1>1, <1>6
  <2>3. r.info = [x \in K |-> r.info[x]]
    BY <1>6
  <2> HIDE DEF info
  <2>4. ASSUME NEW x \in vvNew[b]
        PROVE  /\ r.info[x] \in Entry /\ r.info[x].ref = m.info[x].ref + 1
               /\ r.info[x].pos = m.info[x].pos /\ r.info[x].source = m.info[x].source
               /\ r.info[x].last = m.info[x].last /\ r.info[x].tried = m.info[x].tried
    <3> DEFINE e == m.info[x]
    <3>1. e \in Entry /\ r.info[x] = [e EXCEPT !.ref = e.ref + 1]
      BY <1>1, <1>2, <2>2
    <3> HIDE DEF e
    <3>2. /\ r.info[x] \in Entry /\ r.info[x].ref = e.ref + 1
          /\ r.info[x].pos = e.pos /\ r.info[x].source = e.source
          /\ r.info[x].last = e.last /\ r.info[x].tried = e.tried
      BY <3>1 DEF Entry
    <3> QED
      BY <3>2 DEF e
  <2>5. \A x \in K : r.info[x] \in Entry
    BY <1>2, <2>1, <2>4
  <2> QED
    BY <2>1, <2>3, <2>4, <2>5
<1> HIDE DEF info, fits
<1>8. /\ r.new \in [NewBuckets -> SUBSET Addrs] /\ r.new[b] = vvNew[b]
      /\ \A c \in NewBuckets \ {b} : r.new[c] = m.new[c]
  BY <1>0, <1>1, <1>6 DEF Typed
<1> HIDE DEF new
<1>9. Typed(r)
  <2>1. \A x \in Known(r) : r.info[x].source \in DOMAIN NewBucketOf[x]
    BY <1>0, <1>7 DEF Typed
  <2> QED
    BY <1>0, <1>6, <1>7, <1>8, <2>1 DEF Typed
<1>10. Listed(r)
  BY <1>0, <1>6, <1>7 DEF Listed
<1>11. AreTried(r) = AreTried(Tables) /\ \A c : TriedIn(r, c) = TriedIn(m, c)
  <2>1. Known(r) = Known(m) /\ \A x \in Known(m) : r.info[x].tried = m.info[x].tried
    BY <1>7
  <2>2. AreTried(r) = AreTried(m)
    BY <2>1 DEF AreTried
  <2> QED
    BY <2>1, <2>2 DEF TriedIn
<1>12. Tried(r)
  BY <1>0, <1>6, <1>11 DEF Tried, TriedList
<1>13. Bucketed(r, K)
  <2>1. /\ \A x \in K \ vvNew[b] : NewIn(r, x) = NewIn(m, x)
        /\ \A x \in vvNew[b] : NewIn(r, x) = NewIn(m, x) \cup {b} /\ b \notin NewIn(m, x)
    BY <1>8 DEF NewIn
  <2>2. ASSUME NEW x \in Known(r)
        PROVE  /\ r.info[x].ref = Cardinality(NewIn(r, x))
               /\ r.info[x].ref <= NEW_BUCKETS_PER_ADDRESS
               /\ r.info[x].tried => r.info[x].ref = 0 /\ r.info[x].last > 0
               /\ r.info[x].tried \/ x \in K \/ r.info[x].ref >= 1
    <3>0. x \in K
      BY <1>7
    <3>1. CASE x \in vvNew[b]
      <4>1. r.info[x].ref = Cardinality(NewIn(r, x))
        <5>1. Cardinality(NewIn(m, x) \cup {b}) = Cardinality(NewIn(m, x)) + 1
          BY <1>3, <2>1, <3>0, <3>1, CountsStep
        <5> QED
          BY <1>3, <1>7, <2>1, <3>0, <3>1, <5>1
      <4>2. r.info[x].ref <= NEW_BUCKETS_PER_ADDRESS
        <5>1. r.info[x].ref = m.info[x].ref + 1 /\ m.info[x].ref < NEW_BUCKETS_PER_ADDRESS
          BY <1>4, <1>7, <3>1
        <5>2. m.info[x].ref \in Nat /\ NEW_BUCKETS_PER_ADDRESS \in Nat
          BY <1>3, <3>0, AddrManAssumption
        <5> QED
          BY <5>1, <5>2
      <4>3. ~r.info[x].tried
        BY <1>4, <1>7, <3>0, <3>1
      <4> QED
        BY <3>0, <4>1, <4>2, <4>3
    <3>2. CASE x \notin vvNew[b]
      BY <1>0, <1>7, <2>1, <3>0, <3>2 DEF Bucketed
    <3> QED
      BY <3>1, <3>2
  <2>3. ASSUME NEW c \in NewBuckets
        PROVE  r.new[c] \subseteq Known(r) /\ Cardinality(r.new[c]) <= NEW_BUCKET_SIZE
    <3>1. CASE c = b
      BY <1>1, <1>7, <1>8, <3>1
    <3>2. CASE c # b
      BY <1>0, <1>7, <1>8, <3>2 DEF Bucketed
    <3> QED
      BY <3>1, <3>2
  <2> QED
    BY <2>2, <2>3 DEF Bucketed
<1> QED
  BY <1>6, <1>7, <1>8, <1>9, <1>10, <1>11, <1>12, <1>13 DEF Agrees


\* Without tables there is nothing to disagree.
Unread(i, j) == [NoTables EXCEPT !.nNew = i, !.nTried = j]

LEMMA NoTablesAgree ==
  ASSUME NEW i \in Int, NEW j \in Int, NEW r, r = Unread(i, j)
  PROVE  /\ Agrees(r, {}) /\ Known(r) = {} /\ AreNew(r) = {} /\ AreTried(r) = {}
         /\ \A b \in NewBuckets : r.new[b] = {}
         /\ r.nNew = i /\ r.nTried = j
<1>1. /\ r.info = <<>> /\ r.random = <<>> /\ r.new = [b \in NewBuckets |-> {}]
      /\ r.tried = [b \in TriedBuckets |-> <<>>] /\ r.nNew = i /\ r.nTried = j
      /\ r = [info |-> r.info, random |-> r.random, new |-> r.new, nNew |-> r.nNew,
              tried |-> r.tried, nTried |-> r.nTried]
  BY DEF NoTables, Unread
<1>2. Known(r) = {} /\ r.info \in [Known(r) -> Entry]
  <2> DEFINE f == r.info
  <2>1. f \in Seq(Entry) /\ Len(f) = 0
    <3> DEFINE q == <<>>
    <3>1. q \in Seq(Entry) /\ Len(q) = 0
      <4>1. \A S : <<>> \in Seq(S)
        BY EmptySeq
      <4>2. Len(<<>>) = 0
        OBVIOUS
      <4> QED
        BY <4>1, <4>2
    <3>2. f = q
      BY <1>1
    <3> HIDE DEF q, f
    <3> QED
      BY <3>1, <3>2
  <2> HIDE DEF f
  <2>2. f \in [1..0 -> Entry] /\ DOMAIN f = 1..0 /\ 1..0 = {}
    BY <2>1, ElementOfSeq, LenProperties
  <2>3. DOMAIN f = {} /\ f \in [{} -> Entry]
    BY <2>2
  <2> QED
    BY <2>3 DEF Known, f
<1>3. AreNew(r) = {} /\ AreTried(r) = {} /\ \A b : TriedIn(r, b) = {}
  BY <1>2 DEF AreNew, AreTried, TriedIn
<1>4. Typed(r)
  <2>1. r.random \in Seq(Addrs) /\ r.tried \in [TriedBuckets -> Seq(Addrs)]
    <3> DEFINE q == <<>>
    <3>1. q \in Seq(Addrs)
      BY EmptySeq
    <3>2. r.random = q /\ r.tried = [b \in TriedBuckets |-> q]
      BY <1>1
    <3> HIDE DEF q
    <3> QED
      BY <3>1, <3>2
  <2> QED
    BY <1>1, <1>2, <2>1 DEF Typed
<1>5. Listed(r)
  <2>1. Len(r.random) = 0
    BY <1>1
  <2> QED
    BY <1>2, <2>1 DEF Listed
<1>6. Bucketed(r, {})
  <2>1. NEW_BUCKET_SIZE \in Nat /\ Cardinality({}) = 0
    BY AddrManAssumption, FS_EmptySet
  <2>2. \A b \in NewBuckets : r.new[b] = {}
    BY <1>1
  <2>3. \A b \in NewBuckets : r.new[b] \subseteq Known(r) /\ Cardinality(r.new[b]) <= NEW_BUCKET_SIZE
    BY <2>1, <2>2
  <2> QED
    BY <1>2, <2>3 DEF Bucketed
<1>7. Tried(r)
  <2>1. \A b \in TriedBuckets : r.tried[b] = <<>>
    BY <1>1
  <2>2. TRIED_BUCKET_SIZE \in Nat /\ Len(<<>>) = 0
    BY AddrManAssumption
  <2> QED
    BY <1>3, <2>1, <2>2 DEF Tried, TriedList
<1> QED
  BY <1>1, <1>2, <1>3, <1>4, <1>5, <1>6, <1>7 DEF Agrees

\* More entries may have their buckets still to come.
LEMMA MoreToCome ==
  ASSUME NEW m, NEW S, NEW U, S \subseteq U, Agrees(m, S)
  PROVE  Agrees(m, U)
BY DEF Agrees, Bucketed

\* The counts are right, so every entry is written.
LEMMA AllWritten ==
  ASSUME AddrManInv
  PROVE  /\ SubSeq(SetToSeq({a \in Known(Tables) : mapInfo[a].ref # 0}), 1, nNew)
              = SetToSeq(AreNew(Tables))
         /\ SubSeq(SetToSeq({a \in Known(Tables) : mapInfo[a].tried}), 1, nTried)
              = SetToSeq(AreTried(Tables))
<1>0. /\ Agrees(Tables, {}) /\ Counted(Tables) /\ Typed(Tables) /\ Bucketed(Tables, {})
      /\ Tables.info = mapInfo /\ Tables.nNew = nNew /\ Tables.nTried = nTried
  BY DEF AddrManInv, Agrees, Tables
<1>1. {a \in Known(Tables) : mapInfo[a].ref # 0} = AreNew(Tables)
  <2>1. ASSUME NEW a \in Known(Tables) PROVE mapInfo[a].ref # 0 <=> ~mapInfo[a].tried
    <3>1. /\ mapInfo[a].tried => mapInfo[a].ref = 0
          /\ mapInfo[a].tried \/ mapInfo[a].ref >= 1
      BY <1>0 DEF Bucketed
    <3> QED
      BY <3>1
  <2> QED
    BY <1>0, <2>1 DEF AreNew
<1>2. {a \in Known(Tables) : mapInfo[a].tried} = AreTried(Tables)
  BY <1>0 DEF AreTried
<1>3. ASSUME NEW T, IsFiniteSet(T) PROVE SubSeq(SetToSeq(T), 1, Cardinality(T)) = SetToSeq(T)
  <2> DEFINE s == SetToSeq(T)
  <2>1. s = SetToSeq(T)
    OBVIOUS
  <2> HIDE DEF s
  <2>2. s \in Seq(T) /\ Len(s) = Cardinality(T)
    BY <1>3, <2>1, Enumeration
  <2>3. SubSeq(s, 1, Len(s)) = s
    BY <2>2, SubSeqFull
  <2> QED
    BY <2>1, <2>2, <2>3
<1>4. IsFiniteSet(AreNew(Tables)) /\ IsFiniteSet(AreTried(Tables))
  BY <1>0, FiniteTables
<1>5. nNew = Cardinality(AreNew(Tables)) /\ nTried = Cardinality(AreTried(Tables))
  BY <1>0 DEF Counted
<1> QED
  BY <1>1, <1>2, <1>3, <1>4, <1>5


\* The new entries are read, into no bucket yet.
LEMMA NewLoaded ==
  ASSUME Agrees(Tables, {}), NEW m, NEW K, K = Known(Tables), Agrees(m, K), Known(m) = {},
         \A b \in NewBuckets : m.new[b] = {},
         NEW s, s = SetToSeq(AreNew(Tables)), NEW r, r = LoadEach(m, "new", s)
  PROVE  /\ Agrees(r, K) /\ Known(r) = AreNew(Tables) /\ AreTried(r) = {}
         /\ \A b \in NewBuckets : r.new[b] = {}
         /\ r.nNew = m.nNew /\ r.nTried = m.nTried
<1> DEFINE n == Len(s)
           first(i) == {s[j] : j \in 1..i}
<1>0. Typed(Tables) /\ AreNew(Tables) \subseteq K
  BY DEF Agrees, AreNew
<1>1. /\ s \in Seq(AreNew(Tables)) /\ n \in Nat
      /\ \A i, j \in 1..n : s[i] = s[j] => i = j
      /\ \A x \in AreNew(Tables) : \E i \in 1..n : s[i] = x
  <2>1. IsFiniteSet(AreNew(Tables))
    BY <1>0, FiniteTables
  <2> QED
    BY <2>1, Enumeration
<1>2. PICK f : /\ f[0] = m /\ r = f[n]
               /\ \A i \in 1..n : f[i] = Load(f[i - 1], "new", s[i])
  BY <1>1, LoadTurns
<1>3. \A i \in 1..n : s[i] \in AreNew(Tables)
  BY <1>1, ElementOfSeq
<1> HIDE DEF n
<1> DEFINE S == {i \in 0..n : /\ Agrees(f[i], K) /\ Known(f[i]) = first(i)
                              /\ AreTried(f[i]) = {} /\ \A b \in NewBuckets : f[i].new[b] = {}
                              /\ f[i].nNew = m.nNew /\ f[i].nTried = m.nTried}
<1>4. 0 \in S
  <2>1. first(0) = {}
    OBVIOUS
  <2>2. AreTried(m) = {}
    BY DEF AreTried
  <2> QED
    BY <1>1, <1>2, <2>1, <2>2
<1>5. ASSUME NEW i \in 1..n, i - 1 \in S PROVE i \in S
  <2> DEFINE t == f[i - 1]
             u == f[i]
             a == s[i]
  <2>1. /\ Agrees(t, K) /\ Known(t) = first(i - 1)
        /\ AreTried(t) = {} /\ \A b \in NewBuckets : t.new[b] = {}
        /\ t.nNew = m.nNew /\ t.nTried = m.nTried
    BY <1>5
  <2>2. u = LoadNew(t, a)
    BY <1>2 DEF Load
  <2>3. a \in AreNew(Tables) /\ a \in K /\ a \notin first(i - 1) /\ first(i) = first(i - 1) \cup {a}
    <3>1. a \in AreNew(Tables) /\ a \in K
      BY <1>0, <1>3
    <3>2. \A j \in 1..(i - 1) : j \in 1..n /\ j # i
      BY <1>1
    <3>3. a \notin first(i - 1)
      BY <1>1, <3>2
    <3>4. first(i) = first(i - 1) \cup {a}
      <4>1. \A j : j \in 1..i <=> j \in 1..(i - 1) \/ j = i
        BY <1>1
      <4> QED
        BY <4>1
    <3> QED
      BY <3>1, <3>3, <3>4
  <2> HIDE DEF t, u, a, first
  <2>4. /\ Agrees(u, K \cup {a}) /\ Known(u) = Known(t) \cup {a}
        /\ \A x \in Known(t) : u.info[x] = t.info[x]
        /\ ~u.info[a].tried
        /\ u.new = t.new /\ u.nNew = t.nNew /\ u.nTried = t.nTried
    BY <1>0, <2>1, <2>2, <2>3, LoadNewAgrees
  <2>5. K \cup {a} = K
    BY <2>3
  <2>6. AreTried(u) = {}
    <3>1. \A x \in Known(t) : ~t.info[x].tried
      BY <2>1 DEF AreTried
    <3> QED
      BY <2>4, <3>1 DEF AreTried
  <2>7. Agrees(u, K) /\ Known(u) = first(i)
    BY <2>1, <2>3, <2>4, <2>5
  <2>8. /\ \A b \in NewBuckets : u.new[b] = {}
        /\ u.nNew = m.nNew /\ u.nTried = m.nTried
    BY <2>1, <2>4
  <2> QED
    BY <2>6, <2>7, <2>8 DEF u
<1> HIDE DEF S
<1>6. n \in S
  BY <1>1, <1>4, <1>5, LoopInduction
<1>7. first(n) = AreNew(Tables)
  BY <1>1, <1>3
<1> QED
  BY <1>2, <1>6, <1>7 DEF S

\* The tried entries are read, each into its bucket.
LEMMA TriedLoaded ==
  ASSUME Agrees(Tables, {}), NEW m, NEW K, K = Known(Tables), Agrees(m, K),
         Known(m) = AreNew(Tables), AreTried(m) = {}, \A b \in NewBuckets : m.new[b] = {},
         NEW s, s = SetToSeq(AreTried(Tables)), NEW r, r = LoadEach(m, "tried", s)
  PROVE  /\ Agrees(r, K) /\ Known(r) = K /\ AreTried(r) = AreTried(Tables)
         /\ \A b \in NewBuckets : r.new[b] = {}
         /\ r.nNew = m.nNew /\ r.nTried = m.nTried
<1> DEFINE n == Len(s)
           T == AreTried(Tables)
           first(i) == {s[j] : j \in 1..i}
<1>0. Typed(Tables) /\ AreNew(Tables) \cup T = K /\ AreNew(Tables) \cap T = {}
  BY DEF Agrees, AreNew, AreTried
<1>1. /\ s \in Seq(T) /\ n \in Nat
      /\ \A i, j \in 1..n : s[i] = s[j] => i = j
      /\ \A x \in T : \E i \in 1..n : s[i] = x
  <2>1. IsFiniteSet(T)
    BY <1>0, FiniteTables
  <2> QED
    BY <2>1, Enumeration
<1>2. PICK f : /\ f[0] = m /\ r = f[n]
               /\ \A i \in 1..n : f[i] = Load(f[i - 1], "tried", s[i])
  BY <1>1, LoadTurns
<1>3. \A i \in 1..n : s[i] \in T
  BY <1>1, ElementOfSeq
<1> HIDE DEF n
<1> DEFINE S == {i \in 0..n : /\ Agrees(f[i], K) /\ Known(f[i]) = AreNew(Tables) \cup first(i)
                              /\ AreTried(f[i]) = first(i)
                              /\ \A b \in NewBuckets : f[i].new[b] = {}
                              /\ f[i].nNew = m.nNew /\ f[i].nTried = m.nTried}
<1>4. 0 \in S
  <2>1. first(0) = {}
    OBVIOUS
  <2> QED
    BY <1>1, <1>2, <2>1
<1>5. ASSUME NEW i \in 1..n, i - 1 \in S PROVE i \in S
  <2> DEFINE t == f[i - 1]
             u == f[i]
             a == s[i]
  <2>1. /\ Agrees(t, K) /\ Known(t) = AreNew(Tables) \cup first(i - 1)
        /\ AreTried(t) = first(i - 1) /\ \A b \in NewBuckets : t.new[b] = {}
        /\ t.nNew = m.nNew /\ t.nTried = m.nTried
    BY <1>5
  <2>2. u = LoadTried(t, a)
    BY <1>2 DEF Load
  <2>3. a \in T /\ a \notin first(i - 1) /\ first(i) = first(i - 1) \cup {a} /\ first(i - 1) \subseteq T
    <3>1. a \in T
      BY <1>3
    <3>2. \A j \in 1..(i - 1) : j \in 1..n /\ j # i
      BY <1>1
    <3>3. a \notin first(i - 1) /\ first(i - 1) \subseteq T
      BY <1>1, <1>3, <3>2
    <3>4. first(i) = first(i - 1) \cup {a}
      <4>1. \A j : j \in 1..i <=> j \in 1..(i - 1) \/ j = i
        BY <1>1
      <4> QED
        BY <4>1
    <3> QED
      BY <3>1, <3>3, <3>4
  <2> HIDE DEF t, u, a, first
  <2>4. a \in AreTried(Tables) \ Known(t) /\ AreTried(t) \subseteq AreTried(Tables)
    BY <1>0, <2>1, <2>3
  <2>5. /\ Agrees(u, K \cup {a}) /\ Known(u) = Known(t) \cup {a}
        /\ AreTried(u) = AreTried(t) \cup {a}
        /\ u.new = t.new /\ u.nNew = t.nNew /\ u.nTried = t.nTried
    <3>1. Agrees(Tables, {}) /\ Agrees(t, K)
      BY <2>1
    <3> HIDE DEF T
    <3> QED
      BY <2>2, <2>4, <3>1, LoadTriedAgrees
  <2>6. K \cup {a} = K
    BY <1>0, <2>3
  <2>7. /\ Agrees(u, K) /\ Known(u) = AreNew(Tables) \cup first(i) /\ AreTried(u) = first(i)
    BY <2>1, <2>3, <2>5, <2>6
  <2>8. /\ \A b \in NewBuckets : u.new[b] = {}
        /\ u.nNew = m.nNew /\ u.nTried = m.nTried
    BY <2>1, <2>5
  <2> QED
    BY <2>7, <2>8 DEF u
<1> HIDE DEF S
<1>6. n \in S
  BY <1>1, <1>4, <1>5, LoopInduction
<1>7. first(n) = T
  BY <1>1, <1>3
<1> QED
  BY <1>0, <1>2, <1>6, <1>7 DEF S


\* The buckets are read, and every new entry is in the buckets it was in.
LEMMA BucketsLoaded ==
  ASSUME Agrees(Tables, {}), NEW m, NEW K, K = Known(Tables), Agrees(m, K), Known(m) = K,
         AreTried(m) = AreTried(Tables), \A b \in NewBuckets : m.new[b] = {},
         NEW s, s = SetToSeq(NewBuckets), NEW r, r = LoadEach(m, "bucket", s)
  PROVE  /\ Agrees(r, {}) /\ Known(r) = K /\ AreTried(r) = AreTried(Tables)
         /\ r.nNew = m.nNew /\ r.nTried = m.nTried
<1> DEFINE n == Len(s)
           first(i) == {s[j] : j \in 1..i}
<1>0. /\ Typed(Tables) /\ Bucketed(Tables, {}) /\ Tables.new = vvNew
  BY DEF Agrees, Tables
<1>1. /\ s \in Seq(NewBuckets) /\ n \in Nat
      /\ \A i, j \in 1..n : s[i] = s[j] => i = j
      /\ \A x \in NewBuckets : \E i \in 1..n : s[i] = x
  <2>1. IsFiniteSet(NewBuckets)
    BY AddrManAssumption
  <2> QED
    BY <2>1, Enumeration
<1>2. PICK f : /\ f[0] = m /\ r = f[n]
               /\ \A i \in 1..n : f[i] = Load(f[i - 1], "bucket", s[i])
  BY <1>1, LoadTurns
<1>3. \A i \in 1..n : s[i] \in NewBuckets
  BY <1>1, ElementOfSeq
<1> HIDE DEF n
<1> DEFINE S == {i \in 0..n : /\ Agrees(f[i], K) /\ Known(f[i]) = K
                              /\ AreTried(f[i]) = AreTried(Tables)
                              /\ \A b \in NewBuckets :
                                   f[i].new[b] = IF b \in first(i) THEN vvNew[b] ELSE {}
                              /\ f[i].nNew = m.nNew /\ f[i].nTried = m.nTried}
<1>4. 0 \in S
  <2>1. first(0) = {}
    OBVIOUS
  <2> HIDE DEF first
  <2>2. \A b \in NewBuckets : f[0].new[b] = IF b \in first(0) THEN vvNew[b] ELSE {}
    BY <1>2, <2>1
  <2>3. Agrees(f[0], K) /\ Known(f[0]) = K /\ AreTried(f[0]) = AreTried(Tables)
        /\ f[0].nNew = m.nNew /\ f[0].nTried = m.nTried
    BY <1>2
  <2> QED
    BY <1>1, <2>2, <2>3
<1>5. ASSUME NEW i \in 1..n, i - 1 \in S PROVE i \in S
  <2> DEFINE t == f[i - 1]
             u == f[i]
             b == s[i]
  <2>1. /\ Agrees(t, K) /\ Known(t) = K /\ AreTried(t) = AreTried(Tables)
        /\ \A c \in NewBuckets : t.new[c] = IF c \in first(i - 1) THEN vvNew[c] ELSE {}
        /\ t.nNew = m.nNew /\ t.nTried = m.nTried
    BY <1>5
  <2>2. u = LoadBucket(t, b)
    BY <1>2 DEF Load
  <2>3. b \in NewBuckets /\ b \notin first(i - 1) /\ first(i) = first(i - 1) \cup {b}
    <3>1. b \in NewBuckets
      BY <1>3
    <3>2. \A j \in 1..(i - 1) : j \in 1..n /\ j # i
      BY <1>1
    <3>3. b \notin first(i - 1)
      BY <1>1, <3>2
    <3>4. first(i) = first(i - 1) \cup {b}
      <4>1. \A j : j \in 1..i <=> j \in 1..(i - 1) \/ j = i
        BY <1>1
      <4> QED
        BY <4>1
    <3> QED
      BY <3>1, <3>3, <3>4
  <2> HIDE DEF t, u, b, first
  <2>4. t.new[b] = {} /\ \A c \in NewBuckets : t.new[c] \subseteq vvNew[c]
    BY <2>1, <2>3
  <2>5. /\ Agrees(u, K) /\ Known(u) = K /\ AreTried(u) = AreTried(Tables)
        /\ u.new[b] = vvNew[b] /\ \A c \in NewBuckets \ {b} : u.new[c] = t.new[c]
        /\ u.nNew = t.nNew /\ u.nTried = t.nTried
    BY <2>1, <2>2, <2>3, <2>4, LoadBucketAgrees
  <2>6. \A c \in NewBuckets : u.new[c] = IF c \in first(i) THEN vvNew[c] ELSE {}
    <3> TAKE c \in NewBuckets
    <3>1. CASE c = b
      BY <2>3, <2>5, <3>1
    <3>2. CASE c # b
      BY <2>1, <2>3, <2>5, <3>2
    <3> QED
      BY <3>1, <3>2
  <2> QED
    BY <2>1, <2>5, <2>6 DEF u
<1> HIDE DEF S
<1>6. n \in S
  BY <1>1, <1>4, <1>5, LoopInduction
<1>7. \A b \in NewBuckets : b \in first(n)
  BY <1>1
<1> HIDE DEF first
<1>8. /\ Agrees(r, K) /\ Known(r) = K /\ AreTried(r) = AreTried(Tables)
      /\ \A b \in NewBuckets : r.new[b] = Tables.new[b]
      /\ r.nNew = m.nNew /\ r.nTried = m.nTried
  BY <1>0, <1>2, <1>6, <1>7 DEF S
<1>9. Bucketed(r, {})
  <2>1. \A x : NewIn(r, x) = NewIn(Tables, x)
    BY <1>8 DEF NewIn
  <2>2. Bucketed(r, K)
    BY <1>8 DEF Agrees
  <2>3. ASSUME NEW x \in K, ~r.info[x].tried PROVE r.info[x].ref >= 1
    <3>1. ~Tables.info[x].tried
      BY <1>8, <2>3 DEF AreTried
    <3>2. Tables.info[x].ref >= 1 /\ Tables.info[x].ref = Cardinality(NewIn(Tables, x))
      BY <1>0, <3>1 DEF Bucketed
    <3>3. r.info[x].ref = Cardinality(NewIn(r, x))
      BY <1>8, <2>2 DEF Bucketed
    <3> QED
      BY <2>1, <3>2, <3>3
  <2> QED
    BY <1>8, <2>2, <2>3 DEF Bucketed
<1> QED
  BY <1>8, <1>9 DEF Agrees

LEMMA ReloadInv ==
  ASSUME AddrManInv, Reload
  PROVE  AddrManInv'
<1> DEFINE K == Known(Tables)
           empty == [NoTables EXCEPT !.nNew = nNew, !.nTried = nTried]
           m1 == LoadEach(empty, "new", SetToSeq(AreNew(Tables)))
           m2 == LoadEach(m1, "tried", SetToSeq(AreTried(Tables)))
           m3 == LoadEach(m2, "bucket", SetToSeq(NewBuckets))
<1>0. /\ Agrees(Tables, {}) /\ Counted(Tables) /\ nNew \in Int /\ nTried \in Int
      /\ Tables.nNew = nNew /\ Tables.nTried = nTried
  BY DEF AddrManInv, Agrees, Typed, Tables
<1>1. BecomesTables(m3)
  BY AllWritten DEF Reload
<1>2. m3 = LoadEach(m2, "bucket", SetToSeq(NewBuckets))
  OBVIOUS
<1> HIDE DEF m3
<1>3. m2 = LoadEach(m1, "tried", SetToSeq(AreTried(Tables)))
  OBVIOUS
<1> HIDE DEF m2
<1>4. m1 = LoadEach(empty, "new", SetToSeq(AreNew(Tables)))
  OBVIOUS
<1> HIDE DEF m1
<1>5. empty = Unread(nNew, nTried)
  BY DEF Unread
<1>6. K = Known(Tables)
  OBVIOUS
<1> HIDE DEF empty, K
<1>7. /\ Agrees(empty, K) /\ Known(empty) = {} /\ \A b \in NewBuckets : empty.new[b] = {}
      /\ empty.nNew = nNew /\ empty.nTried = nTried
  <2>1. /\ Agrees(empty, {}) /\ Known(empty) = {} /\ \A b \in NewBuckets : empty.new[b] = {}
        /\ empty.nNew = nNew /\ empty.nTried = nTried
    BY <1>0, <1>5, NoTablesAgree
  <2>2. Agrees(empty, K)
    BY <2>1, MoreToCome
  <2> QED
    BY <2>1, <2>2
<1>8. /\ Agrees(m1, K) /\ Known(m1) = AreNew(Tables) /\ AreTried(m1) = {}
      /\ \A b \in NewBuckets : m1.new[b] = {}
      /\ m1.nNew = nNew /\ m1.nTried = nTried
  BY <1>0, <1>4, <1>6, <1>7, NewLoaded
<1>9. /\ Agrees(m2, K) /\ Known(m2) = K /\ AreTried(m2) = AreTried(Tables)
      /\ \A b \in NewBuckets : m2.new[b] = {}
      /\ m2.nNew = nNew /\ m2.nTried = nTried
  BY <1>0, <1>3, <1>6, <1>8, TriedLoaded
<1>10. /\ Agrees(m3, {}) /\ Known(m3) = K /\ AreTried(m3) = AreTried(Tables)
       /\ m3.nNew = nNew /\ m3.nTried = nTried
  BY <1>0, <1>2, <1>6, <1>9, BucketsLoaded
<1>11. Counted(m3)
  <2>1. \A t : AreNew(t) = Known(t) \ AreTried(t)
    BY DEF AreNew, AreTried
  <2>2. AreNew(m3) = AreNew(Tables)
    BY <1>6, <1>10, <2>1
  <2> QED
    BY <1>0, <1>10, <2>2 DEF Counted
<1> QED
  BY <1>1, <1>10, <1>11, TablesBecome

----------------------------------------------------------------------------
(* The specification *)

LEMMA InitInv == AddrManInit => AddrManInv
<1> SUFFICES ASSUME AddrManInit PROVE AddrManInv
  OBVIOUS
<1>1. Tables = Unread(0, 0)
  <2>1. Tables = NoTables
    BY DEF AddrManInit, Tables, NoTables
  <2> DEFINE info == NoTables.info
             new == NoTables.new
             tried == NoTables.tried
             random == NoTables.random
  <2>2. NoTables = [info |-> info, random |-> random, new |-> new, nNew |-> 0,
                    tried |-> tried, nTried |-> 0]
    BY DEF NoTables
  <2> HIDE DEF info, new, tried, random
  <2>3. Unread(0, 0) = NoTables
    <3> DEFINE u == [NoTables EXCEPT !.nNew = 0]
    <3>1. Unread(0, 0) = [u EXCEPT !.nTried = 0]
      BY DEF Unread
    <3>2. u = [info |-> info, random |-> random, new |-> new, nNew |-> 0,
               tried |-> tried, nTried |-> 0]
      BY <2>2
    <3> HIDE DEF u
    <3>3. [u EXCEPT !.nTried = 0] = [info |-> info, random |-> random, new |-> new, nNew |-> 0,
                                     tried |-> tried, nTried |-> 0]
      BY <3>2
    <3> QED
      BY <2>2, <3>1, <3>3
  <2> QED
    BY <2>1, <2>3
<1>2. /\ Agrees(Tables, {}) /\ AreNew(Tables) = {} /\ AreTried(Tables) = {}
      /\ Tables.nNew = 0 /\ Tables.nTried = 0
  BY <1>1, NoTablesAgree
<1>3. Counted(Tables)
  BY <1>2, FS_EmptySet DEF Counted
<1> QED
  BY <1>2, <1>3 DEF AddrManInv

LEMMA NextInv == AddrManInv /\ [AddrManNext]_addrVars => AddrManInv'
<1> SUFFICES ASSUME AddrManInv, [AddrManNext]_addrVars PROVE AddrManInv'
  OBVIOUS
<1>1. ASSUME NEW a \in Addrs, NEW source \in DOMAIN NewBucketOf[a], Add(a, source)
      PROVE  AddrManInv'
  BY <1>1, AddInv
<1>2. ASSUME NEW a \in Addrs, Good(a) PROVE AddrManInv'
  BY <1>2, GoodInv
<1>3. CASE GetAddr
  BY <1>3, GetAddrInv
<1>4. CASE Reload
  BY <1>4, ReloadInv
<1>5. CASE UNCHANGED addrVars
  <2>1. Tables' = Tables
    BY <1>5 DEF addrVars, Tables
  <2>2. Agrees(Tables', {}) /\ Counted(Tables')
    BY <2>1 DEF AddrManInv
  <2> QED
    BY <2>2 DEF AddrManInv, Agrees, Typed, Listed, Bucketed, Tried, TriedList, Counted, Tables,
                Known, NewIn, TriedIn, AreNew, AreTried
<1> QED
  BY <1>1, <1>2, <1>3, <1>4, <1>5 DEF AddrManNext

\* The list has every entry once, so it is as long as both kinds together.
LEMMA ListCounts ==
  ASSUME AddrManInv
  PROVE  Len(vRandom) = Cardinality(Known(Tables)) /\ Len(vRandom) = nTried + nNew
<1>0. /\ Typed(Tables) /\ Listed(Tables) /\ Counted(Tables) /\ Tables.random = vRandom
      /\ Tables.nNew = nNew /\ Tables.nTried = nTried /\ vRandom \in Seq(Addrs)
  BY DEF AddrManInv, Agrees, Typed, Tables
<1>1. /\ \A i, j \in 1..Len(vRandom) : vRandom[i] = vRandom[j] => i = j
      /\ \A i \in 1..Len(vRandom) : vRandom[i] \in Known(Tables)
      /\ \A x \in Known(Tables) : \E i \in 1..Len(vRandom) : vRandom[i] = x
  BY <1>0 DEF Listed
<1>2. IsFiniteSet(Known(Tables)) /\ Cardinality(Known(Tables)) = Len(vRandom)
  BY <1>0, <1>1, ListedOnce
<1>3. /\ Known(Tables) = AreTried(Tables) \cup AreNew(Tables)
      /\ AreTried(Tables) \cap AreNew(Tables) = {}
  BY DEF AreTried, AreNew
<1>4. /\ IsFiniteSet(AreTried(Tables)) /\ IsFiniteSet(AreNew(Tables))
      /\ Cardinality(AreTried(Tables)) \in Nat /\ Cardinality(AreNew(Tables)) \in Nat
  BY <1>0, FiniteTables
<1>5. Cardinality(Known(Tables)) = Cardinality(AreTried(Tables)) + Cardinality(AreNew(Tables))
  <2>1. Cardinality(AreTried(Tables) \cup AreNew(Tables))
          = Cardinality(AreTried(Tables)) + Cardinality(AreNew(Tables))
              - Cardinality(AreTried(Tables) \cap AreNew(Tables))
    BY <1>4, FS_Union
  <2>2. Cardinality(AreTried(Tables) \cap AreNew(Tables)) = 0
    BY <1>3, FS_EmptySet
  <2> QED
    BY <1>3, <1>4, <2>1, <2>2
<1> QED
  BY <1>0, <1>2, <1>5 DEF Counted

LEMMA InvAgrees == AddrManInv => AddrManAgrees
<1> SUFFICES ASSUME AddrManInv PROVE AddrManAgrees
  OBVIOUS
<1> DEFINE tried == {a \in DOMAIN mapInfo : mapInfo[a].tried}
<1>0. /\ Typed(Tables) /\ Listed(Tables) /\ Bucketed(Tables, {}) /\ Tried(Tables) /\ Counted(Tables)
      /\ Tables.info = mapInfo /\ Tables.random = vRandom /\ Tables.new = vvNew
      /\ Tables.tried = vvTried /\ Tables.nNew = nNew /\ Tables.nTried = nTried
      /\ Known(Tables) = DOMAIN mapInfo
  BY DEF AddrManInv, Agrees, Tables, Known
<1>1. tried = AreTried(Tables)
  BY <1>0 DEF AreTried
<1>2. vRandom \in Seq(Addrs) /\ vvTried \in [TriedBuckets -> Seq(Addrs)]
  BY <1>0 DEF Typed
<1>3. ASSUME NEW a \in DOMAIN mapInfo
      PROVE  /\ mapInfo[a].ref = Cardinality({b \in NewBuckets : a \in vvNew[b]})
             /\ IF a \in tried THEN mapInfo[a].ref = 0 /\ mapInfo[a].last > 0
                ELSE mapInfo[a].ref \in 1..NEW_BUCKETS_PER_ADDRESS
             /\ mapInfo[a].pos \in DOMAIN vRandom /\ vRandom[mapInfo[a].pos] = a
  <2>1. mapInfo[a].ref = Cardinality({b \in NewBuckets : a \in vvNew[b]})
    BY <1>0 DEF Bucketed, NewIn
  <2>2. /\ mapInfo[a].ref <= NEW_BUCKETS_PER_ADDRESS
        /\ mapInfo[a].tried => mapInfo[a].ref = 0 /\ mapInfo[a].last > 0
        /\ mapInfo[a].tried \/ mapInfo[a].ref >= 1
    BY <1>0 DEF Bucketed
  <2>3. mapInfo[a].ref \in Int
    <3>1. mapInfo[a] \in Entry
      BY <1>0 DEF Typed
    <3> QED
      BY <3>1 DEF Entry
  <2>4. mapInfo[a].pos \in 1..Len(vRandom) /\ vRandom[mapInfo[a].pos] = a
    BY <1>0 DEF Listed
  <2>5. DOMAIN vRandom = 1..Len(vRandom)
    BY <1>2, LenProperties
  <2>6. CASE a \in tried
    BY <2>1, <2>2, <2>4, <2>5, <2>6
  <2>7. CASE a \notin tried
    <3>1. mapInfo[a].ref >= 1
      BY <2>2, <2>7
    <3>2. mapInfo[a].ref \in 1..NEW_BUCKETS_PER_ADDRESS
      BY <2>2, <2>3, <3>1, AddrManAssumption
    <3> QED
      BY <2>1, <2>4, <2>5, <2>7, <3>2
  <2> QED
    BY <2>6, <2>7
<1>4. ASSUME NEW b \in TriedBuckets
      PROVE  /\ Len(vvTried[b]) <= TRIED_BUCKET_SIZE /\ IsInjective(vvTried[b])
             /\ Range(vvTried[b]) = {a \in tried : TriedBucketOf[a] = b}
  <2> DEFINE s == vvTried[b]
  <2>1. TriedList(Tables, b, s) /\ s \in Seq(Addrs)
    BY <1>0, <1>2 DEF Tried
  <2>2. TriedIn(Tables, b) = {a \in tried : TriedBucketOf[a] = b}
    BY <1>1 DEF TriedIn, AreTried
  <2> HIDE DEF s, tried
  <2>3. DOMAIN s = 1..Len(s)
    BY <2>1, LenProperties
  <2>4. Len(s) <= TRIED_BUCKET_SIZE /\ IsInjective(s)
    BY <2>1, <2>3 DEF TriedList, IsInjective
  <2>5. Range(s) = TriedIn(Tables, b)
    BY <2>1, <2>3 DEF TriedList, Range
  <2> QED
    BY <2>2, <2>4, <2>5 DEF s
<1>5. \A b \in NewBuckets : vvNew[b] \subseteq DOMAIN mapInfo /\ Cardinality(vvNew[b]) <= NEW_BUCKET_SIZE
  BY <1>0 DEF Bucketed
<1>6. ASSUME nTried > 0 PROVE \E b \in TriedBuckets : vvTried[b] # <<>>
  <2>1. AreTried(Tables) # {}
    <3>1. Cardinality(AreTried(Tables)) > 0
      BY <1>0, <1>6 DEF Counted
    <3> QED
      BY <3>1, FS_EmptySet
  <2>2. PICK a \in AreTried(Tables) : TRUE
    BY <2>1
  <2> DEFINE b == TriedBucketOf[a]
  <2>3. a \in Addrs /\ b \in TriedBuckets /\ a \in TriedIn(Tables, b)
    BY <1>0, <2>2 DEF AreTried, Typed, TriedBuckets, TriedIn
  <2> HIDE DEF b
  <2>4. PICK i \in 1..Len(vvTried[b]) : vvTried[b][i] = a
    BY <1>0, <2>3 DEF Tried, TriedList
  <2>5. Len(<<>>) = 0
    OBVIOUS
  <2>6. vvTried[b] # <<>>
    BY <2>4, <2>5
  <2> QED
    BY <2>3, <2>6
<1>7. ASSUME nNew > 0 PROVE \E b \in NewBuckets : vvNew[b] # {}
  <2>1. AreNew(Tables) # {}
    <3>1. Cardinality(AreNew(Tables)) > 0
      BY <1>0, <1>7 DEF Counted
    <3> QED
      BY <3>1, FS_EmptySet
  <2>2. PICK a \in AreNew(Tables) : TRUE
    BY <2>1
  <2>3. a \in Known(Tables) /\ ~Tables.info[a].tried
    BY <2>2 DEF AreNew
  <2>4. Tables.info[a].ref >= 1 /\ Tables.info[a].ref = Cardinality(NewIn(Tables, a))
    BY <1>0, <2>3 DEF Bucketed
  <2>5. NewIn(Tables, a) # {}
    BY <2>4, FS_EmptySet
  <2> QED
    BY <1>0, <2>5 DEF NewIn
<1>8. Len(vRandom) = Cardinality(DOMAIN mapInfo) /\ Len(vRandom) = nTried + nNew
  BY <1>0, ListCounts
<1>9. nTried = Cardinality(tried)
  BY <1>0, <1>1 DEF Counted
<1> HIDE DEF tried
<1>10. SelectEnds
  BY <1>6, <1>7 DEF SelectEnds
<1> QED
  BY <1>3, <1>4, <1>5, <1>8, <1>9, <1>10 DEF AddrManAgrees, tried

\* After any sequence of Add, Good, GetAddr and reloads of the file the tables
\* agree: what CAddrMan::Check_ tests, for any addresses, any hashing of them
\* into buckets and any sizes of the buckets.  So Select_ always has an entry
\* to draw when its counts say there is one.
THEOREM TablesAgree == AddrManSpec => []AddrManAgrees
<1>1. AddrManInit => AddrManInv
  BY InitInv
<1>2. AddrManInv /\ [AddrManNext]_addrVars => AddrManInv'
  BY NextInv
<1>3. AddrManInv => AddrManAgrees
  BY InvAgrees
<1> QED
  BY <1>1, <1>2, <1>3, PTL DEF AddrManSpec

=============================================================================
