-------------------------------- MODULE Work --------------------------------
(***************************************************************************)
(* Targets, retargeting and what is required of a block beside its         *)
(* transactions: the compact form of bignum.h, GetNextWorkRequired,        *)
(* ComputeMinWork, the median of times, the count of versions and the      *)
(* subsidy.                                                                *)
(*                                                                         *)
(* chain is one branch, from a checkpoint on: its blocks in order, each    *)
(* with its time, its compact target and its version.                      *)
(***************************************************************************)
EXTENDS Integers, Sequences, FiniteSets, SequencesExt, FiniteSetsExt

CONSTANTS
  Base,            \* values of a byte of the compact form
  ProofOfWorkLimit,\* easiest target
  FirstTarget,     \* of the first block of chain
  nInterval,       \* blocks between two changes of the target, 2016
  nTargetSpacing,  \* ten minutes
  nMedianTimeSpan, \* 11
  fTestNet,
  Gaps,            \* times from a block to the next that are tried
  MaxChain,        \* bound on chain
  Required, ToCheck, \* IsSuperMajority: how many of the last blocks, 950 of 1000
  Coin, nHalving, Width \* the first subsidy, how long it stays, bits of an int64

ASSUME WorkAssumption ==
  /\ Base \in Nat /\ Base % 2 = 0 /\ Base > 2
  /\ {ProofOfWorkLimit, FirstTarget, nInterval, nTargetSpacing, nHalving, Width} \subseteq Nat \ {0}
  /\ Required \in 0..ToCheck /\ fTestNet \in BOOLEAN /\ Gaps \subseteq Int

VARIABLE chain

----------------------------------------------------------------------------
(* The compact form: a size in bytes and the first three of them; the      *)
(* highest bit of the three is the sign.                                   *)

Digits(n) == LET digits[k \in 0..n] == IF k = 0 THEN 0 ELSE 1 + digits[k \div Base] IN digits[n]

SetCompact(c) ==
  LET half == Base^3 \div 2
      magnitude == c.mantissa % half
      abs == IF c.size <= 3 THEN magnitude \div Base^(3 - c.size)
             ELSE magnitude * Base^(c.size - 3)
  IN  IF c.mantissa >= half THEN -abs ELSE abs

\* A first byte with its highest bit set would be a sign: a zero byte goes before it.
SizeInBytes(n) ==
  LET d == Digits(n) IN IF n > 0 /\ n \div Base^(d - 1) >= Base \div 2 THEN d + 1 ELSE d

GetCompact(n) ==
  LET size == SizeInBytes(n) IN
  [size |-> size, mantissa |-> IF size <= 3 THEN n * Base^(3 - size) ELSE n \div Base^(size - 3)]

CheckProofOfWork(hash, bits) ==
  /\ 0 < SetCompact(bits) /\ SetCompact(bits) <= ProofOfWorkLimit
  /\ hash <= SetCompact(bits)

\* The number of hashes it takes: Space is 2^256.
GetBlockWork(Space, bits) ==
  IF SetCompact(bits) <= 0 THEN 0 ELSE Space \div (SetCompact(bits) + 1)

----------------------------------------------------------------------------
(* Retargeting *)

nTargetTimespan == nInterval * nTargetSpacing
LimitBits == GetCompact(ProofOfWorkLimit)
Easiest(target) == Min({target, ProofOfWorkLimit})

\* Mutant: the target is eased once in eight times the timespan.
EasingsSeldom(nTime) == (nTime + nTargetTimespan * 8 - 1) \div (nTargetTimespan * 8)

\* The loop of ComputeMinWork: once for each four timespans begun.
Easings(nTime) ==
  IF nTime <= 0 THEN 0 ELSE (nTime + nTargetTimespan * 4 - 1) \div (nTargetTimespan * 4)

ComputeMinWork(bits, nTime) ==
  IF fTestNet /\ nTime > nTargetSpacing * 2 THEN LimitBits
  ELSE LET target == SetCompact(bits)
           n == Min({k \in 0..Easings(nTime) : k = Easings(nTime) \/ target * 4^k >= ProofOfWorkLimit})
       IN  GetCompact(Easiest(target * 4^n))

\* The blocks are at heights 0, 1... of the branch.
Block(c, h) == c[h + 1]
Tip(c) == Len(c) - 1

\* Testnet: the last block whose target was not given for being late.
LastOrdinary(c) ==
  Block(c, Max({h \in 0..Tip(c) : h = 0 \/ h % nInterval = 0 \/ Block(c, h).bits # LimitBits}))

Retarget(c) ==
  LET span == Block(c, Tip(c)).time - Block(c, Tip(c) - (nInterval - 1)).time
      actual == IF span < nTargetTimespan \div 4 THEN nTargetTimespan \div 4
                ELSE IF span > nTargetTimespan * 4 THEN nTargetTimespan * 4 ELSE span
      target == SetCompact(Last(c).bits) * actual
  IN  GetCompact(Easiest(target \div nTargetTimespan))

GetNextWorkRequired(c, nTime) ==
  IF (Tip(c) + 1) % nInterval = 0 THEN Retarget(c)
  ELSE IF ~fTestNet THEN Last(c).bits
  ELSE IF nTime > Last(c).time + nTargetSpacing * 2 THEN LimitBits
  ELSE LastOrdinary(c).bits

GetMedianTimePast(c) ==
  LET n == Min({nMedianTimeSpan, Len(c)})
      times == SortSeq([i \in 1..n |-> c[Len(c) + 1 - i].time], LAMBDA a, b : a < b)
  IN  times[n \div 2 + 1]

IsSuperMajority(c, minVersion, required) ==
  LET from == Max({1, Len(c) - ToCheck + 1}) IN
  Cardinality({i \in from..Len(c) : c[i].version >= minVersion}) >= required

----------------------------------------------------------------------------
(* Subsidy *)

\* The shift by the width of the type or more is undefined: the build masks the
\* distance, another may return zero.
ShiftsRight(n, by) ==
  IF by < Width THEN {n \div 2^by} ELSE {n \div 2^(by % Width), 0}

GetBlockValue(nHeight, nFees) == {s + nFees : s \in ShiftsRight(50 * Coin, nHeight \div nHalving)}

\* "Subsidy is cut in half every 210000 blocks": before a shift as wide as the type,
\* what all blocks together create stays below the hundred coins times nHalving that
\* MAX_MONEY is (main.h), in every build.
SubsidyEnds(nHeight) ==
  LET created == MapThenSumSet(LAMBDA h : Max(GetBlockValue(h, 0)), 0..nHeight) IN
  nHeight < Width * nHalving =>
    /\ created < 100 * Coin * nHalving
    /\ nHeight >= nHalving => \A s \in GetBlockValue(nHeight, 0), before \in GetBlockValue(nHeight - nHalving, 0) :
                                s = before \div 2

----------------------------------------------------------------------------

WorkInit == chain = <<[time |-> 0, bits |-> GetCompact(FirstTarget), version |-> 1]>>

\* What AcceptBlock asks of a block: the target that is required, a time after
\* the median, and the newer version once the majority has it.
Acceptable(c, time, bits, version) ==
  /\ bits = GetNextWorkRequired(c, time)
  /\ time > GetMedianTimePast(c)
  /\ version >= 2 \/ ~IsSuperMajority(c, 2, Required)

NextBlock ==
  /\ Len(chain) < MaxChain
  /\ \E gap \in Gaps, version \in 1..2 :
       LET time == Last(chain).time + gap
           bits == GetNextWorkRequired(chain, time)
       IN  /\ Acceptable(chain, time, bits, version)
           /\ chain' = Append(chain, [time |-> time, bits |-> bits, version |-> version])

WorkNext == NextBlock
WorkSpec == WorkInit /\ [][WorkNext]_chain

----------------------------------------------------------------------------

Span(c, h) == Block(c, h).time - Block(c, h - (nInterval - 1)).time
Retargets(c) == {h \in 1..Tip(c) - 1 : (h + 1) % nInterval = 0}

\* ProcessBlock refuses a block whose target is easier than what ComputeMinWork
\* allows for the time since the last checkpoint, and its peer is banned.
MinWorkAllows(c) ==
  c # <<>> => SetCompact(Last(c).bits) <= SetCompact(ComputeMinWork(c[1].bits, Last(c).time - c[1].time))

\* Compact targets round down, and never beyond the last of three bytes; every
\* target of a chain is one that CheckProofOfWork takes.
TargetsAreSound ==
  \A i \in DOMAIN chain :
    LET target == SetCompact(chain[i].bits) IN
    /\ CheckProofOfWork(0, chain[i].bits)
    /\ GetCompact(target) = chain[i].bits
    /\ \A n \in {target - 1, target + 1, 2 * target} :
         LET rounded == SetCompact(GetCompact(n))
         IN  rounded <= n /\ (n - rounded) * Base <= n

\* No block that follows the rules of its own branch is refused for too little
\* work, as long as times do not go back and no interval took between two and four
\* times what it should.
MinWorkIsEnough ==
  /\ TargetsAreSound
  /\ (/\ \A i \in 2..Len(chain) : chain[i].time >= chain[i - 1].time
      /\ \A h \in Retargets(chain) : Span(chain, h) <= 2 * nTargetTimespan
                                     \/ Span(chain, h) >= 4 * nTargetTimespan)
       => MinWorkAllows(chain)

\* The same whatever the intervals took.
MinWorkIsAlwaysEnough ==
  (\A i \in 2..Len(chain) : chain[i].time >= chain[i - 1].time) => MinWorkAllows(chain)
=============================================================================
