------------------------------- MODULE Clock --------------------------------
(***************************************************************************)
(* What the version messages of peers say of the time and of the chain:    *)
(* AddTimeData (util.cpp), the median filters it and cPeerBlockCounts are  *)
(* (util.h), and the warning of a wrong clock.                             *)
(*                                                                         *)
(* A claim is the time of a peer relative to the clock of this node, in    *)
(* minutes, and the height of its chain.  The warning is one of those that *)
(* GetWarnings of Alerts looks at.                                         *)
(***************************************************************************)
EXTENDS Alerts, Sequences

CONSTANTS
  TimePeers,           \* addresses of the peers
  Claims,
  TimeWindow,          \* samples vTimeOffsets keeps, 200
  HeightWindow,        \* those cPeerBlockCounts keeps, 5
  MaxOffset, NearOffset, \* 70 and 5 minutes
  TotalBlocksEstimate  \* height of the last checkpoint

ASSUME ClockAssumption ==
  /\ {TimeWindow, HeightWindow} \subseteq Nat \ {0} /\ TimeWindow % 2 = 0
  /\ {NearOffset, TotalBlocksEstimate} \subseteq Nat /\ MaxOffset \in Nat \ {0}
  /\ \A c \in Claims : c.offset \in Int /\ c.height \in Int

VARIABLES
  setKnown,         \* addresses whose time was taken
  vTimeOffsets, cPeerBlockCounts, \* the values of the two filters
  nTimeOffset,
  strMiscWarning,
  offsets           \* every sample that was taken

clockVars == <<setKnown, vTimeOffsets, cPeerBlockCounts, nTimeOffset, strMiscWarning, offsets>>

ClockInit ==
  /\ setKnown = {} /\ vTimeOffsets = <<0>> /\ cPeerBlockCounts = <<0>>
  /\ nTimeOffset = 0 /\ strMiscWarning = "" /\ offsets = <<>>

Magnitude(x) == IF x < 0 THEN -x ELSE x

\* CMedianFilter: a window on the values, the oldest leaving first.
Input(vValues, nSize, value) ==
  Append(IF Len(vValues) = nSize THEN Tail(vValues) ELSE vValues, value)

\* Mutant: the newest value in the place of the middle one.
MedianUnsorted(vValues) == vValues[Len(vValues)]

\* The value at a place of vSorted: fewer are below it, and no fewer up to it.
Below(v, x) == Cardinality({i \in DOMAIN v : v[i] < x})
NotAbove(v, x) == Cardinality({i \in DOMAIN v : v[i] <= x})
Sorted(v, place) ==
  CHOOSE x \in {v[i] : i \in DOMAIN v} : Below(v, x) < place /\ place <= NotAbove(v, x)

\* Between two middle values, rounded towards zero.
Median(vValues) ==
  LET size  == Len(vValues)
      twice == Sorted(vValues, (size + 1) \div 2) + Sorted(vValues, size \div 2 + 1)
  IN  IF twice < 0 THEN -(Magnitude(twice) \div 2) ELSE twice \div 2

\* A wrong clock is warned of once, unless some peer has almost the same.
Warning(v) ==
  IF \E i \in DOMAIN v : v[i] # 0 /\ Magnitude(v[i]) < NearOffset THEN strMiscWarning ELSE "clock"

\* One sample for an address; with every second one the offset is set anew.
AddTimeData(ip, sample) ==
  IF ip \in setKnown THEN UNCHANGED <<setKnown, vTimeOffsets, nTimeOffset, strMiscWarning, offsets>>
  ELSE LET v == Input(vTimeOffsets, TimeWindow, sample)
           median == Median(v) IN
       /\ setKnown' = setKnown \cup {ip}
       /\ vTimeOffsets' = v
       /\ offsets' = Append(offsets, sample)
       /\ IF Len(v) < 5 \/ Len(v) % 2 = 0 THEN UNCHANGED <<nTimeOffset, strMiscWarning>>
          ELSE IF Magnitude(median) < MaxOffset
               THEN nTimeOffset' = median /\ UNCHANGED strMiscWarning
               ELSE nTimeOffset' = 0 /\ strMiscWarning' = Warning(v)

\* The version message takes the height whether or not the address is known.
HearsClaim(ip, claim) ==
  /\ AddTimeData(ip, claim.offset)
  /\ cPeerBlockCounts' = Input(cPeerBlockCounts, HeightWindow, claim.height)

ClockNext == \E ip \in TimePeers, claim \in Claims : HearsClaim(ip, claim)

ClockSpec == ClockInit /\ [][ClockNext]_clockVars

GetNumBlocksOfPeers ==
  IF Median(cPeerBlockCounts) < TotalBlocksEstimate THEN TotalBlocksEstimate ELSE Median(cPeerBlockCounts)

----------------------------------------------------------------------------

\* Values of a sequence in an interval.
CountIn(s, low, high) == Cardinality({i \in DOMAIN s : low <= s[i] /\ s[i] <= high})
MostIn(s, low, high) == 2 * CountIn(s, low, high) > Len(s)

\* The time is set by the samples up to the last even one, until the window is full,
\* and from then on never again.
Deciding == LET n == (Len(offsets) \div 2) * 2 IN
            <<0>> \o SubSeq(offsets, 1, IF n < TimeWindow THEN n ELSE TimeWindow - 2)

\* The majority has its way: when the deciding samples or the last heights are most
\* of them in an interval, so is what is made of them, whatever the others say;
\* nobody moves the time by more than is allowed, and when most agree that it is
\* wrong by more and none is near, the user is told.
MajorityDecides ==
  /\ Magnitude(nTimeOffset) < MaxOffset
  /\ \A low, high \in {c.offset : c \in Claims} \cup {0} :
       (MostIn(Deciding, low, high) /\ Len(Deciding) >= 5) =>
         /\ nTimeOffset \in low..high \cup {0}
         /\ -MaxOffset < low /\ high < MaxOffset => nTimeOffset \in low..high
         /\ (low >= MaxOffset \/ high <= -MaxOffset) => 
              strMiscWarning # "" \/ \E x \in {Deciding[i] : i \in DOMAIN Deciding} : x # 0 /\ Magnitude(x) < NearOffset
  /\ \A height \in {c.height : c \in Claims} :
       /\ MostIn(cPeerBlockCounts, 0, height) /\ TotalBlocksEstimate <= height => GetNumBlocksOfPeers <= height
       /\ MostIn(cPeerBlockCounts, height, TotalBlocksEstimate + height) => GetNumBlocksOfPeers >= height

\* What a node tells its user on the word of others is what they said: the alerts
\* that stand, and a clock that most of them call wrong (AlertsStand of Alerts and
\* MajorityDecides).
NodeIsWarned == AlertsStand /\ MajorityDecides
=============================================================================
