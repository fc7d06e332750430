------------------------------- MODULE Alerts -------------------------------
(***************************************************************************)
(* Alerts (alert.cpp) and the alert message of main.cpp: a node receives   *)
(* alerts from its peers in any order, more than once, before and after    *)
(* those that cancel them, tells its other peers, and bans a peer for too  *)
(* many it does not take.                                                  *)
(*                                                                         *)
(* An alert is named by its hash.  The adjusted time goes forward, and     *)
(* back when the clocks of new peers say so.                               *)
(***************************************************************************)
EXTENDS Integers, FiniteSets, FiniteSetsExt

CONSTANTS
  AlertPeers,
  VersionOf,     \* VersionOf[p]: a peer's protocol version and its sub-version
  MyVersion,     \* those of this node
  Alert,         \* Alert[a]: the alert with hash a
  FinalID,       \* the largest int, the ID of the last alert there can be
  Banscore,      \* refused alerts that make a peer banned: -banscore over 10
  MaxTime        \* bound on the time

ASSUME AlertsAssumption ==
  /\ {FinalID, Banscore, MaxTime} \subseteq Nat
  /\ \A a \in DOMAIN Alert : Alert[a].nExpiration \in Int /\ Alert[a].nPriority \in Int

VARIABLES
  time,       \* GetAdjustedTime
  latest,     \* the latest it has been
  mapAlerts,
  knownTo,    \* setKnown of each peer
  sentTo,     \* the alerts each peer was sent, over its connection
  givenBy,    \* those accepted from it, over its connection
  greeted,    \* peers whose version is known
  nMisbehavior,
  away        \* peers that are not connected, those in setBanned among them

alertVars == <<time, latest, mapAlerts, knownTo, sentTo, givenBy, greeted, nMisbehavior, away>>
Hashes == DOMAIN Alert

AlertsInit ==
  /\ time = 0 /\ latest = 0 /\ mapAlerts = {}
  /\ knownTo = [p \in AlertPeers |-> {}]
  /\ sentTo = [p \in AlertPeers |-> {}] /\ givenBy = [p \in AlertPeers |-> {}]
  /\ greeted = {} /\ nMisbehavior = [p \in AlertPeers |-> 0] /\ away = {}

----------------------------------------------------------------------------

IsInEffect(a) == time < Alert[a].nExpiration

Cancels(a, b) ==
  IsInEffect(a) /\ (Alert[b].nID <= Alert[a].nCancel \/ Alert[b].nID \in Alert[a].setCancel)

AppliesTo(a, v) ==
  /\ IsInEffect(a)
  /\ Alert[a].nMinVer <= v.version /\ v.version <= Alert[a].nMaxVer
  /\ Alert[a].setSubVer = {} \/ v.sub \in Alert[a].setSubVer
AppliesToMe(a) == AppliesTo(a, MyVersion)

\* A peer's version, 0 and nothing before its version message.
KnownVersion(p) == IF p \in greeted THEN VersionOf[p] ELSE [version |-> 0, sub |-> ""]

\* Whether a peer is sent an alert that is new to it; it counts as known after.
Concerns(a, v) == AppliesTo(a, v) \/ AppliesToMe(a) \/ time < Alert[a].nRelayUntil

\* The alert of the largest ID has to cancel all others for ever, for everybody; its
\* text, which has to be the known one, is left out.
IsFinal(a) ==
  /\ Alert[a].nExpiration = FinalID /\ Alert[a].nCancel = FinalID - 1
  /\ Alert[a].nMinVer = 0 /\ Alert[a].nMaxVer = FinalID
  /\ Alert[a].setSubVer = {} /\ Alert[a].nPriority = FinalID

Acceptable(a) ==
  /\ Alert[a].signed
  /\ IsInEffect(a)
  /\ Alert[a].nID = FinalID => IsFinal(a)

\* Mutant: alerts whose time is over are left where they are.
RemainingAnyTime(a) == {b \in mapAlerts : ~Cancels(a, b)}

\* Those a cancels, and those whose time is over, go, even when a is refused.
Remaining(a) == {b \in mapAlerts : ~Cancels(a, b) /\ IsInEffect(b)}

\* ProcessAlert
Accepts(a) == Acceptable(a) /\ \A b \in Remaining(a) : ~Cancels(b, a)
ProcessAlert(a) ==
  mapAlerts' = IF ~Acceptable(a) THEN mapAlerts
               ELSE Remaining(a) \cup (IF Accepts(a) THEN {a} ELSE {})

----------------------------------------------------------------------------

Connected == AlertPeers \ away

\* A peer without any credit left is banned and disconnected.
Misbehaving(p) ==
  /\ nMisbehavior' = [nMisbehavior EXCEPT ![p] = @ + 1]
  /\ IF nMisbehavior'[p] >= Banscore
     THEN away' = away \cup {p} /\ greeted' = greeted \ {p}
     ELSE UNCHANGED <<away, greeted>>

\* RelayTo every peer that does not know the alert; the one that gave it does.
Relayed(a, p) ==
  /\ knownTo' = [q \in AlertPeers |-> IF q \in Connected THEN knownTo[q] \cup {a} ELSE knownTo[q]]
  /\ sentTo' = [q \in AlertPeers |->
                  IF q \in Connected \ {p} /\ a \notin knownTo[q] /\ Concerns(a, KnownVersion(q))
                  THEN sentTo[q] \cup {a} ELSE sentTo[q]]
  /\ givenBy' = [givenBy EXCEPT ![p] = @ \cup {a}]

\* The alert message: what is taken is passed on, and what is not costs credit.
GetsAlert(p, a) ==
  /\ p \in greeted /\ a \notin knownTo[p]
  /\ ProcessAlert(a)
  /\ IF Accepts(a) THEN Relayed(a, p) /\ UNCHANGED <<greeted, nMisbehavior, away>>
     ELSE Misbehaving(p) /\ UNCHANGED <<knownTo, sentTo, givenBy>>
  /\ UNCHANGED <<time, latest>>

\* The version message ends with the alerts the node has.
GetsVersionOf(p) ==
  /\ p \in Connected \ greeted
  /\ greeted' = greeted \cup {p}
  /\ LET new == {a \in mapAlerts : IsInEffect(a) /\ a \notin knownTo[p]} IN
     /\ knownTo' = [knownTo EXCEPT ![p] = @ \cup new]
     /\ sentTo' = [sentTo EXCEPT ![p] = @ \cup {a \in new : Concerns(a, VersionOf[p])}]
  /\ UNCHANGED <<time, latest, mapAlerts, givenBy, nMisbehavior, away>>

Leaves(p) ==
  /\ p \in Connected
  /\ away' = away \cup {p} /\ greeted' = greeted \ {p}
  /\ UNCHANGED <<time, latest, mapAlerts, knownTo, sentTo, givenBy, nMisbehavior>>

\* A new connection, of a peer whose ban is over if it had one.
Returns(p) ==
  /\ p \in away
  /\ away' = away \ {p}
  /\ knownTo' = [knownTo EXCEPT ![p] = {}]
  /\ sentTo' = [sentTo EXCEPT ![p] = {}] /\ givenBy' = [givenBy EXCEPT ![p] = {}]
  /\ nMisbehavior' = [nMisbehavior EXCEPT ![p] = 0]
  /\ UNCHANGED <<time, latest, mapAlerts, greeted>>

\* GetTime goes forward; nTimeOffset, when it changes, may go back by as much.
TimeMoves ==
  /\ time' \in {time - 1, time + 1} \cap 0..MaxTime
  /\ latest' = IF time' > latest THEN time' ELSE latest
  /\ UNCHANGED <<mapAlerts, knownTo, sentTo, givenBy, greeted, nMisbehavior, away>>

AlertsNext ==
  \/ \E p \in AlertPeers :
       GetsVersionOf(p) \/ Leaves(p) \/ Returns(p) \/ \E a \in Hashes : GetsAlert(p, a)
  \/ TimeMoves

AlertsSpec == AlertsInit /\ [][AlertsNext]_alertVars

----------------------------------------------------------------------------

\* What there is to warn of without any alert.
OwnWarning(fMisc, fInvalidChain) ==
  IF fInvalidChain THEN [priority |-> 2000, text |-> "chain"]
  ELSE IF fMisc THEN [priority |-> 1000, text |-> "misc"] ELSE [priority |-> 0, text |-> ""]

MoreUrgent(a, w) ==
  IF AppliesToMe(a) /\ Alert[a].nPriority > w.priority
  THEN [priority |-> Alert[a].nPriority, text |-> Alert[a].strStatusBar] ELSE w

\* GetWarnings: the first of those with the highest priority, in the order in which
\* they are looked at, and whether commands are refused.
GetWarnings(fMisc, fInvalidChain, testsafemode) ==
  [statusbar |-> FoldSet(MoreUrgent, OwnWarning(fMisc, fInvalidChain), mapAlerts).text,
   rpc |-> IF fInvalidChain THEN "chain" ELSE IF testsafemode THEN "test" ELSE ""]

\* However alerts arrive, and whichever way the time goes, no alert stands beside
\* one that cancels it; one that nothing cancels stands until its time was over;
\* every peer that has been greeted knows what stands, or gave or was sent what
\* also concerns this node; and nobody is told what it said.
AlertsArePassedOn ==
  /\ \A a, b \in mapAlerts : a # b => ~Cancels(a, b)
  /\ \A p \in AlertPeers : \A a \in givenBy[p] \ mapAlerts :
       \/ latest >= Alert[a].nExpiration
       \/ \E b \in Hashes \ {a} : /\ Alert[b].signed
                                  /\ \/ Alert[a].nID <= Alert[b].nCancel
                                     \/ Alert[a].nID \in Alert[b].setCancel
  /\ \A p \in greeted, a \in mapAlerts :
       latest < Alert[a].nExpiration =>
         /\ a \in knownTo[p]
         /\ AppliesToMe(a) => a \in sentTo[p] \cup givenBy[p]
  /\ \A p \in AlertPeers : sentTo[p] \cap givenBy[p] = {}

\* What is most urgent is shown.
MostUrgentIsShown ==
  \A fMisc \in BOOLEAN, fInvalidChain \in BOOLEAN :
    LET urgent == {a \in mapAlerts : AppliesToMe(a)}
        shown  == GetWarnings(fMisc, fInvalidChain, FALSE).statusbar IN
    \A a \in urgent :
      \/ shown \in {Alert[b].strStatusBar : b \in {c \in urgent : Alert[c].nPriority >= Alert[a].nPriority}}
      \/ shown = "misc" /\ fMisc /\ Alert[a].nPriority <= 1000
      \/ shown = "chain" /\ fInvalidChain /\ Alert[a].nPriority <= 2000
      \/ Alert[a].nPriority <= 0

\* Both: a property of the alerts as the user and the other nodes see them.
AlertsStand == AlertsArePassedOn /\ MostUrgentIsShown
=============================================================================
