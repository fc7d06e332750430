----------------------------- MODULE MCNetwork -----------------------------
(***************************************************************************)
(* What nodes say to each other, for TLC.  The components share no state   *)
(* in these modules, so a behaviour runs one of them while the others      *)
(* rest: their states add up instead of multiplying.                       *)
(***************************************************************************)
EXTENDS BlockSync, Relay, Handshake, Clock, TLC

VARIABLE active

CONSTANTS h1, h2, h3, self, c12, c21, c31

\* h1 opens a connection to itself and one to h2, which opens one to h1 meanwhile,
\* and h3, which is too old, one to h1.
MCVersions == h1 :> 60002 @@ h2 :> 60000 @@ h3 :> 200
MCOpener == self :> h1 @@ c12 :> h1 @@ c21 :> h2 @@ c31 :> h3
MCTarget == self :> h1 @@ c12 :> h2 @@ c21 :> h1 @@ c31 :> h1

\* A bound: of the connections that come to nothing one is opened.
OneInVain == ~ ({self, c31} \subseteq opened')

(* Alerts: one that the next cancels, which is not for this node; one that   *)
(* cancels both; the last one there can be; and one that only has its ID.    *)

CONSTANTS a1, a2, a3, a4, a5, p1, p2

For(text, id, cancel, setCancel, min, expires, relayUntil, priority) ==
  [strStatusBar |-> text, nID |-> id, nCancel |-> cancel, setCancel |-> setCancel,
   nMinVer |-> min, nMaxVer |-> 9, setSubVer |-> {}, nExpiration |-> expires,
   nRelayUntil |-> relayUntil, nPriority |-> priority, signed |-> TRUE]
MCAlert ==
  a1 :> For("a1", 1, 0, {}, 0, 2, 0, 1) @@ a2 :> For("a2", 2, 0, {1}, 2, 1, 0, 3000) @@
  a3 :> For("a3", 3, 2, {}, 0, 1, 1, 1500) @@ a4 :> For("a4", 9, 8, {}, 0, 9, 9, 9) @@
  a5 :> For("a5", 9, 8, {}, 0, 9, 9, 5)
MCMyVersion == [version |-> 1, sub |-> "this"]
MCVersionOf == p1 :> [version |-> 2, sub |-> "other"] @@ p2 :> MCMyVersion

(* Peers whose clocks agree with this one, are slow, or are much too fast.   *)

Claim(offset, height) == [offset |-> offset, height |-> height]
MCClaims == {Claim(-1, 3), Claim(-12, 7), Claim(80, 5)}

networkVars == <<active, syncVars, relayVars, handshakeVars, alertVars, clockVars>>

NetworkInit ==
  /\ active \in {"sync", "relay", "handshake", "alerts", "clock"}
  /\ SyncInit /\ RelayInit /\ HandshakeInit /\ AlertsInit /\ ClockInit
  /\ active # "sync" => lastGetBlocks = <<tip, NoBlock>>

Runs(component) == active = component /\ UNCHANGED active

NetworkNext ==
  \/ Runs("sync") /\ SyncNext /\ UNCHANGED <<relayVars, handshakeVars, alertVars, clockVars>>
  \/ Runs("relay") /\ RelayNext /\ UNCHANGED <<syncVars, handshakeVars, alertVars, clockVars>>
  \/ Runs("handshake") /\ HandshakeNext /\ OneInVain /\ UNCHANGED <<syncVars, relayVars, alertVars, clockVars>>
  \/ Runs("alerts") /\ AlertsNext /\ UNCHANGED <<syncVars, relayVars, handshakeVars, clockVars>>
  \/ Runs("clock") /\ ClockNext /\ UNCHANGED <<syncVars, relayVars, handshakeVars, alertVars>>

\* The fairness of each component, which owes nothing while it rests.
NetworkSpec ==
  /\ NetworkInit /\ [][NetworkNext]_networkVars
  /\ WF_syncVars(active = "sync" /\ NodeStep)
  /\ WF_syncVars(active = "sync" /\ NodeSendsGetData)
  /\ WF_syncVars(active = "sync" /\ PeerStep)
  /\ WF_syncVars(active = "sync" /\ PeerSendsInv)
  /\ WF_syncVars(active = "sync" /\ PeerMines)
  /\ \A p \in RelayPeers : WF_relayVars(active = "relay" /\ PeerRelays(p))
  /\ WF_relayVars(active = "relay" /\ TwoMinutes)
  /\ \A e \in Ends : WF_handshakeVars(active = "handshake" /\ (Handles(e) \/ Closes(e)))

\* DownloadCompletes of the behaviours in which blocks are downloaded: whether or
\* not the node asked at first, it gets the whole chain of its peer.
DownloadEnds == active = "sync" => DownloadCompletes
=============================================================================
