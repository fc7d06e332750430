------------------------------- MODULE Relay -------------------------------
(***************************************************************************)
(* How one transaction travels through a node: announced by some peers,    *)
(* requested from one after the other (CNode::AskFor, SendMessages),       *)
(* received, and offered to the rest (RelayMessage, mapRelay, the trickle).*)
(*                                                                         *)
(* Time passes in steps of two minutes and is kept relative to now.  Some  *)
(* peers never answer.                                                     *)
(***************************************************************************)
EXTENDS Integers, Sequences, FiniteSets, FiniteSetsExt

CONSTANTS
  RelayPeers, \* the peers
  Silent,     \* those that announce what they do not send
  RelayTime   \* how long mapRelay keeps an item, 15 minutes in the code

ASSUME RelayAssumption == Silent \subseteq RelayPeers /\ RelayTime \in Nat

VARIABLES
  connected,   \* peers in vNodes
  nRequestTime,\* mapAlreadyAskedFor: -1 stands for two minutes ago or longer, or never
  askFor,      \* mapAskFor of each peer, as the times of its entries, never before now
  requested,   \* peers with a getdata to answer
  received,    \* the item is in the pool or was
  inPool,      \* the item is in the pool: no block has it yet
  inRelay,     \* the item is in mapRelay
  vRelayExpiration, \* the times until its expiries, oldest first
  knows,       \* peers with the item in their setInventoryKnown
  toAnnounce,  \* peers with the item in vInventoryToSend
  wants,       \* peers that sent a getdata for it
  got          \* those that were sent the item

relayVars == <<connected, nRequestTime, askFor, requested, received, inPool,
               inRelay, vRelayExpiration, knows, toAnnounce, wants, got>>
ours == <<received, inPool, inRelay, vRelayExpiration>>
theirs == <<toAnnounce, wants, got>>

RelayInit ==
  /\ connected = RelayPeers
  /\ nRequestTime = -1
  /\ askFor = [p \in RelayPeers |-> {}]
  /\ requested = {} /\ received = FALSE /\ inPool = FALSE
  /\ inRelay = FALSE /\ vRelayExpiration = <<>>
  /\ knows = {} /\ toAnnounce = {} /\ wants = {} /\ got = {}

AtLeast(a, b) == IF a < b THEN b ELSE a

\* Mutant: an item that was asked for is not asked for again.
AskForOnce(p) ==
  IF nRequestTime # -1 THEN UNCHANGED <<nRequestTime, askFor>>
  ELSE nRequestTime' = 0 /\ askFor' = [askFor EXCEPT ![p] = @ \cup {0}]

\* Each retry is two minutes after the last.
AskFor(p) ==
  LET time == AtLeast(nRequestTime + 1, 0) IN
  /\ nRequestTime' = time
  /\ askFor' = [askFor EXCEPT ![p] = @ \cup {time}]

\* inv from p: what the node has not is put in p's queue.
GetsAnnouncement(p) ==
  /\ p \in connected \ knows
  /\ knows' = knows \cup {p}
  /\ IF received THEN UNCHANGED <<nRequestTime, askFor>> ELSE AskFor(p)
  /\ UNCHANGED <<connected, requested, ours, theirs>>

\* SendMessages: the entries that are due are requested, or dropped when the
\* item has come.
SendsGetData(p) ==
  /\ p \in connected /\ 0 \in askFor[p]
  /\ askFor' = [askFor EXCEPT ![p] = @ \ {0}]
  /\ IF received THEN UNCHANGED <<requested, nRequestTime>>
     ELSE requested' = requested \cup {p} /\ nRequestTime' = 0
  /\ UNCHANGED <<connected, ours, knows, theirs>>

\* RelayMessage: what is past its time leaves mapRelay, and an entry that is
\* there already is not replaced although it gets another expiry.
RelayMessage(known) ==
  /\ inRelay' = TRUE
  /\ vRelayExpiration' = Append(SelectSeq(vRelayExpiration, LAMBDA t : t >= 0), RelayTime)
  /\ toAnnounce' = toAnnounce \cup (connected \ known)

\* tx from p, accepted: it is relayed, which offers it to every peer that is
\* not known to have it.
GetsItem(p) ==
  /\ p \in (connected \cap requested) \ Silent
  /\ requested' = requested \ {p}
  /\ knows' = knows \cup {p}
  /\ IF received THEN UNCHANGED <<ours, toAnnounce, nRequestTime>>
     ELSE /\ received' = TRUE /\ inPool' = TRUE
          /\ RelayMessage(knows')
          /\ nRequestTime' = -1
  /\ UNCHANGED <<connected, askFor, wants, got>>

\* The wallet relays its transaction again while no block has it.
WalletRelays ==
  /\ inPool /\ Len(vRelayExpiration) < 2
  /\ RelayMessage(knows)
  /\ UNCHANGED <<connected, nRequestTime, askFor, requested, received, inPool, knows, wants, got>>

\* SendMessages: a peer that came to know the item meanwhile is left out, and an
\* item may wait until the peer's turn to trickle.
Announces(p) ==
  /\ p \in toAnnounce
  /\ toAnnounce' = toAnnounce \ {p}
  /\ knows' = knows \cup {p}
  /\ wants' = IF p \in knows THEN wants ELSE wants \cup {p}
  /\ UNCHANGED <<connected, nRequestTime, askFor, requested, ours, got>>

\* getdata from p: answered from mapRelay or from the pool, or not at all.
Serves(p) ==
  /\ p \in wants
  /\ wants' = wants \ {p}
  /\ got' = IF inRelay \/ inPool THEN got \cup {p} ELSE got
  /\ UNCHANGED <<connected, nRequestTime, askFor, requested, ours, knows, toAnnounce>>

\* A block takes the item out of the pool.
Confirmed ==
  /\ inPool
  /\ inPool' = FALSE
  /\ UNCHANGED <<connected, nRequestTime, askFor, requested, received, inRelay,
                 vRelayExpiration, knows, theirs>>

\* The relay of something else drops the item at its first expiry.
OtherRelayed ==
  /\ \E i \in DOMAIN vRelayExpiration : vRelayExpiration[i] < 0
  /\ inRelay' = FALSE
  /\ vRelayExpiration' = SelectSeq(vRelayExpiration, LAMBDA t : t >= 0)
  /\ UNCHANGED <<connected, nRequestTime, askFor, requested, received, inPool, knows, theirs>>

\* A peer disconnects: its queues go with it.
Disconnects(p) ==
  /\ p \in connected
  /\ connected' = connected \ {p}
  /\ askFor' = [askFor EXCEPT ![p] = {}]
  /\ requested' = requested \ {p}
  /\ toAnnounce' = toAnnounce \ {p} /\ wants' = wants \ {p}
  /\ UNCHANGED <<nRequestTime, ours, knows, got>>

TwoMinutes ==
  /\ nRequestTime' = AtLeast(nRequestTime - 1, -1)
  /\ askFor' = [p \in RelayPeers |-> {AtLeast(t - 1, 0) : t \in askFor[p]}]
  /\ vRelayExpiration' = [i \in DOMAIN vRelayExpiration |-> AtLeast(vRelayExpiration[i] - 1, -1)]
  /\ UNCHANGED <<connected, requested, received, inPool, inRelay, knows, theirs>>

PeerRelays(p) == GetsItem(p) \/ Announces(p) \/ Serves(p) \/ SendsGetData(p)

RelayNext ==
  \/ \E p \in RelayPeers : PeerRelays(p) \/ GetsAnnouncement(p) \/ Disconnects(p)
  \/ WalletRelays \/ Confirmed \/ OtherRelayed \/ TwoMinutes

RelayFairness ==
  /\ \A p \in RelayPeers : WF_relayVars(PeerRelays(p))
  /\ WF_relayVars(TwoMinutes)

RelaySpec == RelayInit /\ [][RelayNext]_relayVars /\ RelayFairness

----------------------------------------------------------------------------

\* However many peers announced the item and never sent it, the node receives
\* it when one of those that announced it sends what it is asked for and stays;
\* and then every peer that stays hears of it and is sent it, if it asks for it
\* before a block has taken it.
ItemTravels ==
  /\ \A p \in RelayPeers \ Silent :
       (p \in knows /\ ~received) ~> (received \/ p \notin connected)
  /\ \A p \in RelayPeers :
       /\ received ~> (p \in knows \/ p \notin connected)
       /\ (p \in wants /\ inPool) ~> (p \in got \/ ~inPool \/ p \notin connected)
=============================================================================
