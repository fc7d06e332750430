----------------------------- MODULE Handshake -----------------------------
(***************************************************************************)
(* How two nodes agree on a protocol version: the version and verack       *)
(* messages of main.cpp, over connections that may lead a node to itself.  *)
(*                                                                         *)
(* Each connection has an outbound end, at the node that opened it, and an *)
(* inbound end.  Every message carries the version it was serialised with. *)
(***************************************************************************)
EXTENDS Integers, Sequences, FiniteSets

CONSTANTS
  Hosts,           \* nodes
  PROTOCOL_VERSION,\* PROTOCOL_VERSION[h]: the version each was built with
  Connections,     \* connections that may be opened
  Opener, Target,  \* the node at the outbound and at the inbound end of each
  MIN_PROTO_VERSION

ASSUME HandshakeAssumption ==
  /\ Opener \in [Connections -> Hosts] /\ Target \in [Connections -> Hosts]
  /\ PROTOCOL_VERSION \in [Hosts -> Nat]
  /\ MIN_PROTO_VERSION \in Nat \ {0}

VARIABLES
  nLocalHostNonce, \* the nonce each node sent last
  nextNonce,       \* a nonce that was never sent
  opened,          \* connections that were opened
  nVersion,        \* what each end knows of the other, 0 for nothing
  fSuccessfullyConnected, closing, \* ends with the flag (fDisconnect)
  sendVersion, recvVersion, \* nVersion of vSend and vRecv
  inbox            \* messages under way to each end

handshakeVars == <<nLocalHostNonce, nextNonce, opened, nVersion, fSuccessfullyConnected,
                   closing, sendVersion, recvVersion, inbox>>

Ends == Connections \X {"out", "in"}
HostOf(e) == IF e[2] = "out" THEN Opener[e[1]] ELSE Target[e[1]]
Other(e) == <<e[1], IF e[2] = "out" THEN "in" ELSE "out">>
Lower(a, b) == IF a < b THEN a ELSE b

HandshakeInit ==
  /\ nLocalHostNonce = [h \in Hosts |-> 0] /\ nextNonce = 1
  /\ opened = {}
  /\ nVersion = [e \in Ends |-> 0]
  /\ fSuccessfullyConnected = {} /\ closing = {}
  /\ sendVersion = [e \in Ends |-> MIN_PROTO_VERSION]
  /\ recvVersion = [e \in Ends |-> MIN_PROTO_VERSION]
  /\ inbox = [e \in Ends |-> <<>>]

Version(h, nonce) ==
  [type |-> "version", enc |-> MIN_PROTO_VERSION, version |-> PROTOCOL_VERSION[h], nonce |-> nonce]
Plain(type, enc) == [type |-> type, enc |-> enc]

\* PushVersion overwrites the nonce of the whole node.
PushesVersion(h) ==
  /\ nLocalHostNonce' = [nLocalHostNonce EXCEPT ![h] = nextNonce]
  /\ nextNonce' = nextNonce + 1

\* Mutant: an outbound end is shy too.
OpensShyly(c) ==
  /\ c \notin opened
  /\ opened' = opened \cup {c}
  /\ UNCHANGED <<nLocalHostNonce, nextNonce, nVersion, fSuccessfullyConnected, closing,
                 sendVersion, recvVersion, inbox>>

\* The constructor of an outbound CNode sends the version; an inbound one is shy.
Opens(c) ==
  /\ c \notin opened
  /\ opened' = opened \cup {c}
  /\ PushesVersion(Opener[c])
  /\ inbox' = [inbox EXCEPT ![<<c, "in">>] = Append(@, Version(Opener[c], nextNonce))]
  /\ UNCHANGED <<nVersion, fSuccessfullyConnected, closing, sendVersion, recvVersion>>

\* The message at the head, and what is sent in answer.
Takes(e, type) == inbox[e] # <<>> /\ Head(inbox[e]).type = type
Answers(e, messages) ==
  inbox' = [inbox EXCEPT ![e] = Tail(@), ![Other(e)] = @ \o messages]

\* Mutant: a node talks in its own version.
OwnVersion(h, v) == PROTOCOL_VERSION[h]

\* Both ends fall back to the lower version.
CommonVersion(h, v) == Lower(v, PROTOCOL_VERSION[h])

GivesUp(e, v) ==
  /\ nVersion' = [nVersion EXCEPT ![e] = v]
  /\ closing' = closing \cup {e}
  /\ Answers(e, <<>>)
  /\ UNCHANGED <<nLocalHostNonce, nextNonce, opened, fSuccessfullyConnected, sendVersion, recvVersion>>

IsSelf(e) == Head(inbox[e]).nonce = nLocalHostNonce[HostOf(e)]

\* version: an obsolete peer and the node itself are given up.  An inbound end
\* sends its own version now; the verack is the last message in the old encoding,
\* and an outbound end goes on with its address and a request for others.
GetsVersion(e) ==
  LET v      == Head(inbox[e]).version
      common == CommonVersion(HostOf(e), v)
      first  == IF e[2] = "in" THEN <<Version(HostOf(e), nextNonce)>> ELSE <<>>
      more   == IF e[2] = "out" THEN <<Plain("addr", common), Plain("getaddr", common)>> ELSE <<>>
  IN  /\ Takes(e, "version") /\ nVersion[e] = 0
      /\ IF v < MIN_PROTO_VERSION \/ IsSelf(e) THEN GivesUp(e, v)
         ELSE /\ nVersion' = [nVersion EXCEPT ![e] = v]
              /\ IF e[2] = "in" THEN PushesVersion(HostOf(e))
                 ELSE UNCHANGED <<nLocalHostNonce, nextNonce>>
              /\ Answers(e, first \o <<Plain("verack", sendVersion[e])>> \o more)
              /\ sendVersion' = [sendVersion EXCEPT ![e] = common]
              /\ fSuccessfullyConnected' = fSuccessfullyConnected \cup {e}
              /\ UNCHANGED <<opened, closing, recvVersion>>

\* verack: what follows is in the common version.
GetsVerack(e) ==
  /\ Takes(e, "verack")
  /\ recvVersion' = IF nVersion[e] = 0 THEN recvVersion
                    ELSE [recvVersion EXCEPT ![e] = CommonVersion(HostOf(e), nVersion[e])]
  /\ Answers(e, <<>>)
  /\ UNCHANGED <<nLocalHostNonce, nextNonce, opened, nVersion, fSuccessfullyConnected,
                 closing, sendVersion>>

\* getaddr is answered with addresses, addr is stored; before the version
\* message both are refused.
GetsOther(e) ==
  /\ Takes(e, "getaddr") \/ Takes(e, "addr")
  /\ Answers(e, IF Takes(e, "getaddr") /\ nVersion[e] # 0
                THEN <<Plain("addr", sendVersion[e])>> ELSE <<>>)
  /\ UNCHANGED <<nLocalHostNonce, nextNonce, opened, nVersion, fSuccessfullyConnected,
                 closing, sendVersion, recvVersion>>

\* ThreadMessageHandler leaves out the ends that are to be closed, but a run of
\* ProcessMessages that has begun goes on to the end of the buffer.
Handles(e) ==
  GetsVersion(e) \/ GetsVerack(e) \/ GetsOther(e)

\* The socket goes: both ends are gone with what was under way.
Closes(e) ==
  /\ e \in closing
  /\ Other(e) \notin closing \/ inbox[e] # <<>> \/ inbox[Other(e)] # <<>>
  /\ closing' = closing \cup {Other(e)}
  /\ inbox' = [inbox EXCEPT ![e] = <<>>, ![Other(e)] = <<>>]
  /\ UNCHANGED <<nLocalHostNonce, nextNonce, opened, nVersion, fSuccessfullyConnected,
                 sendVersion, recvVersion>>

HandshakeNext ==
  \/ \E c \in Connections : Opens(c)
  \/ \E e \in Ends : Handles(e) \/ Closes(e)

HandshakeFairness ==
  \A e \in Ends : WF_handshakeVars(Handles(e) \/ Closes(e))

HandshakeSpec == HandshakeInit /\ [][HandshakeNext]_handshakeVars /\ HandshakeFairness

----------------------------------------------------------------------------

\* No message is read in another version than it was written in, whatever the
\* other end has understood by then.
EncodingsMatch ==
  \A e \in Ends : inbox[e] # <<>> /\ Head(inbox[e]).type # "verack"
                    => Head(inbox[e]).enc = recvVersion[e]

\* Two nodes that are recent enough always come to talk to each other, however
\* many connections each opens meanwhile: no end waits for ever, and none is
\* taken for the node itself.
HandshakeCompletes ==
  \A c \in {d \in Connections : Opener[d] # Target[d]
                                /\ PROTOCOL_VERSION[Opener[d]] >= MIN_PROTO_VERSION
                                /\ PROTOCOL_VERSION[Target[d]] >= MIN_PROTO_VERSION} :
    c \in opened ~> {<<c, "out">>, <<c, "in">>} \subseteq fSuccessfullyConnected \ closing

\* A connection to the node itself is recognised.  It is not when the node opens
\* another one meanwhile, as there is one nonce for all (net.cpp:554).
SelfIsDetected ==
  \A c \in {d \in Connections : Opener[d] = Target[d]} :
    c \in opened ~> {<<c, "out">>, <<c, "in">>} \cap closing # {}
=============================================================================
