--------------------------- MODULE NetworkProofs ---------------------------
(***************************************************************************)
(* Theorems about what nodes tell each other: in which version a message   *)
(* is written and read, which alerts stand and who knows them, the last    *)
(* block two branches share as a locator describes it, and the messages    *)
(* that are cut out of the bytes a socket delivers.                        *)
(***************************************************************************)
EXTENDS Handshake, Clock, Locator, Framing, SequenceTheorems, Recursion

----------------------------------------------------------------------------
(* The handshake.  What is under way on a connection and what its ends know *)
(* of each other go through a few phases together.                          *)

\* Sequences of up to three members.
LEMMA ShortSequences ==
  /\ \A a : Tail(<<a>>) = <<>> /\ Head(<<a>>) = a /\ <<a>> # <<>>
  /\ \A a, b : Tail(<<a, b>>) = <<b>> /\ Head(<<a, b>>) = a /\ <<a, b>> # <<>>
  /\ \A a, b, c : Tail(<<a, b, c>>) = <<b, c>> /\ Head(<<a, b, c>>) = a /\ <<a, b, c>> # <<>>
  OBVIOUS

LEMMA ShortConcatenations ==
  /\ <<>> \o <<>> = <<>>
  /\ \A a : <<>> \o <<a>> = <<a>> /\ <<a>> \o <<>> = <<a>>
  /\ \A a, b : /\ <<>> \o <<a, b>> = <<a, b>> /\ <<a, b>> \o <<>> = <<a, b>>
               /\ <<a>> \o <<b>> = <<a, b>>
  /\ \A a, b, c : /\ <<>> \o <<a, b, c>> = <<a, b, c>> /\ <<a, b, c>> \o <<>> = <<a, b, c>>
                  /\ <<a>> \o <<b, c>> = <<a, b, c>>
<1> SUFFICES ASSUME NEW a, NEW b, NEW c
             PROVE  /\ <<>> \o <<>> = <<>> /\ <<>> \o <<a>> = <<a>> /\ <<>> \o <<a, b>> = <<a, b>>
                    /\ <<>> \o <<a, b, c>> = <<a, b, c>>
                    /\ <<a>> \o <<>> = <<a>> /\ <<a, b>> \o <<>> = <<a, b>>
                    /\ <<a, b, c>> \o <<>> = <<a, b, c>>
                    /\ <<a>> \o <<b>> = <<a, b>> /\ <<a>> \o <<b, c>> = <<a, b, c>>
  BY Zenon
<1> DEFINE S == {a, b, c}
<1>1. /\ <<a>> \in Seq(S) /\ <<b>> \in Seq(S) /\ <<a, b>> \in Seq(S) /\ <<b, c>> \in Seq(S)
      /\ <<a, b, c>> \in Seq(S) /\ <<>> \in Seq(S)
  OBVIOUS
<1>2. <<a>> \o <<b>> = <<a, b>>
  <2> DEFINE s == <<a>> \o <<b>>
             t == <<a, b>>
  <2>1. s \in Seq(S) /\ Len(s) = 2
    BY <1>1, ConcatProperties
  <2>2. s[1] = a /\ s[2] = b
    BY <1>1, ConcatProperties
  <2>3. t \in Seq(S) /\ Len(t) = 2 /\ t[1] = a /\ t[2] = b
    BY <1>1
  <2> HIDE DEF s, t, S
  <2>4. \A i \in 1..2 : s[i] = t[i]
    BY <2>2, <2>3
  <2>5. s = t
    BY <2>1, <2>3, <2>4, SeqEqual
  <2> QED
    BY <2>5 DEF s, t
<1>3. <<a>> \o <<b, c>> = <<a, b, c>>
  <2> DEFINE s == <<a>> \o <<b, c>>
             t == <<a, b, c>>
  <2>1. s \in Seq(S) /\ Len(s) = 3
    BY <1>1, ConcatProperties
  <2>2. s[1] = a /\ s[2] = b /\ s[3] = c
    BY <1>1, ConcatProperties
  <2>3. t \in Seq(S) /\ Len(t) = 3 /\ t[1] = a /\ t[2] = b /\ t[3] = c
    BY <1>1
  <2> HIDE DEF s, t, S
  <2>4. \A i \in 1..3 : s[i] = t[i]
    BY <2>2, <2>3
  <2>5. s = t
    BY <2>1, <2>3, <2>4, SeqEqual
  <2> QED
    BY <2>5 DEF s, t
<1>4. <<a>> \o <<>> = <<a>> /\ <<>> \o <<a>> = <<a>>
  BY <1>1
<1>5. <<a, b>> \o <<>> = <<a, b>> /\ <<>> \o <<a, b>> = <<a, b>>
  BY <1>1
<1>6. <<a, b, c>> \o <<>> = <<a, b, c>> /\ <<>> \o <<a, b, c>> = <<a, b, c>>
  BY <1>1
<1>7. <<>> \o <<>> = <<>>
  BY <1>1
<1> QED
  BY <1>2, <1>3, <1>4, <1>5, <1>6, <1>7

Out(c) == <<c, "out">>
In(c) == <<c, "in">>
Both(c) == {Out(c), In(c)}

\* The version the two ends talk in, and the messages that are neither version nor
\* answers to getaddr.
Agreed(c) == Lower(PROTOCOL_VERSION[Opener[c]], PROTOCOL_VERSION[Target[c]])
Verack == Plain("verack", MIN_PROTO_VERSION)
Addr(c) == Plain("addr", Agreed(c))
GetAddr(c) == Plain("getaddr", Agreed(c))

EndsInv ==
  /\ DOMAIN inbox = Ends /\ inbox = [e \in Ends |-> inbox[e]]
  /\ nVersion \in [Ends -> Nat]
  /\ sendVersion \in [Ends -> Nat] /\ recvVersion \in [Ends -> Nat]

\* Nothing was read yet.
Unheard(c) ==
  /\ nVersion[Out(c)] = 0 /\ sendVersion[Out(c)] = MIN_PROTO_VERSION
  /\ \A e \in Both(c) : recvVersion[e] = MIN_PROTO_VERSION

Fresh(c) ==
  /\ Unheard(c)
  /\ nVersion[In(c)] = 0 /\ sendVersion[In(c)] = MIN_PROTO_VERSION
  /\ \A e \in Both(c) : inbox[e] = <<>> /\ e \notin closing

\* The inbound end has still to read the version of the other one.
Greeting(c) ==
  /\ Unheard(c)
  /\ nVersion[In(c)] = 0 /\ sendVersion[In(c)] = MIN_PROTO_VERSION
  /\ inbox[Out(c)] = <<>>
  /\ \E nonce : inbox[In(c)] = <<Version(Opener[c], nonce)>>

\* The inbound end knows the other's version.
InKnows(c) ==
  /\ nVersion[In(c)] = PROTOCOL_VERSION[Opener[c]] /\ nVersion[In(c)] # 0
  /\ sendVersion[In(c)] = Agreed(c)

\* It has answered, and the outbound end has still to read it.
Answering(c) ==
  /\ Unheard(c) /\ InKnows(c)
  /\ inbox[In(c)] = <<>>
  /\ \E nonce : inbox[Out(c)] = <<Version(Target[c], nonce), Verack>>

\* Both know; what is behind a verack is read in the common version.
Talking(c) ==
  /\ InKnows(c)
  /\ nVersion[Out(c)] = PROTOCOL_VERSION[Target[c]] /\ nVersion[Out(c)] # 0
  /\ \/ /\ inbox[In(c)] = <<Verack, Addr(c), GetAddr(c)>>
        /\ recvVersion[In(c)] = MIN_PROTO_VERSION
     \/ /\ inbox[In(c)] \in {<<Addr(c), GetAddr(c)>>, <<GetAddr(c)>>, <<>>}
        /\ recvVersion[In(c)] = Agreed(c)
  /\ \/ /\ inbox[Out(c)] = <<Verack>>
        /\ recvVersion[Out(c)] = MIN_PROTO_VERSION
     \/ /\ inbox[Out(c)] = <<Verack, Addr(c)>> /\ inbox[In(c)] = <<>>
        /\ recvVersion[Out(c)] = MIN_PROTO_VERSION
     \/ /\ inbox[Out(c)] = <<>>
        /\ recvVersion[Out(c)] = Agreed(c)
     \/ /\ inbox[Out(c)] = <<Addr(c)>> /\ inbox[In(c)] = <<>>
        /\ recvVersion[Out(c)] = Agreed(c)

\* An end has given up, or the socket is gone.
Silent(c) ==
  inbox[In(c)] = <<>> /\ inbox[Out(c)] \in {<<>>, <<Verack>>}

Conversation(c) ==
  IF c \in opened THEN Greeting(c) \/ Answering(c) \/ Talking(c) \/ Silent(c) ELSE Fresh(c)

HandshakeInv == EndsInv /\ \A c \in Connections : Conversation(c)

\* The ends of a connection, and what is said there.
LEMMA EndsOfConnection ==
  ASSUME NEW c \in Connections
  PROVE  /\ Out(c) \in Ends /\ In(c) \in Ends /\ Out(c) # In(c)
         /\ Other(Out(c)) = In(c) /\ Other(In(c)) = Out(c)
         /\ HostOf(Out(c)) = Opener[c] /\ HostOf(In(c)) = Target[c]
         /\ Out(c)[2] = "out" /\ In(c)[2] = "in"
         /\ PROTOCOL_VERSION[Opener[c]] \in Nat /\ PROTOCOL_VERSION[Target[c]] \in Nat
         /\ Agreed(c) \in Nat
         /\ Agreed(c) = Lower(PROTOCOL_VERSION[Target[c]], PROTOCOL_VERSION[Opener[c]])
         /\ MIN_PROTO_VERSION \in Nat \ {0}
  BY HandshakeAssumption DEF Out, In, Ends, Other, HostOf, Agreed, Lower

LEMMA EndIsOne ==
  ASSUME NEW e \in Ends
  PROVE  \E c \in Connections : e \in Both(c) /\ e[1] = c
  BY DEF Ends, Both, Out, In

LEMMA MessageTypes ==
  /\ \A h, n : Version(h, n).type = "version" /\ Version(h, n).enc = MIN_PROTO_VERSION
               /\ Version(h, n).version = PROTOCOL_VERSION[h]
  /\ Verack.type = "verack"
  /\ \A c : /\ Addr(c).type = "addr" /\ Addr(c).enc = Agreed(c)
            /\ GetAddr(c).type = "getaddr" /\ GetAddr(c).enc = Agreed(c)
  BY DEF Version, Verack, Addr, GetAddr, Plain

LEMMA HandshakeInitInv == HandshakeInit => HandshakeInv
<1> SUFFICES ASSUME HandshakeInit PROVE HandshakeInv
  OBVIOUS
<1>1. EndsInv
  BY HandshakeAssumption DEF HandshakeInit, EndsInv
<1>2. ASSUME NEW c \in Connections PROVE Conversation(c)
  BY EndsOfConnection DEF HandshakeInit, Conversation, Fresh, Unheard, Both
<1> QED
  BY <1>1, <1>2 DEF HandshakeInv

\* The property, on one connection.
LEMMA ConversationMatches ==
  ASSUME NEW c \in Connections, Conversation(c), NEW e \in Both(c), inbox[e] # <<>>,
         Head(inbox[e]).type # "verack"
  PROVE  Head(inbox[e]).enc = recvVersion[e]
<1> USE EndsOfConnection, MessageTypes, ShortSequences DEF Both
<1>1. CASE Fresh(c)
  BY <1>1 DEF Fresh
<1>2. CASE Greeting(c)
  BY <1>2 DEF Greeting, Unheard
<1>3. CASE Answering(c)
  BY <1>3 DEF Answering, Unheard
<1>4. CASE Talking(c)
  BY <1>4 DEF Talking
<1>5. CASE Silent(c)
  BY <1>5 DEF Silent
<1> QED
  BY <1>1, <1>2, <1>3, <1>4, <1>5 DEF Conversation

\* What becomes of the messages when one is taken and answered.
LEMMA AnswersEffect ==
  ASSUME EndsInv, NEW c \in Connections, NEW e \in Both(c), NEW messages, Answers(e, messages)
  PROVE  /\ DOMAIN inbox' = Ends /\ inbox' = [d \in Ends |-> inbox'[d]]
         /\ inbox'[e] = Tail(inbox[e])
         /\ inbox'[Other(e)] = inbox[Other(e)] \o messages
         /\ \A d \in Ends \ Both(c) : inbox'[d] = inbox[d]
<1>1. /\ e \in Ends /\ Other(e) \in Ends /\ e # Other(e) /\ Both(c) = {e, Other(e)}
  BY EndsOfConnection DEF Both
<1> QED
  BY <1>1 DEF Answers, EndsInv

LEMMA InAnswers ==
  ASSUME EndsInv, NEW c \in Connections, NEW messages, Answers(In(c), messages)
  PROVE  inbox'[In(c)] = Tail(inbox[In(c)]) /\ inbox'[Out(c)] = inbox[Out(c)] \o messages
<1>1. In(c) \in Both(c) /\ Other(In(c)) = Out(c)
  BY EndsOfConnection DEF Both
<1> QED
  BY <1>1, AnswersEffect

LEMMA OutAnswers ==
  ASSUME EndsInv, NEW c \in Connections, NEW messages, Answers(Out(c), messages)
  PROVE  inbox'[Out(c)] = Tail(inbox[Out(c)]) /\ inbox'[In(c)] = inbox[In(c)] \o messages
<1>1. Out(c) \in Both(c) /\ Other(Out(c)) = In(c)
  BY EndsOfConnection DEF Both
<1> QED
  BY <1>1, AnswersEffect

\* What is true of one connection does not depend on the others.
LEMMA Elsewhere ==
  ASSUME NEW c \in Connections, Conversation(c),
         \A e \in Both(c) : /\ inbox'[e] = inbox[e] /\ nVersion'[e] = nVersion[e]
                            /\ sendVersion'[e] = sendVersion[e] /\ recvVersion'[e] = recvVersion[e]
                            /\ (e \in closing') = (e \in closing),
         (c \in opened') = (c \in opened)
  PROVE  Conversation(c)'
<1>1. ASSUME NEW e \in Both(c)
      PROVE  /\ inbox'[e] = inbox[e] /\ nVersion'[e] = nVersion[e]
             /\ sendVersion'[e] = sendVersion[e] /\ recvVersion'[e] = recvVersion[e]
  OBVIOUS
<1>2. In(c) \in Both(c) /\ Out(c) \in Both(c)
  BY DEF Both
<1>3. Unheard(c) => Unheard(c)'
  BY <1>1, <1>2 DEF Unheard
<1>4. InKnows(c) => InKnows(c)'
  BY <1>1, <1>2 DEF InKnows
<1>5. Fresh(c) => Fresh(c)'
  BY <1>1, <1>2, <1>3 DEF Fresh
<1>6. Greeting(c) => Greeting(c)'
  BY <1>1, <1>2, <1>3 DEF Greeting
<1>7. Answering(c) => Answering(c)'
  BY <1>1, <1>2, <1>3, <1>4 DEF Answering
<1>8. Talking(c) => Talking(c)'
  BY <1>1, <1>2, <1>4 DEF Talking
<1>9. Silent(c) => Silent(c)'
  BY <1>1, <1>2 DEF Silent
<1> QED
  BY <1>5, <1>6, <1>7, <1>8, <1>9 DEF Conversation

\* Connections have no end in common.
LEMMA EndsDiffer ==
  ASSUME NEW c \in Connections, NEW d \in Connections, c # d, NEW e \in Both(d)
  PROVE  e \in Ends \ Both(c)
<1>1. e \in Ends /\ e[1] = d
  BY DEF Both, In, Out, Ends
<1>2. \A x \in Both(c) : x[1] = c
  BY DEF Both, In, Out
<1> QED
  BY <1>1, <1>2

LEMMA OpensKeeps ==
  ASSUME HandshakeInv, NEW c \in Connections, Opens(c)
  PROVE  HandshakeInv'
<1> USE EndsOfConnection
<1>1. EndsInv'
  BY DEF HandshakeInv, EndsInv, Opens
<1>2. Greeting(c)'
  <2>1. Fresh(c)
    BY DEF HandshakeInv, Conversation, Opens
  <2>2. Append(<<>>, Version(Opener[c], nextNonce)) = <<Version(Opener[c], nextNonce)>>
    OBVIOUS
  <2>3. inbox'[In(c)] = <<Version(Opener[c], nextNonce)>> /\ inbox'[Out(c)] = <<>>
    BY <2>1, <2>2 DEF Fresh, Opens, HandshakeInv, EndsInv, Both, In
  <2>4. Unheard(c)'
    BY <2>1 DEF Fresh, Opens, Unheard, Both
  <2>5. nVersion'[In(c)] = 0 /\ sendVersion'[In(c)] = MIN_PROTO_VERSION
    BY <2>1 DEF Fresh, Opens
  <2> QED
    BY <2>3, <2>4, <2>5 DEF Greeting
<1>3. ASSUME NEW d \in Connections PROVE Conversation(d)'
  <2>1. CASE d = c
    BY <2>1, <1>2 DEF Conversation, Opens
  <2>2. CASE d # c
    <3>1. \A e \in Both(d) : e \in Ends /\ e # In(c)
      BY <2>2, EndsDiffer DEF Both
    <3>2. \A e \in Both(d) : inbox'[e] = inbox[e]
      BY <3>1 DEF Opens, HandshakeInv, EndsInv, In
    <3> QED
      BY <2>2, <3>2, Elsewhere DEF HandshakeInv, Opens
  <2> QED
    BY <2>1, <2>2
<1> QED
  BY <1>1, <1>3 DEF HandshakeInv

\* A step of one end of a connection, which keeps what is true of this connection,
\* keeps what is true of all.
LEMMA OneConnection ==
  ASSUME HandshakeInv, EndsInv', NEW c \in Connections, Conversation(c)',
         \A e \in Ends \ Both(c) : /\ inbox'[e] = inbox[e] /\ nVersion'[e] = nVersion[e]
                                   /\ sendVersion'[e] = sendVersion[e] /\ recvVersion'[e] = recvVersion[e]
                                   /\ (e \in closing') = (e \in closing),
         opened' = opened
  PROVE  HandshakeInv'
<1>1. ASSUME NEW d \in Connections PROVE Conversation(d)'
  <2>1. CASE d = c
    BY <2>1
  <2>2. CASE d # c
    <3>1. \A e \in Both(d) : e \in Ends \ Both(c)
      BY <2>2, EndsDiffer
    <3> QED
      BY <3>1, Elsewhere DEF HandshakeInv
  <2> QED
    BY <2>1, <2>2
<1> QED
  BY <1>1 DEF HandshakeInv

\* Only where a conversation is under way is there something to take.
LEMMA TakesInOpened ==
  ASSUME NEW c \in Connections, Conversation(c), NEW e \in Both(c), inbox[e] # <<>>
  PROVE  c \in opened
  BY DEF Conversation, Fresh

\* The inbound end reads the other's version and answers with its own.
LEMMA InGetsVersion ==
  ASSUME EndsInv, NEW c \in Connections, Conversation(c), GetsVersion(In(c))
  PROVE  Conversation(c)'
<1>1. c \in opened /\ c \in opened'
  BY EndsOfConnection, TakesInOpened DEF GetsVersion, Takes, GivesUp, Both
<1>2. Greeting(c)
  BY MessageTypes, ShortSequences, <1>1 DEF Conversation, Greeting, Answering, Talking, Silent, GetsVersion, Takes
<1>3. PICK nonce : inbox[In(c)] = <<Version(Opener[c], nonce)>>
  BY <1>2 DEF Greeting
<1> DEFINE v == Head(inbox[In(c)]).version
<1>4. v = PROTOCOL_VERSION[Opener[c]] /\ v \in Nat
  BY EndsOfConnection, MessageTypes, ShortSequences, <1>3
<1>5. CASE v < MIN_PROTO_VERSION \/ IsSelf(In(c))
  <2>1. Answers(In(c), <<>>)
    BY <1>5 DEF GetsVersion, GivesUp
  <2>2. inbox'[In(c)] = <<>> /\ inbox'[Out(c)] = <<>>
    <3>1. inbox'[In(c)] = Tail(inbox[In(c)]) /\ inbox'[Out(c)] = inbox[Out(c)] \o <<>>
      BY <2>1, InAnswers
    <3>2. inbox[Out(c)] = <<>>
      BY <1>2 DEF Greeting
    <3> QED
      BY <3>1, <3>2, <1>3, ShortSequences, ShortConcatenations
  <2> QED
    BY <2>2, <1>1 DEF Conversation, Silent
<1>6. CASE ~ (v < MIN_PROTO_VERSION \/ IsSelf(In(c)))
  <2> DEFINE answer == <<Version(Target[c], nextNonce)>> \o <<Verack>> \o <<>>
  <2>1. answer = <<Version(Target[c], nextNonce), Verack>>
    BY ShortConcatenations
  <2>2. sendVersion[In(c)] = MIN_PROTO_VERSION
    BY <1>2 DEF Greeting
  <2>3. Answers(In(c), answer)
    BY EndsOfConnection, <1>6, <2>2 DEF GetsVersion, Verack
  <2>4. inbox'[In(c)] = <<>> /\ inbox'[Out(c)] = <<Version(Target[c], nextNonce), Verack>>
    <3> HIDE DEF answer
    <3>1. inbox'[In(c)] = Tail(inbox[In(c)]) /\ inbox'[Out(c)] = inbox[Out(c)] \o answer
      BY <2>3, InAnswers
    <3>2. inbox[Out(c)] = <<>>
      BY <1>2 DEF Greeting
    <3> QED
      BY <3>1, <3>2, <2>1, <1>3, ShortSequences, ShortConcatenations
  <2>5. /\ nVersion' = [nVersion EXCEPT ![In(c)] = v] /\ recvVersion' = recvVersion
        /\ sendVersion' = [sendVersion EXCEPT ![In(c)] = Agreed(c)]
    BY EndsOfConnection, <1>4, <1>6 DEF GetsVersion, CommonVersion, Agreed
  <2>6. InKnows(c)'
    BY EndsOfConnection, <2>5, <1>4, <1>6 DEF InKnows, EndsInv
  <2>7. Unheard(c)'
    BY EndsOfConnection, <2>5, <1>2 DEF Greeting, Unheard, EndsInv, Both
  <2> QED
    BY <1>1, <2>4, <2>6, <2>7 DEF Conversation, Answering
<1> QED
  BY <1>5, <1>6

\* The outbound end reads the answer; from now on both know the version they talk in.
LEMMA OutGetsVersion ==
  ASSUME EndsInv, NEW c \in Connections, Conversation(c), GetsVersion(Out(c))
  PROVE  Conversation(c)'
<1>1. c \in opened /\ c \in opened'
  BY EndsOfConnection, TakesInOpened DEF GetsVersion, Takes, GivesUp, Both
<1>2. Answering(c)
  BY MessageTypes, ShortSequences, <1>1 DEF Conversation, Greeting, Answering, Talking, Silent, GetsVersion, Takes
<1>3. PICK nonce : inbox[Out(c)] = <<Version(Target[c], nonce), Verack>>
  BY <1>2 DEF Answering
<1> DEFINE v == Head(inbox[Out(c)]).version
<1>4. v = PROTOCOL_VERSION[Target[c]] /\ v \in Nat
  BY EndsOfConnection, MessageTypes, ShortSequences, <1>3
<1>5. CASE v < MIN_PROTO_VERSION \/ IsSelf(Out(c))
  <2>1. Answers(Out(c), <<>>)
    BY <1>5 DEF GetsVersion, GivesUp
  <2>2. inbox'[In(c)] = <<>> /\ inbox'[Out(c)] = <<Verack>>
    <3>1. inbox'[Out(c)] = Tail(inbox[Out(c)]) /\ inbox'[In(c)] = inbox[In(c)] \o <<>>
      BY <2>1, OutAnswers
    <3>2. inbox[In(c)] = <<>>
      BY <1>2 DEF Answering
    <3> QED
      BY <3>1, <3>2, <1>3, ShortSequences, ShortConcatenations
  <2> QED
    BY <2>2, <1>1 DEF Conversation, Silent
<1>6. CASE ~ (v < MIN_PROTO_VERSION \/ IsSelf(Out(c)))
  <2> DEFINE answer == <<>> \o <<Verack>> \o <<Addr(c), GetAddr(c)>>
  <2>1. answer = <<Verack, Addr(c), GetAddr(c)>>
    BY ShortConcatenations
  <2>2. sendVersion[Out(c)] = MIN_PROTO_VERSION
    BY <1>2 DEF Answering, Unheard
  <2>0. CommonVersion(Opener[c], v) = Agreed(c)
    BY EndsOfConnection, <1>4 DEF CommonVersion
  <2>3. Answers(Out(c), answer)
    BY EndsOfConnection, <1>6, <2>0, <2>2 DEF GetsVersion, Verack, Addr, GetAddr
  <2>4. inbox'[Out(c)] = <<Verack>> /\ inbox'[In(c)] = <<Verack, Addr(c), GetAddr(c)>>
    <3> HIDE DEF answer
    <3>1. inbox'[Out(c)] = Tail(inbox[Out(c)]) /\ inbox'[In(c)] = inbox[In(c)] \o answer
      BY <2>3, OutAnswers
    <3>2. inbox[In(c)] = <<>>
      BY <1>2 DEF Answering
    <3> QED
      BY <3>1, <3>2, <2>1, <1>3, ShortSequences, ShortConcatenations
  <2>5. /\ nVersion' = [nVersion EXCEPT ![Out(c)] = v] /\ recvVersion' = recvVersion
        /\ sendVersion' = [sendVersion EXCEPT ![Out(c)] = Agreed(c)]
    BY EndsOfConnection, <1>4, <1>6, <2>0 DEF GetsVersion
  <2>6. InKnows(c)' /\ nVersion'[Out(c)] = PROTOCOL_VERSION[Target[c]] /\ nVersion'[Out(c)] # 0
    BY EndsOfConnection, <2>5, <1>2, <1>4, <1>6 DEF Answering, InKnows, EndsInv
  <2>7. recvVersion'[In(c)] = MIN_PROTO_VERSION /\ recvVersion'[Out(c)] = MIN_PROTO_VERSION
    BY EndsOfConnection, <2>5, <1>2 DEF Answering, Unheard, Both
  <2> QED
    BY <1>1, <2>4, <2>6, <2>7 DEF Conversation, Talking
<1> QED
  BY <1>5, <1>6

\* A verack is the last message in the old version.
LEMMA InGetsVerack ==
  ASSUME EndsInv, NEW c \in Connections, Conversation(c), GetsVerack(In(c))
  PROVE  Conversation(c)'
<1>1. c \in opened /\ opened' = opened
  BY TakesInOpened DEF GetsVerack, Takes, Both
<1>2. Talking(c) /\ inbox[In(c)] = <<Verack, Addr(c), GetAddr(c)>>
  BY MessageTypes, ShortSequences, <1>1 DEF Conversation, Greeting, Answering, Talking, Silent, GetsVerack, Takes
<1>3. InKnows(c) /\ nVersion' = nVersion /\ sendVersion' = sendVersion
  BY <1>2 DEF Talking, GetsVerack
<1>4. CommonVersion(Target[c], nVersion[In(c)]) = Agreed(c)
  BY <1>3 DEF InKnows, CommonVersion, Agreed
<1>5. recvVersion' = [recvVersion EXCEPT ![In(c)] = Agreed(c)]
  BY <1>3, <1>4, EndsOfConnection DEF GetsVerack, InKnows
<1>6. recvVersion'[In(c)] = Agreed(c) /\ recvVersion'[Out(c)] = recvVersion[Out(c)]
  BY <1>5, EndsOfConnection DEF EndsInv
<1>7. inbox'[In(c)] = <<Addr(c), GetAddr(c)>> /\ inbox'[Out(c)] = inbox[Out(c)]
  <2>1. inbox'[In(c)] = Tail(inbox[In(c)]) /\ inbox'[Out(c)] = inbox[Out(c)] \o <<>>
    BY InAnswers DEF GetsVerack
  <2>2. inbox[Out(c)] \in {<<>>, <<Verack>>}
    BY <1>2, ShortSequences DEF Talking
  <2> QED
    BY <2>1, <2>2, <1>2, ShortSequences, ShortConcatenations
<1>8. Talking(c)'
  BY <1>2, <1>3, <1>6, <1>7, ShortSequences DEF Talking, InKnows
<1> QED
  BY <1>1, <1>8 DEF Conversation

LEMMA OutGetsVerack ==
  ASSUME EndsInv, NEW c \in Connections, Conversation(c), GetsVerack(Out(c))
  PROVE  Conversation(c)'
<1>1. c \in opened /\ opened' = opened
  BY TakesInOpened DEF GetsVerack, Takes, Both
<1>2. \/ Talking(c) /\ inbox[Out(c)] = <<Verack>>
      \/ Talking(c) /\ inbox[Out(c)] = <<Verack, Addr(c)>>
      \/ Silent(c) /\ inbox[Out(c)] = <<Verack>>
  BY MessageTypes, ShortSequences, <1>1 DEF Conversation, Greeting, Answering, Talking, Silent, GetsVerack, Takes
<1>3. nVersion' = nVersion /\ sendVersion' = sendVersion
  BY DEF GetsVerack
<1>4. inbox'[Out(c)] = Tail(inbox[Out(c)]) /\ inbox'[In(c)] = inbox[In(c)]
  <2>1. inbox'[Out(c)] = Tail(inbox[Out(c)]) /\ inbox'[In(c)] = inbox[In(c)] \o <<>>
    BY OutAnswers DEF GetsVerack
  <2>2. inbox[In(c)] \in {<<>>, <<GetAddr(c)>>, <<Addr(c), GetAddr(c)>>, <<Verack, Addr(c), GetAddr(c)>>}
    BY <1>2 DEF Talking, Silent
  <2> QED
    BY <2>1, <2>2, ShortConcatenations
<1>5. CASE Silent(c) /\ inbox[Out(c)] = <<Verack>>
  <2>1. Silent(c)'
    BY <1>4, <1>5, ShortSequences DEF Silent
  <2> QED
    BY <2>1, <1>1 DEF Conversation
<1>6. CASE Talking(c)
  <2>1. nVersion[Out(c)] = PROTOCOL_VERSION[Target[c]] /\ nVersion[Out(c)] # 0
    BY <1>6 DEF Talking
  <2>2. CommonVersion(Opener[c], nVersion[Out(c)]) = Agreed(c)
    BY <2>1, EndsOfConnection DEF CommonVersion
  <2>3. recvVersion' = [recvVersion EXCEPT ![Out(c)] = Agreed(c)]
    BY <2>1, <2>2, EndsOfConnection DEF GetsVerack
  <2>4. recvVersion'[Out(c)] = Agreed(c) /\ recvVersion'[In(c)] = recvVersion[In(c)]
    BY <2>3, EndsOfConnection DEF EndsInv
  <2>5. CASE inbox[Out(c)] = <<Verack>>
    <3>1. inbox'[Out(c)] = <<>>
      BY <2>5, <1>4, ShortSequences
    <3>2. Talking(c)'
      BY <1>3, <1>4, <1>6, <2>1, <2>4, <3>1 DEF Talking, InKnows
    <3> QED
      BY <3>2, <1>1 DEF Conversation
  <2>6. CASE inbox[Out(c)] = <<Verack, Addr(c)>>
    <3>1. inbox'[Out(c)] = <<Addr(c)>>
      BY <2>6, <1>4, ShortSequences
    <3>2. inbox[In(c)] = <<>>
      <4>1. <<Verack, Addr(c)>> # <<Verack>> /\ <<Verack, Addr(c)>> # <<>> /\ <<Verack, Addr(c)>> # <<Addr(c)>>
        OBVIOUS
      <4> QED
        BY <1>6, <2>6, <4>1 DEF Talking
    <3>3. Talking(c)'
      BY <1>3, <1>4, <1>6, <2>1, <2>4, <3>1, <3>2 DEF Talking, InKnows
    <3> QED
      BY <3>3, <1>1 DEF Conversation
  <2>7. inbox[Out(c)] = <<Verack>> \/ inbox[Out(c)] = <<Verack, Addr(c)>>
    BY <1>2
  <2> QED
    BY <2>5, <2>6, <2>7
<1> QED
  BY <1>2, <1>5, <1>6

\* Addresses, and the request for them, which is answered in the common version.
LEMMA InGetsOther ==
  ASSUME EndsInv, NEW c \in Connections, Conversation(c), GetsOther(In(c))
  PROVE  Conversation(c)'
<1>1. c \in opened /\ opened' = opened
  BY TakesInOpened DEF GetsOther, Takes, Both
<1>2. Talking(c) /\ inbox[In(c)] \in {<<Addr(c), GetAddr(c)>>, <<GetAddr(c)>>}
  BY MessageTypes, ShortSequences, <1>1 DEF Conversation, Greeting, Answering, Talking, Silent, GetsOther, Takes
<1>3. nVersion' = nVersion /\ sendVersion' = sendVersion /\ recvVersion' = recvVersion
  BY DEF GetsOther
<1>4. inbox[In(c)] # <<>> /\ inbox[In(c)] # <<Verack, Addr(c), GetAddr(c)>>
  <2>1. <<Addr(c), GetAddr(c)>> # <<Verack, Addr(c), GetAddr(c)>> /\ <<GetAddr(c)>> # <<Verack, Addr(c), GetAddr(c)>>
    OBVIOUS
  <2> QED
    BY <1>2, <2>1, ShortSequences
<1>5. recvVersion[In(c)] = Agreed(c) /\ inbox[Out(c)] \in {<<>>, <<Verack>>}
  BY <1>2, <1>4 DEF Talking
<1>6. CASE inbox[In(c)] = <<Addr(c), GetAddr(c)>>
  <2>1. ~ Takes(In(c), "getaddr")
    BY <1>6, MessageTypes, ShortSequences DEF Takes
  <2>2. inbox'[In(c)] = <<GetAddr(c)>> /\ inbox'[Out(c)] = inbox[Out(c)]
    <3>1. Answers(In(c), <<>>)
      BY <2>1 DEF GetsOther
    <3>2. inbox'[In(c)] = Tail(inbox[In(c)]) /\ inbox'[Out(c)] = inbox[Out(c)] \o <<>>
      BY <3>1, InAnswers
    <3> QED
      BY <3>2, <1>5, <1>6, ShortSequences, ShortConcatenations
  <2>3. Talking(c)'
    BY <1>2, <1>3, <1>5, <2>2 DEF Talking, InKnows
  <2> QED
    BY <2>3, <1>1 DEF Conversation
<1>7. CASE inbox[In(c)] = <<GetAddr(c)>>
  <2>1. Takes(In(c), "getaddr")
    BY <1>7, MessageTypes, ShortSequences DEF Takes
  <2>2. Plain("addr", sendVersion[In(c)]) = Addr(c) /\ nVersion[In(c)] # 0
    BY <1>2 DEF Talking, InKnows, Addr
  <2>3. Answers(In(c), <<Addr(c)>>)
    BY <2>1, <2>2 DEF GetsOther
  <2>4. inbox'[In(c)] = <<>> /\ inbox'[Out(c)] = inbox[Out(c)] \o <<Addr(c)>>
    BY <2>3, InAnswers, <1>7, ShortSequences
  <2>5. CASE inbox[Out(c)] = <<>>
    <3>1. inbox'[Out(c)] = <<Addr(c)>>
      BY <2>4, <2>5, ShortConcatenations
    <3>2. recvVersion[Out(c)] = Agreed(c)
      BY <1>2, <2>5, ShortSequences DEF Talking
    <3>3. Talking(c)'
      BY <1>2, <1>3, <1>5, <2>4, <3>1, <3>2 DEF Talking, InKnows
    <3> QED
      BY <3>3, <1>1 DEF Conversation
  <2>6. CASE inbox[Out(c)] = <<Verack>>
    <3>1. inbox'[Out(c)] = <<Verack, Addr(c)>>
      BY <2>4, <2>6, ShortConcatenations
    <3>2. recvVersion[Out(c)] = MIN_PROTO_VERSION
      <4>1. Verack # Addr(c)
        BY MessageTypes
      <4>2. <<Verack>> # <<>> /\ <<Verack>> # <<Addr(c)>> /\ <<Verack>> # <<Verack, Addr(c)>>
        BY <4>1
      <4> QED
        BY <1>2, <2>6, <4>2 DEF Talking
    <3>3. Talking(c)'
      BY <1>2, <1>3, <1>5, <2>4, <3>1, <3>2 DEF Talking, InKnows
    <3> QED
      BY <3>3, <1>1 DEF Conversation
  <2> QED
    BY <2>5, <2>6, <1>5
<1> QED
  BY <1>2, <1>6, <1>7

LEMMA OutGetsOther ==
  ASSUME EndsInv, NEW c \in Connections, Conversation(c), GetsOther(Out(c))
  PROVE  Conversation(c)'
<1>1. c \in opened /\ opened' = opened
  BY TakesInOpened DEF GetsOther, Takes, Both
<1>2. Talking(c) /\ inbox[Out(c)] = <<Addr(c)>> /\ inbox[In(c)] = <<>>
  BY MessageTypes, ShortSequences, <1>1 DEF Conversation, Greeting, Answering, Talking, Silent, GetsOther, Takes
<1>3. nVersion' = nVersion /\ sendVersion' = sendVersion /\ recvVersion' = recvVersion
  BY DEF GetsOther
<1>4. recvVersion[Out(c)] = Agreed(c)
  <2>1. <<Addr(c)>> # <<Verack>> /\ <<Addr(c)>> # <<Verack, Addr(c)>> /\ <<Addr(c)>> # <<>>
    BY MessageTypes
  <2> QED
    BY <1>2, <2>1 DEF Talking
<1>5. ~ Takes(Out(c), "getaddr")
  BY <1>2, MessageTypes, ShortSequences DEF Takes
<1>6. Answers(Out(c), <<>>)
  BY <1>5 DEF GetsOther
<1>7. inbox'[Out(c)] = <<>> /\ inbox'[In(c)] = <<>>
  BY <1>6, <1>2, OutAnswers, ShortSequences, ShortConcatenations
<1>8. Talking(c)'
  BY <1>2, <1>3, <1>4, <1>7 DEF Talking, InKnows
<1> QED
  BY <1>8, <1>1 DEF Conversation

LEMMA ClosesKeeps ==
  ASSUME EndsInv, NEW c \in Connections, Conversation(c), NEW e \in Both(c), Closes(e)
  PROVE  Conversation(c)'
<1>1. c \in opened /\ opened' = opened
  BY DEF Closes, Conversation, Fresh
<1>2. inbox'[In(c)] = <<>> /\ inbox'[Out(c)] = <<>>
  BY EndsOfConnection DEF Closes, EndsInv, Both
<1>3. Silent(c)'
  BY <1>2 DEF Silent
<1> QED
  BY <1>1, <1>3 DEF Conversation

\* The steps of an end leave the other connections alone.
LEMMA StaysOnConnection ==
  ASSUME EndsInv, NEW c \in Connections, NEW e \in Both(c), Conversation(c),
         Handles(e) \/ Closes(e)
  PROVE  /\ EndsInv' /\ opened' = opened
         /\ \A d \in Ends \ Both(c) : /\ inbox'[d] = inbox[d] /\ nVersion'[d] = nVersion[d]
                                      /\ sendVersion'[d] = sendVersion[d] /\ recvVersion'[d] = recvVersion[d]
                                      /\ (d \in closing') = (d \in closing)
<1>1. e \in Ends /\ Other(e) \in Both(c) /\ Other(e) \in Ends
  BY EndsOfConnection DEF Both
<1>2. CASE GetsVersion(e)
  <2> DEFINE v == Head(inbox[e]).version
  <2>1. v \in Nat /\ CommonVersion(HostOf(e), v) \in Nat
    <3>1. \E h \in Hosts : v = PROTOCOL_VERSION[h]
      <4>1. \E h \in {Opener[c], Target[c]} : \E nonce :
              inbox[e] = <<Version(h, nonce)>> \/ inbox[e] = <<Version(h, nonce), Verack>>
        <5>1. inbox[e] # <<>> /\ Head(inbox[e]).type = "version"
          BY <1>2 DEF GetsVersion, Takes
        <5>2. c \in opened
          BY <5>1, TakesInOpened
        <5>3. Greeting(c) \/ Answering(c)
          BY <5>1, <5>2, MessageTypes, ShortSequences DEF Conversation, Talking, Silent, Both
        <5> QED
          BY <5>1, <5>3, EndsOfConnection DEF Greeting, Answering, Both
      <4>2. Opener[c] \in Hosts /\ Target[c] \in Hosts
        BY HandshakeAssumption
      <4> QED
        BY <4>1, <4>2, MessageTypes, ShortSequences
    <3>2. HostOf(e) \in Hosts
      BY HandshakeAssumption, EndsOfConnection DEF Both
    <3> QED
      BY <3>1, <3>2, HandshakeAssumption DEF CommonVersion, Lower
  <2>2. CASE GivesUp(e, v)
    <3>1. /\ Answers(e, <<>>) /\ nVersion' = [nVersion EXCEPT ![e] = v] /\ closing' = closing \cup {e}
          /\ opened' = opened /\ sendVersion' = sendVersion /\ recvVersion' = recvVersion
      BY <2>2 DEF GivesUp
    <3>2. \A d \in Ends \ Both(c) : (d \in closing') = (d \in closing)
      BY <3>1
    <3>3. nVersion' \in [Ends -> Nat] /\ \A d \in Ends \ Both(c) : nVersion'[d] = nVersion[d]
      BY <1>1, <2>1, <3>1 DEF EndsInv
    <3>4. /\ DOMAIN inbox' = Ends /\ inbox' = [d \in Ends |-> inbox'[d]]
          /\ \A d \in Ends \ Both(c) : inbox'[d] = inbox[d]
      BY <3>1, AnswersEffect
    <3> QED
      BY <3>1, <3>2, <3>3, <3>4 DEF EndsInv
  <2>3. CASE ~ GivesUp(e, v)
    <3>1. PICK answer : Answers(e, answer)
      BY <1>2, <2>3 DEF GetsVersion
    <3>2. /\ nVersion' = [nVersion EXCEPT ![e] = v] /\ recvVersion' = recvVersion
          /\ sendVersion' = [sendVersion EXCEPT ![e] = CommonVersion(HostOf(e), v)]
          /\ opened' = opened /\ closing' = closing
      BY <1>2, <2>3 DEF GetsVersion
    <3> QED
      BY <1>1, <2>1, <3>1, <3>2, AnswersEffect DEF EndsInv
  <2> QED
    BY <2>2, <2>3
<1>3. CASE GetsVerack(e)
  <2>1. CommonVersion(HostOf(e), nVersion[e]) \in Nat
    BY <1>1, EndsOfConnection DEF CommonVersion, Lower, EndsInv, Both
  <2> QED
    BY <1>1, <1>3, <2>1, AnswersEffect DEF GetsVerack, EndsInv
<1>4. CASE GetsOther(e)
  <2>1. PICK answer : Answers(e, answer)
    BY <1>4 DEF GetsOther
  <2> QED
    BY <1>4, <2>1, AnswersEffect DEF GetsOther, EndsInv
<1>5. CASE Closes(e)
  <2>1. /\ closing' = closing \cup {Other(e)} /\ opened' = opened /\ nVersion' = nVersion
        /\ sendVersion' = sendVersion /\ recvVersion' = recvVersion
        /\ inbox' = [inbox EXCEPT ![e] = <<>>, ![Other(e)] = <<>>]
    BY <1>5 DEF Closes
  <2>2. \A d \in Ends \ Both(c) : (d \in closing') = (d \in closing)
    BY <1>1, <2>1
  <2>3. DOMAIN inbox' = Ends /\ \A d \in Ends \ Both(c) : inbox'[d] = inbox[d]
    BY <1>1, <2>1 DEF EndsInv
  <2>4. inbox' = [d \in Ends |-> inbox'[d]]
    BY <2>1 DEF EndsInv
  <2> QED
    BY <2>1, <2>2, <2>3, <2>4 DEF EndsInv
<1> QED
  BY <1>2, <1>3, <1>4, <1>5 DEF Handles

LEMMA HandshakeStepInv == HandshakeInv /\ [HandshakeNext]_handshakeVars => HandshakeInv'
<1> SUFFICES ASSUME HandshakeInv, [HandshakeNext]_handshakeVars PROVE HandshakeInv'
  OBVIOUS
<1>1. CASE UNCHANGED handshakeVars
  <2>1. EndsInv'
    BY <1>1 DEF HandshakeInv, EndsInv, handshakeVars
  <2>2. \A c \in Connections : Conversation(c)'
    BY <1>1, Elsewhere DEF HandshakeInv, handshakeVars
  <2> QED
    BY <2>1, <2>2 DEF HandshakeInv
<1>2. ASSUME NEW c \in Connections, Opens(c) PROVE HandshakeInv'
  BY <1>2, OpensKeeps
<1>3. ASSUME NEW e \in Ends, Handles(e) \/ Closes(e) PROVE HandshakeInv'
  <2>1. PICK c \in Connections : e \in Both(c)
    BY EndIsOne
  <2>2. EndsInv /\ Conversation(c)
    BY DEF HandshakeInv
  <2>3. Conversation(c)'
    <3>1. CASE Closes(e)
      BY <2>1, <2>2, <3>1, ClosesKeeps
    <3>2. CASE e = In(c) /\ Handles(e)
      BY <2>2, <3>2, InGetsVersion, InGetsVerack, InGetsOther DEF Handles
    <3>3. CASE e = Out(c) /\ Handles(e)
      BY <2>2, <3>3, OutGetsVersion, OutGetsVerack, OutGetsOther DEF Handles
    <3> QED
      BY <1>3, <2>1, <3>1, <3>2, <3>3 DEF Both
  <2> QED
    BY <1>3, <2>1, <2>2, <2>3, StaysOnConnection, OneConnection
<1> QED
  BY <1>1, <1>2, <1>3 DEF HandshakeNext

\* No message is read in another version than it was written in (EncodingsMatch):
\* ProcessMessages sets the version of vRecv with the verack, the last message its
\* sender writes before it sets that of vSend, and both take the lower of the two
\* versions they know.
THEOREM VersionsAreUnderstood == HandshakeSpec => []EncodingsMatch
<1>1. ASSUME HandshakeInv PROVE EncodingsMatch
  BY <1>1, EndIsOne, ConversationMatches DEF HandshakeInv, EncodingsMatch
<1> QED
  BY <1>1, HandshakeInitInv, HandshakeStepInv, PTL DEF HandshakeSpec

----------------------------------------------------------------------------
(* Alerts.  The time may go back, so whether an alert cancels another or   *)
(* concerns this node is looked at apart from whether it is in effect.     *)

NamesAsCancelled(a, b) == Alert[b].nID <= Alert[a].nCancel \/ Alert[b].nID \in Alert[a].setCancel

MeantForMe(a) ==
  /\ Alert[a].nMinVer <= MyVersion.version /\ MyVersion.version <= Alert[a].nMaxVer
  /\ Alert[a].setSubVer = {} \/ MyVersion.sub \in Alert[a].setSubVer

AlertTypes ==
  /\ time \in Int /\ latest \in Int /\ time <= latest
  /\ mapAlerts \subseteq Hashes /\ IsFiniteSet(mapAlerts)
  /\ knownTo \in [AlertPeers -> SUBSET Hashes]
  /\ sentTo \in [AlertPeers -> SUBSET Hashes] /\ givenBy \in [AlertPeers -> SUBSET Hashes]
  /\ greeted \subseteq Connected

\* None of the alerts names another, in effect or not.
StandInv == \A a, b \in mapAlerts : a # b => ~NamesAsCancelled(a, b)

\* An alert that was taken and is gone was cancelled or out of date once.
KeptInv ==
  \A p \in AlertPeers : \A a \in givenBy[p] \ mapAlerts :
    \/ latest >= Alert[a].nExpiration
    \/ \E b \in Hashes \ {a} : Alert[b].signed /\ NamesAsCancelled(b, a)

\* A peer that knows an alert gave it, or was sent it if it is meant for this node.
KnownInv ==
  \A p \in AlertPeers :
    /\ sentTo[p] \subseteq knownTo[p] /\ givenBy[p] \subseteq knownTo[p]
    /\ sentTo[p] \cap givenBy[p] = {}
    /\ \A a \in knownTo[p] : MeantForMe(a) => a \in sentTo[p] \cup givenBy[p]

\* What stands is known to all that were greeted.
ToldInv == \A p \in greeted, a \in mapAlerts : latest < Alert[a].nExpiration => a \in knownTo[p]

AlertsInv == AlertTypes /\ StandInv /\ KeptInv /\ KnownInv /\ ToldInv

LEMMA AlertsInitInv == AlertsInit => AlertsInv
  BY FS_EmptySet DEF AlertsInit, AlertsInv, AlertTypes, StandInv, KeptInv, KnownInv, ToldInv, Connected

\* Taking an alert, with those it makes go.
LEMMA ProcessAlertKeeps ==
  ASSUME AlertsInv, NEW a \in Hashes, ProcessAlert(a)
  PROVE  /\ IsFiniteSet(mapAlerts')
         /\ mapAlerts' \subseteq mapAlerts \cup (IF Accepts(a) THEN {a} ELSE {})
         /\ Accepts(a) => IsInEffect(a) /\ a \in mapAlerts'
         /\ StandInv'
         /\ \A b \in mapAlerts \ mapAlerts' :
              latest >= Alert[b].nExpiration \/ (b # a /\ Alert[a].signed /\ NamesAsCancelled(a, b))
<1>0. IsFiniteSet(mapAlerts) /\ IsFiniteSet(mapAlerts \cup {a})
  BY FS_AddElement DEF AlertsInv, AlertTypes
<1> USE AlertsAssumption DEF AlertsInv, AlertTypes, Hashes
<1>1. CASE ~Acceptable(a)
  BY <1>0, <1>1 DEF ProcessAlert, Accepts, StandInv, NamesAsCancelled
<1>2. CASE Acceptable(a)
  <2>1. /\ IsInEffect(a) /\ Alert[a].signed
        /\ mapAlerts' = Remaining(a) \cup (IF Accepts(a) THEN {a} ELSE {})
    BY <1>2 DEF Acceptable, ProcessAlert
  <2>2. Remaining(a) = {b \in mapAlerts : ~NamesAsCancelled(a, b) /\ IsInEffect(b)}
    BY <2>1 DEF Remaining, Cancels, NamesAsCancelled
  <2>3. Accepts(a) => \A b \in Remaining(a) : ~NamesAsCancelled(b, a)
    BY <2>2 DEF Accepts, Cancels, NamesAsCancelled
  <2>4. a \in mapAlerts => Accepts(a)
    <3> SUFFICES ASSUME a \in mapAlerts, NEW b \in Remaining(a), Cancels(b, a) PROVE FALSE
      BY <1>2 DEF Accepts
    <3>1. CASE b = a
      BY <3>1, <2>2 DEF Cancels, NamesAsCancelled
    <3>2. CASE b # a
      BY <3>2, <2>2 DEF StandInv, Cancels, NamesAsCancelled
    <3> QED
      BY <3>1, <3>2
  <2>5. StandInv'
    <3> SUFFICES ASSUME NEW b \in mapAlerts', NEW c \in mapAlerts', b # c PROVE ~NamesAsCancelled(b, c)
      BY DEF StandInv, NamesAsCancelled
    <3>1. CASE b \in Remaining(a) /\ c \in Remaining(a)
      BY <3>1, <2>2 DEF StandInv
    <3>2. CASE b = a /\ Accepts(a) /\ c \in Remaining(a)
      BY <3>2, <2>2
    <3>3. CASE c = a /\ Accepts(a) /\ b \in Remaining(a)
      BY <3>3, <2>3
    <3> QED
      BY <3>1, <3>2, <3>3, <2>1
  <2>6. ASSUME NEW b \in mapAlerts \ mapAlerts'
        PROVE  latest >= Alert[b].nExpiration \/ (b # a /\ Alert[a].signed /\ NamesAsCancelled(a, b))
    <3>1. b # a
      BY <2>1, <2>4
    <3>2. NamesAsCancelled(a, b) \/ ~IsInEffect(b)
      BY <2>1, <2>2
    <3>3. ~IsInEffect(b) => latest >= Alert[b].nExpiration
      BY DEF IsInEffect
    <3> QED
      BY <3>1, <3>2, <3>3, <2>1
  <2>7. IsFiniteSet(mapAlerts')
    <3>1. mapAlerts' \subseteq mapAlerts \cup {a}
      BY <2>1, <2>2
    <3> QED
      BY <1>0, <3>1, FS_Subset
  <2> QED
    BY <2>1, <2>2, <2>5, <2>6, <2>7
<1> QED
  BY <1>1, <1>2

LEMMA GetsAlertKeeps ==
  ASSUME AlertsInv, NEW p \in AlertPeers, NEW a \in Hashes, GetsAlert(p, a)
  PROVE  AlertsInv'
<1>1. /\ p \in greeted /\ a \notin knownTo[p] /\ ProcessAlert(a)
      /\ time' = time /\ latest' = latest
  BY DEF GetsAlert
<1>2. /\ IsFiniteSet(mapAlerts')
      /\ mapAlerts' \subseteq mapAlerts \cup (IF Accepts(a) THEN {a} ELSE {})
      /\ Accepts(a) => IsInEffect(a) /\ a \in mapAlerts'
      /\ StandInv'
      /\ \A b \in mapAlerts \ mapAlerts' :
           latest >= Alert[b].nExpiration \/ (b # a /\ Alert[a].signed /\ NamesAsCancelled(a, b))
  BY <1>1, ProcessAlertKeeps
<1>3. /\ time \in Int /\ latest \in Int /\ time <= latest /\ mapAlerts \subseteq Hashes
      /\ knownTo \in [AlertPeers -> SUBSET Hashes] /\ sentTo \in [AlertPeers -> SUBSET Hashes]
      /\ givenBy \in [AlertPeers -> SUBSET Hashes] /\ greeted \subseteq Connected
  BY DEF AlertsInv, AlertTypes
<1>4. CASE ~Accepts(a)
  <2>1. UNCHANGED <<knownTo, sentTo, givenBy>> /\ Misbehaving(p) /\ mapAlerts' \subseteq mapAlerts
    BY <1>2, <1>4 DEF GetsAlert
  <2>2. greeted' \subseteq greeted /\ greeted' \subseteq Connected'
    BY <2>1, <1>3 DEF Misbehaving, Connected
  <2>3. AlertTypes'
    BY <1>1, <1>2, <1>3, <2>1, <2>2 DEF AlertTypes
  <2>4. KeptInv'
    BY <1>1, <1>2, <2>1, <1>3 DEF AlertsInv, KeptInv, NamesAsCancelled
  <2>5. KnownInv' /\ ToldInv'
    BY <1>1, <2>1, <2>2 DEF AlertsInv, KnownInv, ToldInv, MeantForMe
  <2> QED
    BY <1>2, <2>3, <2>4, <2>5 DEF AlertsInv
<1>5. CASE Accepts(a)
  <2>1. Relayed(a, p) /\ UNCHANGED <<greeted, nMisbehavior, away>> /\ IsInEffect(a) /\ a \in mapAlerts'
    BY <1>2, <1>5 DEF GetsAlert
  <2>2. /\ knownTo' = [q \in AlertPeers |-> IF q \in Connected THEN knownTo[q] \cup {a} ELSE knownTo[q]]
        /\ sentTo' = [q \in AlertPeers |->
                        IF q \in Connected \ {p} /\ a \notin knownTo[q] /\ Concerns(a, KnownVersion(q))
                        THEN sentTo[q] \cup {a} ELSE sentTo[q]]
        /\ givenBy' = [givenBy EXCEPT ![p] = @ \cup {a}]
    BY <2>1 DEF Relayed
  <2>3. AlertTypes'
    <3>1. mapAlerts' \subseteq Hashes
      BY <1>2, <1>3
    <3>2. /\ knownTo' \in [AlertPeers -> SUBSET Hashes] /\ sentTo' \in [AlertPeers -> SUBSET Hashes]
          /\ givenBy' \in [AlertPeers -> SUBSET Hashes]
      BY <1>3, <2>2
    <3> QED
      BY <1>1, <1>2, <1>3, <2>1, <3>1, <3>2 DEF AlertTypes, Connected
  <2>4. KeptInv'
    <3> SUFFICES ASSUME NEW q \in AlertPeers, NEW b \in givenBy'[q] \ mapAlerts'
                 PROVE  \/ latest >= Alert[b].nExpiration
                        \/ \E c \in Hashes \ {b} : Alert[c].signed /\ NamesAsCancelled(c, b)
      BY <1>1 DEF KeptInv, NamesAsCancelled
    <3>1. b # a /\ b \in givenBy[q]
      BY <2>1, <2>2, <1>3
    <3>2. CASE b \in mapAlerts
      BY <3>1, <3>2, <1>2
    <3>3. CASE b \notin mapAlerts
      BY <3>1, <3>3 DEF AlertsInv, KeptInv
    <3> QED
      BY <3>2, <3>3
  <2>5. KnownInv'
    <3> SUFFICES ASSUME NEW q \in AlertPeers
                 PROVE  /\ sentTo'[q] \subseteq knownTo'[q] /\ givenBy'[q] \subseteq knownTo'[q]
                        /\ sentTo'[q] \cap givenBy'[q] = {}
                        /\ \A b \in knownTo'[q] : MeantForMe(b) => b \in sentTo'[q] \cup givenBy'[q]
      BY DEF KnownInv, MeantForMe
    <3>1. /\ sentTo[q] \subseteq knownTo[q] /\ givenBy[q] \subseteq knownTo[q]
          /\ sentTo[q] \cap givenBy[q] = {}
          /\ \A b \in knownTo[q] : MeantForMe(b) => b \in sentTo[q] \cup givenBy[q]
      BY DEF AlertsInv, KnownInv
    <3>2. CASE q = p
      <4>1. /\ knownTo'[q] = knownTo[q] \cup {a} /\ sentTo'[q] = sentTo[q]
            /\ givenBy'[q] = givenBy[q] \cup {a}
        BY <3>2, <1>1, <1>3, <2>2
      <4> QED
        BY <3>1, <3>2, <4>1, <1>1
    <3>3. CASE q # p /\ q \notin Connected
      <4>1. knownTo'[q] = knownTo[q] /\ sentTo'[q] = sentTo[q] /\ givenBy'[q] = givenBy[q]
        BY <3>3, <1>3, <2>2
      <4> QED
        BY <3>1, <4>1
    <3>4. CASE q # p /\ q \in Connected
      <4>1. /\ knownTo'[q] = knownTo[q] \cup {a} /\ givenBy'[q] = givenBy[q]
            /\ sentTo'[q] = IF a \notin knownTo[q] /\ Concerns(a, KnownVersion(q))
                            THEN sentTo[q] \cup {a} ELSE sentTo[q]
        BY <3>4, <1>3, <2>2
      <4>2. MeantForMe(a) => Concerns(a, KnownVersion(q))
        BY <2>1 DEF MeantForMe, Concerns, AppliesToMe, AppliesTo
      <4> QED
        BY <3>1, <4>1, <4>2
    <3> QED
      BY <3>2, <3>3, <3>4
  <2>6. ToldInv'
    <3> SUFFICES ASSUME NEW q \in greeted, NEW b \in mapAlerts', latest < Alert[b].nExpiration
                 PROVE  b \in knownTo'[q]
      BY <1>1, <2>1 DEF ToldInv
    <3>1. q \in AlertPeers /\ knownTo'[q] = knownTo[q] \cup {a}
      BY <1>3, <2>2 DEF Connected
    <3> QED
      BY <1>2, <3>1 DEF AlertsInv, ToldInv
  <2> QED
    BY <1>2, <2>3, <2>4, <2>5, <2>6 DEF AlertsInv
<1> QED
  BY <1>4, <1>5

LEMMA GetsVersionOfKeeps ==
  ASSUME AlertsInv, NEW p \in AlertPeers, GetsVersionOf(p)
  PROVE  AlertsInv'
<1> DEFINE new == {a \in mapAlerts : IsInEffect(a) /\ a \notin knownTo[p]}
<1>1. /\ p \in Connected /\ greeted' = greeted \cup {p}
      /\ knownTo' = [knownTo EXCEPT ![p] = @ \cup new]
      /\ sentTo' = [sentTo EXCEPT ![p] = @ \cup {a \in new : Concerns(a, VersionOf[p])}]
      /\ UNCHANGED <<time, latest, mapAlerts, givenBy, nMisbehavior, away>>
  BY DEF GetsVersionOf
<1>2. /\ time \in Int /\ latest \in Int /\ time <= latest
      /\ mapAlerts \subseteq Hashes /\ IsFiniteSet(mapAlerts)
      /\ knownTo \in [AlertPeers -> SUBSET Hashes] /\ sentTo \in [AlertPeers -> SUBSET Hashes]
      /\ givenBy \in [AlertPeers -> SUBSET Hashes] /\ greeted \subseteq Connected
  BY DEF AlertsInv, AlertTypes
<1>3. /\ knownTo'[p] = knownTo[p] \cup new
      /\ sentTo'[p] = sentTo[p] \cup {a \in new : Concerns(a, VersionOf[p])}
      /\ \A q \in AlertPeers \ {p} : knownTo'[q] = knownTo[q] /\ sentTo'[q] = sentTo[q]
  BY <1>1, <1>2
<1>4. AlertTypes'
  <2>1. knownTo' \in [AlertPeers -> SUBSET Hashes] /\ sentTo' \in [AlertPeers -> SUBSET Hashes]
    BY <1>1, <1>2
  <2> QED
    BY <2>1, <1>1, <1>2 DEF AlertTypes, Connected
<1>5. StandInv' /\ KeptInv'
  BY <1>1 DEF AlertsInv, StandInv, KeptInv, NamesAsCancelled
<1>6. KnownInv'
  <2> SUFFICES ASSUME NEW q \in AlertPeers
               PROVE  /\ sentTo'[q] \subseteq knownTo'[q] /\ givenBy[q] \subseteq knownTo'[q]
                      /\ sentTo'[q] \cap givenBy[q] = {}
                      /\ \A b \in knownTo'[q] : MeantForMe(b) => b \in sentTo'[q] \cup givenBy[q]
    BY <1>1 DEF KnownInv, MeantForMe
  <2>1. /\ sentTo[q] \subseteq knownTo[q] /\ givenBy[q] \subseteq knownTo[q]
        /\ sentTo[q] \cap givenBy[q] = {}
        /\ \A b \in knownTo[q] : MeantForMe(b) => b \in sentTo[q] \cup givenBy[q]
    BY DEF AlertsInv, KnownInv
  <2>2. \A b \in new : MeantForMe(b) => Concerns(b, VersionOf[p])
    BY DEF MeantForMe, Concerns, AppliesToMe, AppliesTo
  <2>3. CASE q = p
    BY <2>1, <2>2, <2>3, <1>3
  <2>4. CASE q # p
    BY <2>1, <2>4, <1>3
  <2> QED
    BY <2>3, <2>4
<1>7. ToldInv'
  <2> SUFFICES ASSUME NEW q \in greeted \cup {p}, NEW b \in mapAlerts, latest < Alert[b].nExpiration
               PROVE  b \in knownTo'[q]
    BY <1>1 DEF ToldInv
  <2>1. CASE q = p
    <3>1. IsInEffect(b)
      BY <1>2, AlertsAssumption DEF IsInEffect, Hashes
    <3> QED
      BY <2>1, <3>1, <1>3
  <2>2. CASE q # p
    BY <2>2, <1>2, <1>3 DEF AlertsInv, ToldInv, Connected
  <2> QED
    BY <2>1, <2>2
<1> QED
  BY <1>4, <1>5, <1>6, <1>7 DEF AlertsInv

LEMMA AlertsStepInv == AlertsInv /\ [AlertsNext]_alertVars => AlertsInv'
<1> SUFFICES ASSUME AlertsInv, [AlertsNext]_alertVars PROVE AlertsInv'
  OBVIOUS
<1>1. CASE UNCHANGED alertVars
  BY <1>1 DEF alertVars, AlertsInv, AlertTypes, StandInv, KeptInv, KnownInv, ToldInv, Connected, MeantForMe,
              NamesAsCancelled
<1>2. ASSUME NEW p \in AlertPeers, NEW a \in Hashes, GetsAlert(p, a) PROVE AlertsInv'
  BY <1>2, GetsAlertKeeps
<1>3. ASSUME NEW p \in AlertPeers, GetsVersionOf(p) PROVE AlertsInv'
  BY <1>3, GetsVersionOfKeeps
<1>4. ASSUME NEW p \in AlertPeers, Leaves(p) PROVE AlertsInv'
  <2>1. AlertTypes'
    BY <1>4 DEF Leaves, AlertsInv, AlertTypes, Connected
  <2>2. StandInv' /\ KeptInv' /\ KnownInv' /\ ToldInv'
    BY <1>4 DEF Leaves, AlertsInv, StandInv, KeptInv, KnownInv, ToldInv, MeantForMe, NamesAsCancelled
  <2> QED
    BY <2>1, <2>2 DEF AlertsInv
<1>5. ASSUME NEW p \in AlertPeers, Returns(p) PROVE AlertsInv'
  <2>1. AlertTypes' /\ p \notin greeted
    BY <1>5 DEF Returns, AlertsInv, AlertTypes, Connected
  <2>2. StandInv' /\ KeptInv'
    BY <1>5 DEF Returns, AlertsInv, AlertTypes, StandInv, KeptInv, NamesAsCancelled
  <2>3. KnownInv'
    BY <1>5 DEF Returns, AlertsInv, AlertTypes, KnownInv, MeantForMe
  <2>4. ToldInv'
    BY <1>5, <2>1 DEF Returns, AlertsInv, AlertTypes, ToldInv, Connected
  <2> QED
    BY <2>1, <2>2, <2>3, <2>4 DEF AlertsInv
<1>6. ASSUME TimeMoves PROVE AlertsInv'
  <2>1. AlertTypes' /\ latest' \in Int /\ latest \in Int /\ latest' >= latest
    BY <1>6, AlertsAssumption DEF TimeMoves, AlertsInv, AlertTypes, Connected
  <2>2. StandInv' /\ KnownInv'
    BY <1>6 DEF TimeMoves, AlertsInv, StandInv, KnownInv, MeantForMe, NamesAsCancelled
  <2>3. KeptInv'
    BY <1>6, <2>1, AlertsAssumption DEF TimeMoves, AlertsInv, AlertTypes, KeptInv, NamesAsCancelled, Hashes
  <2>4. ToldInv'
    BY <1>6, <2>1, AlertsAssumption DEF TimeMoves, AlertsInv, AlertTypes, ToldInv, Hashes
  <2> QED
    BY <2>1, <2>2, <2>3, <2>4 DEF AlertsInv
<1> QED
  BY <1>1, <1>2, <1>3, <1>4, <1>5, <1>6 DEF AlertsNext

\* No alert stands beside one that cancels it, none is dropped before its time unless
\* it was cancelled, every greeted peer knows what stands, and nobody is sent what it
\* gave (AlertsArePassedOn): CAlert::ProcessAlert and the alert and version messages,
\* with alerts in any order and a time that may go back.
THEOREM AlertsReachAll == AlertsSpec => []AlertsArePassedOn
<1>1. ASSUME AlertsInv PROVE AlertsArePassedOn
  <2>1. \A a, b \in mapAlerts : a # b => ~Cancels(a, b)
    BY <1>1 DEF AlertsInv, StandInv, Cancels, NamesAsCancelled
  <2>2. \A a \in Hashes : AppliesToMe(a) => MeantForMe(a)
    BY DEF AppliesToMe, AppliesTo, MeantForMe
  <2>3. \A p \in greeted, a \in mapAlerts :
          latest < Alert[a].nExpiration =>
            /\ a \in knownTo[p]
            /\ AppliesToMe(a) => a \in sentTo[p] \cup givenBy[p]
    BY <1>1, <2>2 DEF AlertsInv, AlertTypes, KnownInv, ToldInv, Connected
  <2>4. \A p \in AlertPeers : sentTo[p] \cap givenBy[p] = {}
    BY <1>1 DEF AlertsInv, KnownInv
  <2>5. \A p \in AlertPeers : \A a \in givenBy[p] \ mapAlerts :
          \/ latest >= Alert[a].nExpiration
          \/ \E b \in Hashes \ {a} : /\ Alert[b].signed
                                     /\ \/ Alert[a].nID <= Alert[b].nCancel
                                        \/ Alert[a].nID \in Alert[b].setCancel
    BY <1>1 DEF AlertsInv, KeptInv, NamesAsCancelled
  <2> QED
    BY <2>1, <2>3, <2>4, <2>5 DEF AlertsArePassedOn
<1> QED
  BY <1>1, AlertsInitInv, AlertsStepInv, PTL DEF AlertsSpec

----------------------------------------------------------------------------
(* What is shown of the alerts.                                            *)

\* w is what is shown of the alerts of s: one of them that is meant for this node, or
\* what there is to warn of without them, and none of s is more urgent.
IsShown(w, s, own) ==
  /\ \/ w = own
     \/ \E b \in s : AppliesToMe(b) /\ w = [priority |-> Alert[b].nPriority, text |-> Alert[b].strStatusBar]
  /\ \A a \in s : AppliesToMe(a) => Alert[a].nPriority <= w.priority

LEMMA MostUrgentIsFound ==
  ASSUME NEW texts, NEW own \in [priority : Int, text : texts],
         mapAlerts \subseteq Hashes, IsFiniteSet(mapAlerts)
  PROVE  IsShown(FoldSet(MoreUrgent, own, mapAlerts), mapAlerts, own)
<1> DEFINE S == mapAlerts
           D == SUBSET S
           V == [priority : Int, text : texts \cup {Alert[a].strStatusBar : a \in S}]
           pick == [s \in D |-> OneOf(s)]
           G == [a \in S |-> [w \in V |-> MoreUrgent(a, w)]]
           Step(f, s) == IF s = {} THEN own
                         ELSE LET x == CHOOSE x \in s : TRUE IN MoreUrgent(x, f[s \ {x}])
           iter == CHOOSE f : f = [s \in D |-> Step(f, s)]
<1>1. IsRule(G, S, V) /\ own \in V
  BY AlertsAssumption DEF IsRule, MoreUrgent, Hashes
<1>2. Picks(pick, S)
  BY DEF Picks, OneOf
<1>3. PICK f \in [SUBSET S -> V] : IsFold(f, S, pick, own, G)
  <2> HIDE DEF D, V, pick, G
  <2> QED
    BY <1>1, <1>2, SetRecursion
<1>4. ASSUME NEW s \in D PROVE f[s] = Step(f, s)
  <2>1. CASE s = {}
    BY <2>1, <1>3 DEF IsFold
  <2>2. CASE s # {}
    <3>1. OneOf(s) \in S /\ s \ {OneOf(s)} \in D /\ pick[s] = OneOf(s)
      BY <2>2 DEF OneOf
    <3>2. f[s \ {OneOf(s)}] \in V
      BY <3>1
    <3>3. G[OneOf(s)][f[s \ {OneOf(s)}]] = MoreUrgent(OneOf(s), f[s \ {OneOf(s)}])
      BY <3>1, <3>2
    <3>4. f[s] = G[pick[s]][f[s \ {pick[s]}]]
      <4> HIDE DEF V, pick, G
      <4> QED
        BY <1>3, <2>2 DEF IsFold
    <3> HIDE DEF pick, G
    <3> QED
      BY <2>2, <3>1, <3>3, <3>4 DEF OneOf
  <2> QED
    BY <2>1, <2>2
<1>5. f = [s \in D |-> Step(f, s)]
  <2> HIDE DEF Step, V
  <2> QED
    BY <1>4
<1>6. iter = [s \in D |-> Step(iter, s)]
  <2> HIDE DEF Step
  <2> QED
    BY <1>5
<1>7. \A s \in D : iter[s] = Step(iter, s)
  <2> HIDE DEF Step, iter
  <2> QED
    BY <1>6
<1>8. FoldSet(MoreUrgent, own, mapAlerts) = iter[S]
  BY DEF FoldSet, MapThenFoldSet
<1> DEFINE Good == {s \in D : iter[s] \in V /\ IsShown(iter[s], s, own)}
<1>9. ASSUME NEW s \in D, \A t \in SUBSET s : t # s => t \in Good
      PROVE  s \in Good
  <2> HIDE DEF iter
  <2>1. CASE s = {}
    BY <2>1, <1>1, <1>7 DEF IsShown
  <2>2. CASE s # {}
    <3> DEFINE x == CHOOSE x \in s : TRUE
               w == iter[s \ {x}]
    <3>1. x \in s /\ s \ {x} \in Good
      BY <2>2, <1>9
    <3>2. iter[s] = MoreUrgent(x, w)
      BY <2>2, <1>7
    <3>3. w \in V /\ IsShown(w, s \ {x}, own)
      BY <3>1
    <3>4. MoreUrgent(x, w) \in V
      BY <3>1, <3>3, <1>1, AlertsAssumption DEF MoreUrgent, Hashes
    <3>5. w.priority \in Int /\ Alert[x].nPriority \in Int /\ \A a \in s : Alert[a].nPriority \in Int
      BY <3>1, <3>3, AlertsAssumption DEF Hashes
    <3> HIDE DEF x, w, Good, V
    <3>6. IsShown(MoreUrgent(x, w), s, own)
      <4>1. CASE AppliesToMe(x) /\ Alert[x].nPriority > w.priority
        BY <4>1, <3>1, <3>3, <3>5 DEF IsShown, MoreUrgent
      <4>2. CASE ~(AppliesToMe(x) /\ Alert[x].nPriority > w.priority)
        BY <4>2, <3>1, <3>3, <3>5 DEF IsShown, MoreUrgent
      <4> QED
        BY <4>1, <4>2
    <3> QED
      BY <3>2, <3>4, <3>6 DEF Good
  <2> QED
    BY <2>1, <2>2
<1>10. SUBSET S \subseteq Good
  <2> HIDE DEF Good
  <2> QED
    BY <1>9, SubsetInduction
<1> QED
  BY <1>8, <1>10

LEMMA UrgentIsShown ==
  ASSUME AlertsInv
  PROVE  MostUrgentIsShown
<1> DEFINE Urgent == {b \in mapAlerts : AppliesToMe(b)}
           Shown(fMisc, fInvalidChain) == GetWarnings(fMisc, fInvalidChain, FALSE).statusbar
           Right(fMisc, fInvalidChain, a) ==
             \/ Shown(fMisc, fInvalidChain)
                  \in {Alert[b].strStatusBar : b \in {c \in Urgent : Alert[c].nPriority >= Alert[a].nPriority}}
             \/ Shown(fMisc, fInvalidChain) = "misc" /\ fMisc /\ Alert[a].nPriority <= 1000
             \/ Shown(fMisc, fInvalidChain) = "chain" /\ fInvalidChain /\ Alert[a].nPriority <= 2000
             \/ Alert[a].nPriority <= 0
<1>0. MostUrgentIsShown = \A fMisc \in BOOLEAN, fInvalidChain \in BOOLEAN : \A a \in Urgent : Right(fMisc, fInvalidChain, a)
  BY DEF MostUrgentIsShown
<1> HIDE DEF Right
<1> SUFFICES ASSUME NEW fMisc \in BOOLEAN, NEW fInvalidChain \in BOOLEAN,
                    NEW a \in mapAlerts, AppliesToMe(a)
             PROVE  Right(fMisc, fInvalidChain, a)
  BY <1>0
<1> DEFINE own == OwnWarning(fMisc, fInvalidChain)
           w == FoldSet(MoreUrgent, own, mapAlerts)
           texts == {own.text}
<1>1. own \in [priority : Int, text : texts]
  BY DEF OwnWarning
<1>2. IsShown(w, mapAlerts, own)
  <2> HIDE DEF own, w, texts
  <2>1. IsShown(FoldSet(MoreUrgent, own, mapAlerts), mapAlerts, own)
    BY <1>1, MostUrgentIsFound DEF AlertsInv, AlertTypes
  <2> QED
    BY <2>1 DEF w
<1>3. Shown(fMisc, fInvalidChain) = w.text
  BY DEF GetWarnings
<1>4. Alert[a].nPriority <= w.priority /\ Alert[a].nPriority \in Int
  BY <1>2, AlertsAssumption DEF IsShown, AlertsInv, AlertTypes, Hashes
<1> HIDE DEF w
<1>5. CASE w = own
  <2>1. \/ fInvalidChain /\ own.priority = 2000 /\ own.text = "chain"
        \/ fMisc /\ own.priority = 1000 /\ own.text = "misc"
        \/ own.priority = 0
    BY DEF OwnWarning
  <2> HIDE DEF own, Shown, Urgent
  <2> QED
    BY <1>3, <1>4, <1>5, <2>1 DEF Right
<1>6. CASE w # own
  <2>1. PICK b \in mapAlerts : AppliesToMe(b) /\ w = [priority |-> Alert[b].nPriority, text |-> Alert[b].strStatusBar]
    BY <1>2, <1>6 DEF IsShown
  <2>2. w.text = Alert[b].strStatusBar /\ w.priority = Alert[b].nPriority /\ Alert[b].nPriority \in Int
    BY <2>1, AlertsAssumption DEF AlertsInv, AlertTypes, Hashes
  <2>3. Alert[b].nPriority >= Alert[a].nPriority
    BY <1>4, <2>2
  <2>4. w.text \in {Alert[c].strStatusBar : c \in {c \in Urgent : Alert[c].nPriority >= Alert[a].nPriority}}
    BY <2>1, <2>2, <2>3
  <2> HIDE DEF Shown, Urgent
  <2> QED
    BY <1>3, <2>4 DEF Right
<1> QED
  BY <1>5, <1>6

----------------------------------------------------------------------------
(* The clock.                                                              *)

\* The places of a sequence are finite in number, and so are those of any kind.
LEMMA PlacesAreFinite ==
  ASSUME NEW v \in Seq(Int), NEW I, I \subseteq DOMAIN v
  PROVE  IsFiniteSet(I) /\ Cardinality(I) \in 0..Len(v)
<1> DEFINE n == Len(v)
<1>1. DOMAIN v = 1..n /\ n \in Nat
  OBVIOUS
<1> HIDE DEF n
<1>2. IsFiniteSet(1..n) /\ Cardinality(1..n) = n
  BY <1>1, FS_Interval
<1> QED
  BY <1>1, <1>2, FS_Subset, FS_CardinalityType DEF n

\* Below and NotAbove count the places.
LEMMA SortedIs ==
  ASSUME NEW v \in Seq(Int), NEW place \in 1..Len(v)
  PROVE  /\ Sorted(v, place) \in Int
         /\ Below(v, Sorted(v, place)) < place
         /\ place <= NotAbove(v, Sorted(v, place))
<1> DEFINE R == {v[i] : i \in DOMAIN v}
           S == {x \in R : place <= NotAbove(v, x)}
           Under(x) == {i \in DOMAIN v : v[i] < x}
           UpTo(x) == {i \in DOMAIN v : v[i] <= x}
<1>1. DOMAIN v = 1..Len(v) /\ Len(v) \in Nat /\ \A i \in DOMAIN v : v[i] \in Int
  OBVIOUS
<1>2. \A x : IsFiniteSet(Under(x)) /\ IsFiniteSet(UpTo(x))
  BY PlacesAreFinite
<1>3. \A x : /\ Below(v, x) = Cardinality(Under(x)) /\ NotAbove(v, x) = Cardinality(UpTo(x))
             /\ Below(v, x) \in Nat /\ NotAbove(v, x) \in Nat
  BY <1>2, FS_CardinalityType DEF Below, NotAbove
<1>4. R \subseteq Int /\ IsFiniteSet(R) /\ R # {}
  <2>1. IsFiniteSet(DOMAIN v)
    BY PlacesAreFinite
  <2>2. IsFiniteSet(R)
    BY <2>1, ImageIsFinite
  <2>3. v[place] \in R
    BY <1>1
  <2> QED
    BY <1>1, <2>2, <2>3
<1>5. S # {}
  <2>1. PICK x \in R : \A y \in R : y <= x
    <3> HIDE DEF R
    <3> QED
      BY <1>4, GreatestInteger
  <2>2. UpTo(x) = DOMAIN v
    BY <2>1
  <2>3. NotAbove(v, x) = Len(v)
    <3> DEFINE n == Len(v)
    <3>1. Cardinality(1..n) = n
      <4>1. n \in Nat
        OBVIOUS
      <4> HIDE DEF n
      <4> QED
        BY <4>1, FS_Interval
    <3> QED
      BY <1>1, <1>3, <2>2, <3>1
  <2> QED
    BY <2>1, <2>3, <1>1
<1>6. S \subseteq Int /\ IsFiniteSet(S)
  BY <1>4, FS_Subset
<1>7. PICK x \in S : \A y \in S : x <= y
  <2> HIDE DEF S
  <2> QED
    BY <1>5, <1>6, LeastInteger
<1>8. Below(v, x) < place
  <2>1. CASE Under(x) = {}
    BY <2>1, <1>3, FS_EmptySet
  <2>2. CASE Under(x) # {}
    <3> DEFINE T == {y \in R : y < x}
    <3>1. T \subseteq Int /\ IsFiniteSet(T) /\ T # {}
      <4>1. PICK i \in DOMAIN v : v[i] < x
        BY <2>2
      <4>2. v[i] \in T
        BY <4>1
      <4> QED
        BY <4>2, <1>4, FS_Subset
    <3>2. PICK y \in T : \A z \in T : z <= y
      <4> HIDE DEF T
      <4> QED
        BY <3>1, GreatestInteger
    <3>3. Under(x) = UpTo(y)
      <4>1. \A i \in DOMAIN v : v[i] < x => v[i] <= y
        BY <3>2
      <4>2. \A i \in DOMAIN v : v[i] <= y => v[i] < x
        BY <3>2, <1>1, <1>6, <1>4
      <4> QED
        BY <4>1, <4>2
    <3>4. y \notin S
      BY <3>2, <1>7, <1>6
    <3>5. ~(place <= NotAbove(v, y))
      BY <3>2, <3>4
    <3> HIDE DEF Under, UpTo, S, R, T
    <3> QED
      BY <3>3, <3>5, <1>3
  <2> QED
    BY <2>1, <2>2
<1>9. x \in R /\ x \in Int /\ place <= NotAbove(v, x)
  BY <1>6
<1> DEFINE Fits(z) == Below(v, z) < place /\ place <= NotAbove(v, z)
<1>10. Sorted(v, place) = CHOOSE z \in R : Fits(z)
  BY DEF Sorted
<1>11. Sorted(v, place) \in R /\ Fits(Sorted(v, place))
  <2> HIDE DEF R, Fits
  <2>1. \E z \in R : Fits(z)
    BY <1>8, <1>9 DEF Fits
  <2> QED
    BY <1>10, <2>1
<1> QED
  BY <1>11, <1>4

\* When most of the values are in an interval, so are the middle ones.
LEMMA MiddleIsAmongMost ==
  ASSUME NEW v \in Seq(Int), NEW low \in Int, NEW high \in Int, MostIn(v, low, high),
         NEW place \in {(Len(v) + 1) \div 2, Len(v) \div 2 + 1}, Len(v) > 0
  PROVE  Sorted(v, place) \in low..high
<1> DEFINE n == Len(v)
           x == Sorted(v, place)
           Under == {i \in DOMAIN v : v[i] < x}
           UpTo == {i \in DOMAIN v : v[i] <= x}
           Amid == {i \in DOMAIN v : low <= v[i] /\ v[i] <= high}
<1>1. n \in Nat /\ DOMAIN v = 1..n /\ \A i \in DOMAIN v : v[i] \in Int
  OBVIOUS
<1>2. place \in 1..n /\ 2 * place >= n /\ 2 * place <= n + 2
  <2> HIDE DEF n
  <2>1. n > 0 /\ place \in {(n + 1) \div 2, n \div 2 + 1}
    BY DEF n
  <2>2. (n + 1) \div 2 \in 1..n /\ 2 * ((n + 1) \div 2) \in n..n + 1
    BY <1>1, <2>1
  <2>3. n \div 2 + 1 \in 1..n /\ 2 * (n \div 2 + 1) \in n..n + 2
    <3>1. n \div 2 \in Nat /\ 2 * (n \div 2) <= n /\ n <= 2 * (n \div 2) + 1
      BY <1>1, <2>1
    <3> QED
      BY <1>1, <2>1, <3>1
  <2> QED
    BY <1>1, <2>1, <2>2, <2>3
<1>3. x \in Int /\ Cardinality(Under) < place /\ place <= Cardinality(UpTo)
  BY <1>2, SortedIs DEF Below, NotAbove
<1>4. /\ IsFiniteSet(Under) /\ IsFiniteSet(UpTo) /\ IsFiniteSet(Amid)
      /\ Cardinality(Under) \in 0..n /\ Cardinality(UpTo) \in 0..n /\ Cardinality(Amid) \in 0..n
  BY PlacesAreFinite
<1>5. 2 * Cardinality(Amid) > n
  BY DEF MostIn, CountIn
<1>6. ASSUME x < low PROVE FALSE
  <2>1. UpTo \cap Amid = {}
    BY <1>1, <1>3, <1>6
  <2>2. Cardinality(UpTo \cup Amid) = Cardinality(UpTo) + Cardinality(Amid)
    <3>1. /\ Cardinality(UpTo \cup Amid) = Cardinality(UpTo) + Cardinality(Amid) - Cardinality(UpTo \cap Amid)
          /\ Cardinality(UpTo \cap Amid) = 0
      <4> HIDE DEF UpTo, Amid
      <4> QED
        BY <1>4, <2>1, FS_Union, FS_EmptySet
    <3> HIDE DEF UpTo, Amid, n
    <3> QED
      BY <1>1, <1>4, <3>1
  <2>3. Cardinality(UpTo \cup Amid) \in 0..n
    BY PlacesAreFinite
  <2> HIDE DEF UpTo, Amid, Under, n, x
  <2> QED
    BY <1>1, <1>2, <1>3, <1>4, <1>5, <2>2, <2>3
<1>7. ASSUME high < x PROVE FALSE
  <2>1. Amid \subseteq Under
    BY <1>1, <1>3, <1>7
  <2>2. Cardinality(Amid) <= Cardinality(Under)
    <3> HIDE DEF Under, Amid
    <3> QED
      BY <1>4, <2>1, FS_Subset
  <2> HIDE DEF UpTo, Amid, Under, n, x
  <2> QED
    BY <1>1, <1>2, <1>3, <1>4, <1>5, <2>2
<1> QED
  BY <1>3, <1>6, <1>7

LEMMA MedianIsAmongMost ==
  ASSUME NEW v \in Seq(Int), NEW low \in Int, NEW high \in Int, MostIn(v, low, high), Len(v) > 0
  PROVE  Median(v) \in low..high
<1> DEFINE a == Sorted(v, (Len(v) + 1) \div 2)
           b == Sorted(v, Len(v) \div 2 + 1)
<1>1. a \in low..high /\ b \in low..high
  BY MiddleIsAmongMost
<1>2. Median(v) = IF a + b < 0 THEN -(Magnitude(a + b) \div 2) ELSE (a + b) \div 2
  BY DEF Median
<1> HIDE DEF a, b
<1> QED
  BY <1>1, <1>2 DEF Magnitude

LEMMA MedianIsNumber ==
  ASSUME NEW v \in Seq(Int), Len(v) > 0
  PROVE  Median(v) \in Int
<1> DEFINE a == Sorted(v, (Len(v) + 1) \div 2)
           b == Sorted(v, Len(v) \div 2 + 1)
<1>1. Len(v) \in Nat /\ (Len(v) + 1) \div 2 \in 1..Len(v) /\ Len(v) \div 2 + 1 \in 1..Len(v)
  OBVIOUS
<1>2. a \in Int /\ b \in Int
  BY <1>1, SortedIs
<1>3. Median(v) = IF a + b < 0 THEN -(Magnitude(a + b) \div 2) ELSE (a + b) \div 2
  BY DEF Median
<1> HIDE DEF a, b
<1> QED
  BY <1>2, <1>3 DEF Magnitude

ClockTypes ==
  /\ vTimeOffsets \in Seq(Int) /\ Len(vTimeOffsets) \in 1..TimeWindow
  /\ cPeerBlockCounts \in Seq(Int) /\ Len(cPeerBlockCounts) \in 1..HeightWindow
  /\ offsets \in Seq(Int) /\ nTimeOffset \in Int

\* The window is every sample taken, after the clock of this node, until it is full.
WindowInv ==
  IF Len(offsets) < TimeWindow THEN vTimeOffsets = <<0>> \o offsets ELSE Len(vTimeOffsets) = TimeWindow

\* The offset is what the deciding samples make of it.
SomeNear(v) == \E x \in {v[i] : i \in DOMAIN v} : x # 0 /\ Magnitude(x) < NearOffset
DecidedInv ==
  IF Len(Deciding) < 5 THEN nTimeOffset = 0
  ELSE IF Magnitude(Median(Deciding)) < MaxOffset THEN nTimeOffset = Median(Deciding)
  ELSE nTimeOffset = 0 /\ (strMiscWarning # "" \/ SomeNear(Deciding))

ClockInv == ClockTypes /\ WindowInv /\ DecidedInv

\* The deciding samples: those up to the last even one, of the first that are taken.
Decided(taken) == <<0>> \o SubSeq(taken, 1, IF (Len(taken) \div 2) * 2 < TimeWindow
                                             THEN (Len(taken) \div 2) * 2 ELSE TimeWindow - 2)

LEMMA DecidedIs ==
  ASSUME NEW taken \in Seq(Int)
  PROVE  /\ Decided(taken) \in Seq(Int)
         /\ Len(Decided(taken)) = 1 + IF (Len(taken) \div 2) * 2 < TimeWindow
                                      THEN (Len(taken) \div 2) * 2 ELSE TimeWindow - 2
         /\ Len(Decided(taken)) \in 1..Len(taken) + 1
<1> DEFINE n == IF (Len(taken) \div 2) * 2 < TimeWindow THEN (Len(taken) \div 2) * 2 ELSE TimeWindow - 2
<1>1. TimeWindow \in Nat \ {0} /\ TimeWindow % 2 = 0 /\ Len(taken) \in Nat
  BY ClockAssumption
<1>2. TimeWindow - 2 \in Nat
  BY <1>1
<1>3. n \in 0..Len(taken)
  BY <1>1, <1>2
<1>4. Decided(taken) = <<0>> \o SubSeq(taken, 1, n)
  BY DEF Decided
<1> HIDE DEF n
<1>5. SubSeq(taken, 1, n) \in Seq(Int) /\ Len(SubSeq(taken, 1, n)) = n
  BY <1>3
<1>6. <<0>> \in Seq(Int) /\ Len(<<0>>) = 1
  OBVIOUS
<1>7. Decided(taken) \in Seq(Int) /\ Len(Decided(taken)) = 1 + n
  BY <1>3, <1>4, <1>5, <1>6
<1> QED
  BY <1>1, <1>3, <1>7 DEF n

\* The sample after an even number of them, and each one after the window is full,
\* decides nothing; the others decide with all before them.
LEMMA DecidedGrows ==
  ASSUME NEW taken \in Seq(Int), NEW x \in Int
  PROVE  IF Len(taken) % 2 = 0 \/ Len(taken) + 1 >= TimeWindow
         THEN Decided(Append(taken, x)) = Decided(taken)
         ELSE Decided(Append(taken, x)) = <<0>> \o Append(taken, x)
<1> DEFINE k == Len(taken)
           more == Append(taken, x)
           Upto(l) == IF (l \div 2) * 2 < TimeWindow THEN (l \div 2) * 2 ELSE TimeWindow - 2
<1>1. TimeWindow \in Nat \ {0} /\ TimeWindow % 2 = 0 /\ k \in Nat
  BY ClockAssumption
<1>2. more \in Seq(Int) /\ Len(more) = k + 1
  OBVIOUS
<1>3. Decided(taken) = <<0>> \o SubSeq(taken, 1, Upto(k)) /\ Decided(more) = <<0>> \o SubSeq(more, 1, Upto(k + 1))
  BY <1>2 DEF Decided
<1>4. PICK half \in Int : TimeWindow = 2 * half
  BY <1>1
<1>5. CASE k % 2 = 0 \/ k + 1 >= TimeWindow
  <2>1. Upto(k + 1) = Upto(k) /\ Upto(k) \in 0..k
    <3> HIDE DEF k
    <3>1. CASE k % 2 = 0
      <4>1. (k + 1) \div 2 = k \div 2
        BY <1>1, <3>1
      <4> QED
        BY <1>1, <1>4, <4>1
    <3>2. CASE k % 2 # 0
      <4>1. k + 1 >= TimeWindow /\ (k + 1) \div 2 = k \div 2 + 1 /\ k = 2 * (k \div 2) + 1
        BY <1>1, <1>5, <3>2
      <4> QED
        BY <1>1, <1>4, <4>1
    <3> QED
      BY <3>1, <3>2
  <2>2. SubSeq(more, 1, Upto(k)) = SubSeq(taken, 1, Upto(k))
    <3> DEFINE n == Upto(k)
    <3>1. n \in 0..k
      BY <2>1
    <3> HIDE DEF n
    <3>2. \A i \in 1..n : more[i] = taken[i]
      BY <1>1, <3>1
    <3>3. /\ SubSeq(more, 1, n) \in Seq(Int) /\ Len(SubSeq(more, 1, n)) = n
          /\ SubSeq(taken, 1, n) \in Seq(Int) /\ Len(SubSeq(taken, 1, n)) = n
          /\ \A i \in 1..n : SubSeq(more, 1, n)[i] = more[i] /\ SubSeq(taken, 1, n)[i] = taken[i]
      BY <1>1, <1>2, <3>1
    <3>4. SubSeq(more, 1, n) = SubSeq(taken, 1, n)
      <4> DEFINE s == SubSeq(more, 1, n)
                 t == SubSeq(taken, 1, n)
      <4> HIDE DEF s, t
      <4>1. s \in Seq(Int) /\ t \in Seq(Int) /\ Len(s) = Len(t) /\ \A i \in 1..Len(s) : s[i] = t[i]
        BY <3>2, <3>3 DEF s, t
      <4>2. s = t
        BY <4>1, SeqEqual
      <4> QED
        BY <4>2 DEF s, t
    <3> QED
      BY <3>4 DEF n
  <2> HIDE DEF more, k, Upto
  <2> QED
    BY <1>3, <1>5, <2>1, <2>2 DEF more, k
<1>6. CASE ~(k % 2 = 0 \/ k + 1 >= TimeWindow)
  <2>1. Upto(k + 1) = k + 1
    <3> HIDE DEF k
    <3>1. k + 1 < TimeWindow /\ (k + 1) \div 2 = k \div 2 + 1 /\ k = 2 * (k \div 2) + 1
      BY <1>1, <1>6
    <3> QED
      BY <1>1, <3>1
  <2>2. SubSeq(more, 1, k + 1) = more
    <3> HIDE DEF more, k
    <3> QED
      BY <1>1, <1>2
  <2> HIDE DEF more, k, Upto
  <2> QED
    BY <1>3, <1>6, <2>1, <2>2 DEF more, k
<1> QED
  BY <1>5, <1>6

LEMMA InputIs ==
  ASSUME NEW v \in Seq(Int), NEW n \in Nat, Len(v) \in 1..n, NEW x \in Int
  PROVE  /\ Input(v, n, x) \in Seq(Int)
         /\ Len(Input(v, n, x)) = IF Len(v) = n THEN n ELSE Len(v) + 1
         /\ Len(v) # n => Input(v, n, x) = Append(v, x)
<1> DEFINE s == IF Len(v) = n THEN Tail(v) ELSE v
<1>1. v # <<>> /\ Tail(v) \in Seq(Int) /\ Len(Tail(v)) = Len(v) - 1
  OBVIOUS
<1>2. s \in Seq(Int) /\ Len(s) = IF Len(v) = n THEN n - 1 ELSE Len(v)
  BY <1>1
<1>3. Input(v, n, x) = Append(s, x)
  BY DEF Input
<1>4. Len(v) # n => s = v
  OBVIOUS
<1> HIDE DEF s
<1>5. Append(s, x) \in Seq(Int) /\ Len(Append(s, x)) = Len(s) + 1
  BY <1>2
<1> QED
  BY <1>2, <1>3, <1>4, <1>5

\* Putting a value behind two sequences, one after the other.
LEMMA AppendToBoth ==
  ASSUME NEW s \in Seq(Int), NEW t \in Seq(Int), NEW x \in Int
  PROVE  Append(s \o t, x) = s \o Append(t, x)
<1> DEFINE a == Append(s \o t, x)
           b == s \o Append(t, x)
<1>1. a \in Seq(Int) /\ b \in Seq(Int) /\ Len(a) = Len(s) + Len(t) + 1 /\ Len(b) = Len(a)
  OBVIOUS
<1>2. \A i \in 1..Len(a) : a[i] = b[i]
  OBVIOUS
<1> HIDE DEF a, b
<1>3. a = b
  BY <1>1, <1>2, SeqEqual
<1> QED
  BY <1>3 DEF a, b

LEMMA ClockInitInv == ClockInit => ClockInv
<1> SUFFICES ASSUME ClockInit PROVE ClockInv
  OBVIOUS
<1>1. vTimeOffsets = <<0>> /\ cPeerBlockCounts = <<0>> /\ offsets = <<>> /\ nTimeOffset = 0
  BY DEF ClockInit
<1>2. Len(Deciding) < 5
  <2>1. offsets \in Seq(Int) /\ Len(offsets) = 0
    BY <1>1
  <2>2. Len(Decided(offsets)) \in 1..Len(offsets) + 1
    BY <2>1, DecidedIs
  <2>3. Deciding = Decided(offsets)
    BY DEF Deciding, Decided
  <2> QED
    BY <2>1, <2>2, <2>3
<1>3. <<0>> \o <<>> = <<0>>
  OBVIOUS
<1> QED
  BY <1>1, <1>2, <1>3, ClockAssumption DEF ClockInv, ClockTypes, WindowInv, DecidedInv

LEMMA HearsClaimKeeps ==
  ASSUME ClockInv, NEW ip, NEW claim \in Claims, HearsClaim(ip, claim)
  PROVE  ClockInv'
<1>1. /\ vTimeOffsets \in Seq(Int) /\ Len(vTimeOffsets) \in 1..TimeWindow
      /\ cPeerBlockCounts \in Seq(Int) /\ Len(cPeerBlockCounts) \in 1..HeightWindow
      /\ offsets \in Seq(Int) /\ nTimeOffset \in Int
      /\ TimeWindow \in Nat \ {0} /\ TimeWindow % 2 = 0 /\ HeightWindow \in Nat \ {0}
      /\ claim.offset \in Int /\ claim.height \in Int /\ Deciding = Decided(offsets)
  BY ClockAssumption DEF ClockInv, ClockTypes, Deciding, Decided
<1>2. /\ cPeerBlockCounts' = Input(cPeerBlockCounts, HeightWindow, claim.height)
      /\ AddTimeData(ip, claim.offset)
  BY DEF HearsClaim
<1>3. cPeerBlockCounts' \in Seq(Int) /\ Len(cPeerBlockCounts') \in 1..HeightWindow
  <2> DEFINE c == Input(cPeerBlockCounts, HeightWindow, claim.height)
  <2>1. /\ c \in Seq(Int)
        /\ Len(c) = IF Len(cPeerBlockCounts) = HeightWindow THEN HeightWindow ELSE Len(cPeerBlockCounts) + 1
    BY <1>1, InputIs
  <2> HIDE DEF c
  <2>2. c \in Seq(Int) /\ Len(c) \in 1..HeightWindow
    BY <1>1, <2>1
  <2> QED
    BY <1>2, <2>2 DEF c
<1>4. CASE ip \in setKnown
  <2>1. UNCHANGED <<setKnown, vTimeOffsets, nTimeOffset, strMiscWarning, offsets>>
    BY <1>2, <1>4 DEF AddTimeData
  <2>2. Deciding' = Deciding
    BY <2>1 DEF Deciding
  <2> QED
    BY <1>1, <1>3, <2>1, <2>2 DEF ClockInv, ClockTypes, WindowInv, DecidedInv, SomeNear
<1>5. CASE ip \notin setKnown
  <2> DEFINE v == Input(vTimeOffsets, TimeWindow, claim.offset)
             median == Median(v)
             k == Len(offsets)
  <2>1. /\ vTimeOffsets' = v /\ offsets' = Append(offsets, claim.offset)
        /\ IF Len(v) < 5 \/ Len(v) % 2 = 0 THEN UNCHANGED <<nTimeOffset, strMiscWarning>>
           ELSE IF Magnitude(median) < MaxOffset
                THEN nTimeOffset' = median /\ UNCHANGED strMiscWarning
                ELSE nTimeOffset' = 0 /\ strMiscWarning' = Warning(v)
    BY <1>2, <1>5 DEF AddTimeData
  <2>2. /\ v \in Seq(Int)
        /\ Len(v) = IF Len(vTimeOffsets) = TimeWindow THEN TimeWindow ELSE Len(vTimeOffsets) + 1
        /\ Len(vTimeOffsets) # TimeWindow => v = Append(vTimeOffsets, claim.offset)
    BY <1>1, InputIs
  <2>3. offsets' \in Seq(Int) /\ Len(offsets') = k + 1 /\ k \in Nat
    BY <1>1, <2>1
  <2>4. IF k < TimeWindow THEN vTimeOffsets = <<0>> \o offsets /\ Len(vTimeOffsets) = k + 1
        ELSE Len(vTimeOffsets) = TimeWindow
    BY <1>1 DEF ClockInv, WindowInv
  <2>5. Len(v) = IF k + 1 < TimeWindow THEN k + 2 ELSE TimeWindow
    BY <1>1, <2>2, <2>3, <2>4
  <2>6. k + 1 < TimeWindow => v = <<0>> \o offsets'
    <3> SUFFICES ASSUME k + 1 < TimeWindow PROVE v = <<0>> \o offsets'
      OBVIOUS
    <3>1. vTimeOffsets = <<0>> \o offsets /\ Len(vTimeOffsets) # TimeWindow
      BY <1>1, <2>3, <2>4
    <3>2. v = Append(<<0>> \o offsets, claim.offset)
      BY <2>2, <3>1
    <3>3. <<0>> \in Seq(Int)
      OBVIOUS
    <3>4. Append(<<0>> \o offsets, claim.offset) = <<0>> \o Append(offsets, claim.offset)
      BY <1>1, <3>3, AppendToBoth
    <3> QED
      BY <2>1, <3>2, <3>4
  <2>7. WindowInv'
    BY <1>1, <2>1, <2>3, <2>5, <2>6 DEF WindowInv
  <2>8. Deciding' = Decided(offsets')
    BY DEF Deciding, Decided
  <2>9. median \in Int
    BY <1>1, <2>2, MedianIsNumber
  <2>10. ClockTypes'
    <3>1. vTimeOffsets' \in Seq(Int) /\ Len(vTimeOffsets') \in 1..TimeWindow
      <4> HIDE DEF v
      <4> QED
        BY <1>1, <2>1, <2>2
    <3>2. nTimeOffset' \in Int
      <4> HIDE DEF median, v
      <4> QED
        BY <1>1, <2>1, <2>9
    <3> QED
      BY <1>3, <2>3, <3>1, <3>2 DEF ClockTypes
  <2> HIDE DEF v, median, k
  <2>11. DecidedInv'
    <3>1. CASE k % 2 = 0 \/ k + 1 >= TimeWindow
      <4>1. Deciding' = Deciding
        BY <1>1, <2>1, <2>8, <3>1, DecidedGrows DEF k
      <4>2. UNCHANGED <<nTimeOffset, strMiscWarning>>
        <5>1. Len(v) % 2 = 0
          <6>1. CASE k + 1 < TimeWindow
            <7>1. k % 2 = 0
              BY <1>1, <2>3, <3>1, <6>1
            <7>2. (k + 2) % 2 = 0
              BY <2>3, <7>1
            <7> QED
              BY <2>5, <6>1, <7>2
          <6>2. CASE ~(k + 1 < TimeWindow)
            BY <1>1, <2>5, <6>2
          <6> QED
            BY <6>1, <6>2
        <5> QED
          BY <2>1, <5>1
      <4> QED
        BY <4>1, <4>2 DEF ClockInv, DecidedInv, SomeNear
    <3>2. CASE ~(k % 2 = 0 \/ k + 1 >= TimeWindow)
      <4>1. Deciding' = v
        <5>1. Decided(Append(offsets, claim.offset)) = <<0>> \o Append(offsets, claim.offset)
          BY <1>1, <3>2, DecidedGrows DEF k
        <5>2. k + 1 < TimeWindow
          BY <1>1, <2>3, <3>2
        <5> QED
          BY <2>1, <2>6, <2>8, <5>1, <5>2
      <4>2. Len(v) = k + 2 /\ Len(v) % 2 # 0
        BY <2>3, <2>5, <3>2, <1>1
      <4>3. CASE Len(v) < 5
        <5>1. Len(Deciding) < 5
          <6>1. Len(Decided(offsets)) \in 1..k + 1
            BY <1>1, DecidedIs DEF k
          <6> QED
            BY <1>1, <2>3, <4>2, <4>3, <6>1
        <5> QED
          BY <2>1, <4>1, <4>3, <5>1 DEF ClockInv, DecidedInv
      <4>4. CASE ~(Len(v) < 5)
        <5>1. strMiscWarning' # "" \/ SomeNear(v) \/ Magnitude(median) < MaxOffset
          BY <2>1, <4>2, <4>4 DEF Warning, SomeNear
        <5> QED
          BY <2>1, <4>1, <4>2, <4>4, <5>1 DEF DecidedInv, median, SomeNear
      <4> QED
        BY <4>3, <4>4
    <3> QED
      BY <3>1, <3>2
  <2> QED
    BY <2>7, <2>10, <2>11 DEF ClockInv
<1> QED
  BY <1>4, <1>5

LEMMA ClockStepInv == ClockInv /\ [ClockNext]_clockVars => ClockInv'
<1> SUFFICES ASSUME ClockInv, [ClockNext]_clockVars PROVE ClockInv'
  OBVIOUS
<1>1. CASE ClockNext
  BY <1>1, HearsClaimKeeps DEF ClockNext
<1>2. CASE UNCHANGED clockVars
  BY <1>2 DEF clockVars, ClockInv, ClockTypes, WindowInv, DecidedInv, Deciding, SomeNear
<1> QED
  BY <1>1, <1>2

LEMMA ClockDecides == ClockInv => MajorityDecides
<1> SUFFICES ASSUME ClockInv PROVE MajorityDecides
  OBVIOUS
<1>1. /\ cPeerBlockCounts \in Seq(Int) /\ Len(cPeerBlockCounts) > 0
      /\ MaxOffset \in Nat \ {0} /\ TotalBlocksEstimate \in Nat
      /\ \A c \in Claims : c.offset \in Int /\ c.height \in Int
  BY ClockAssumption DEF ClockInv, ClockTypes
<1>2. Deciding \in Seq(Int)
  BY DecidedIs DEF ClockInv, ClockTypes, Deciding, Decided
<1>3. Magnitude(nTimeOffset) < MaxOffset
  <2>1. Magnitude(0) = 0
    BY DEF Magnitude
  <2>2. \/ nTimeOffset = 0
        \/ nTimeOffset = Median(Deciding) /\ Magnitude(Median(Deciding)) < MaxOffset
    BY DEF ClockInv, DecidedInv
  <2> QED
    BY <1>1, <2>1, <2>2
<1>4. ASSUME NEW low \in {c.offset : c \in Claims} \cup {0}, NEW high \in {c.offset : c \in Claims} \cup {0},
             MostIn(Deciding, low, high), Len(Deciding) >= 5
      PROVE  /\ nTimeOffset \in low..high \cup {0}
             /\ -MaxOffset < low /\ high < MaxOffset => nTimeOffset \in low..high
             /\ (low >= MaxOffset \/ high <= -MaxOffset) =>
                  strMiscWarning # ""
                  \/ \E x \in {Deciding[i] : i \in DOMAIN Deciding} : x # 0 /\ Magnitude(x) < NearOffset
  <2> DEFINE m == Median(Deciding)
  <2>1. low \in Int /\ high \in Int
    BY <1>1
  <2>2. m \in low..high
    <3> DEFINE d == Deciding
    <3>1. d \in Seq(Int)
      BY <1>2
    <3>2. MostIn(d, low, high)
      BY <1>4
    <3>3. Len(d) > 0
      BY <1>2, <1>4
    <3> HIDE DEF d
    <3>4. Median(d) \in low..high
      BY <2>1, <3>1, <3>2, <3>3, MedianIsAmongMost
    <3> QED
      BY <3>4 DEF d
  <2>3. IF Magnitude(m) < MaxOffset THEN nTimeOffset = m
        ELSE nTimeOffset = 0 /\ (strMiscWarning # "" \/ SomeNear(Deciding))
    <3>1. ~(Len(Deciding) < 5)
      BY <1>2, <1>4
    <3> QED
      BY <3>1 DEF ClockInv, DecidedInv
  <2> HIDE DEF m
  <2>4. CASE Magnitude(m) < MaxOffset
    <3>1. -MaxOffset < m /\ m < MaxOffset
      BY <1>1, <2>1, <2>2, <2>4 DEF Magnitude
    <3>2. ~(low >= MaxOffset \/ high <= -MaxOffset)
      BY <1>1, <2>1, <2>2, <3>1
    <3> QED
      BY <2>2, <2>3, <2>4, <3>2
  <2>5. CASE ~(Magnitude(m) < MaxOffset)
    <3>1. m <= -MaxOffset \/ MaxOffset <= m
      BY <1>1, <2>1, <2>2, <2>5 DEF Magnitude
    <3>2. ~(-MaxOffset < low /\ high < MaxOffset)
      BY <1>1, <2>1, <2>2, <3>1
    <3> QED
      BY <2>3, <2>5, <3>2 DEF SomeNear
  <2> QED
    BY <2>4, <2>5
<1>5. ASSUME NEW height \in {c.height : c \in Claims}
      PROVE  /\ MostIn(cPeerBlockCounts, 0, height) /\ TotalBlocksEstimate <= height => GetNumBlocksOfPeers <= height
             /\ MostIn(cPeerBlockCounts, height, TotalBlocksEstimate + height) => GetNumBlocksOfPeers >= height
  <2> DEFINE m == Median(cPeerBlockCounts)
             e == TotalBlocksEstimate + height
             z == 0
  <2>1. height \in Int /\ m \in Int /\ e \in Int /\ z \in Int
    BY <1>1, MedianIsNumber
  <2>2. MostIn(cPeerBlockCounts, z, height) => m \in z..height
    <3> HIDE DEF z
    <3> QED
      BY <1>1, <2>1, MedianIsAmongMost
  <2>3. MostIn(cPeerBlockCounts, height, e) => m \in height..e
    <3> HIDE DEF e
    <3> QED
      BY <1>1, <2>1, MedianIsAmongMost
  <2>4. GetNumBlocksOfPeers = IF m < TotalBlocksEstimate THEN TotalBlocksEstimate ELSE m
    BY DEF GetNumBlocksOfPeers
  <2> HIDE DEF m
  <2>5. MostIn(cPeerBlockCounts, 0, height) /\ TotalBlocksEstimate <= height => GetNumBlocksOfPeers <= height
    BY <1>1, <2>1, <2>2, <2>4
  <2>6. MostIn(cPeerBlockCounts, height, TotalBlocksEstimate + height) => GetNumBlocksOfPeers >= height
    BY <1>1, <2>1, <2>3, <2>4
  <2> QED
    BY <2>5, <2>6
<1> QED
  BY <1>3, <1>4, <1>5 DEF MajorityDecides

\* What a node tells its user of alerts and of its clock is what was said (NodeIsWarned):
\* beside AlertsReachAll, no alert that is meant for it is more urgent than the one
\* GetWarnings shows; the offset AddTimeData sets is never a minority's, nor beyond what is
\* allowed, whoever speaks first, and a clock that most call wrong is warned of.
THEOREM NodeStaysWarned == AlertsSpec /\ ClockSpec => []NodeIsWarned
<1>1. AlertsSpec => []AlertsArePassedOn
  BY AlertsReachAll
<1>2. AlertsSpec => []AlertsInv
  BY AlertsInitInv, AlertsStepInv, PTL DEF AlertsSpec
<1>3. ClockSpec => []ClockInv
  BY ClockInitInv, ClockStepInv, PTL DEF ClockSpec
<1>4. AlertsInv /\ AlertsArePassedOn /\ ClockInv => NodeIsWarned
  BY UrgentIsShown, ClockDecides DEF NodeIsWarned, AlertsStand
<1> QED
  BY <1>1, <1>2, <1>3, <1>4, PTL

----------------------------------------------------------------------------
(* The locator of a branch.  The distances between the blocks it lists are *)
(* not more than what was passed before, and to retrace the steps meets    *)
(* each of them.                                                           *)

\* How the walk of GetDistanceBack goes on from a place in the list.
NextPlace(last) ==
  [nDistance |-> last.nDistance + last.nStep,
   nStep |-> IF last.nDistance + last.nStep > 10 THEN 2 * last.nStep ELSE last.nStep]

\* f is the walk of GetDistanceBack over the first n places.
Retraces(f, n) ==
  f = [i \in 1..n |-> IF i = 1 THEN [nDistance |-> 0, nStep |-> 1] ELSE NextPlace(f[i - 1])]

\* The walk of Set goes down from the tip.
WalkInv ==
  /\ tip \in Nat /\ fork \in 0..tip /\ nStep \in Nat \ {0}
  /\ pindex \in 0..tip \cup {NONE}
  /\ vHave \in Seq(0..tip)
  /\ vHave = <<>> => pindex = tip /\ nStep = 1
  /\ vHave # <<>> => vHave[1] = tip

\* No step is longer than what was passed before it and one; the first eleven are
\* of one block.
StepsInv ==
  /\ Len(vHave) <= 10 => nStep = 1
  /\ pindex # NONE => tip - pindex >= nStep - 1
  /\ pindex # NONE => IF Len(vHave) <= 11 THEN tip - pindex = Len(vHave) ELSE tip - pindex > 10
  /\ \A i \in 2..Len(vHave) : vHave[i - 1] - vHave[i] <= tip - vHave[i - 1] + 1
  /\ vHave # <<>> => (IF pindex = NONE THEN 0 ELSE pindex)
                      >= 2 * vHave[Len(vHave)] - tip - (IF pindex = NONE THEN 0 ELSE 1)

\* Retracing the steps gives the distances of the blocks that were listed, and of the
\* next one.
RetraceInv ==
  /\ \E f : Retraces(f, Len(vHave) + 1)
  /\ \A f : Retraces(f, Len(vHave) + 1) =>
       /\ \A i \in 1..Len(vHave) : f[i] \in [nDistance : Nat, nStep : Nat] /\ f[i].nDistance = tip - vHave[i]
       /\ f[Len(vHave) + 1] \in [nDistance : Nat, nStep : Nat]
       /\ IF pindex = NONE THEN f[Len(vHave) + 1].nDistance >= tip
          ELSE f[Len(vHave) + 1] = [nDistance |-> tip - pindex, nStep |-> nStep]

LocatorInv == WalkInv /\ StepsInv /\ RetraceInv

LEMMA LocatorInitInv == LocatorInit => LocatorInv
<1> SUFFICES ASSUME LocatorInit PROVE LocatorInv
  OBVIOUS
<1> USE HeightAssumption DEF LocatorInit, NONE
<1>1. WalkInv /\ Len(vHave) = 0
  BY DEF WalkInv
<1>2. StepsInv
  BY <1>1 DEF StepsInv
<1>3. Retraces([i \in 1..1 |-> [nDistance |-> 0, nStep |-> 1]], 1)
  BY DEF Retraces
<1>4. ASSUME NEW f, Retraces(f, 1) PROVE f[1] = [nDistance |-> 0, nStep |-> 1]
  BY <1>4 DEF Retraces
<1>5. RetraceInv
  BY <1>1, <1>3, <1>4 DEF RetraceInv, WalkInv
<1> QED
  BY <1>1, <1>2, <1>5 DEF LocatorInv

\* The walk over one place more, and over one less.
LEMMA RetraceOneMore ==
  ASSUME NEW n \in Nat \ {0}
  PROVE  /\ \A f : Retraces(f, n) => \E g : Retraces(g, n + 1)
         /\ \A g : Retraces(g, n + 1) =>
              \E f : /\ Retraces(f, n) /\ \A i \in 1..n : g[i] = f[i]
                     /\ g[n + 1] = NextPlace(f[n])
<1>1. ASSUME NEW f, Retraces(f, n) PROVE \E g : Retraces(g, n + 1)
  <2> DEFINE g == [i \in 1..(n + 1) |-> IF i <= n THEN f[i] ELSE NextPlace(f[n])]
  <2>1. \A i \in 1..n : g[i] = f[i]
    OBVIOUS
  <2>2. g[n + 1] = NextPlace(f[n])
    OBVIOUS
  <2>3. \A i \in 1..n : f[i] = IF i = 1 THEN [nDistance |-> 0, nStep |-> 1] ELSE NextPlace(f[i - 1])
    BY <1>1 DEF Retraces
  <2>4. \A i \in 1..(n + 1) :
          g[i] = IF i = 1 THEN [nDistance |-> 0, nStep |-> 1] ELSE NextPlace(g[i - 1])
    <3> TAKE i \in 1..(n + 1)
    <3> HIDE DEF g
    <3>1. CASE i = n + 1
      <4>1. i # 1 /\ i - 1 = n /\ n \in 1..n
        BY <3>1
      <4> QED
        BY <3>1, <4>1, <2>1, <2>2
    <3>2. CASE i \in 2..n
      <4>1. i # 1 /\ i \in 1..n /\ i - 1 \in 1..n
        BY <3>2
      <4> QED
        BY <4>1, <2>1, <2>3
    <3>3. CASE i = 1
      BY <3>3, <2>1, <2>3
    <3> QED
      BY <3>1, <3>2, <3>3
  <2>5. Retraces(g, n + 1)
    BY <2>4 DEF Retraces
  <2> QED
    BY <2>5
<1>2. ASSUME NEW g, Retraces(g, n + 1)
      PROVE  \E f : /\ Retraces(f, n) /\ \A i \in 1..n : g[i] = f[i]
                    /\ g[n + 1] = NextPlace(f[n])
  <2> DEFINE f == [i \in 1..n |-> g[i]]
  <2>1. \A i \in 1..n : f[i] = g[i]
    OBVIOUS
  <2>2. \A i \in 1..(n + 1) : g[i] = IF i = 1 THEN [nDistance |-> 0, nStep |-> 1] ELSE NextPlace(g[i - 1])
    BY <1>2 DEF Retraces
  <2>3. \A i \in 1..n : f[i] = IF i = 1 THEN [nDistance |-> 0, nStep |-> 1] ELSE NextPlace(f[i - 1])
    <3> TAKE i \in 1..n
    <3> HIDE DEF f
    <3>1. i \in 1..(n + 1) /\ (i # 1 => i - 1 \in 1..n)
      OBVIOUS
    <3> QED
      BY <3>1, <2>1, <2>2
  <2>4. Retraces(f, n)
    BY <2>3 DEF Retraces
  <2>5. g[n + 1] = NextPlace(f[n])
    <3>1. n + 1 \in 1..(n + 1) /\ n + 1 # 1 /\ (n + 1) - 1 = n /\ n \in 1..n
      OBVIOUS
    <3> HIDE DEF f
    <3> QED
      BY <3>1, <2>1, <2>2
  <2> QED
    BY <2>1, <2>4, <2>5
<1> QED
  BY <1>1, <1>2

LEMMA LocatorStepInv == LocatorInv /\ [LocatorNext]_locatorVars => LocatorInv'
<1> SUFFICES ASSUME LocatorInv, [LocatorNext]_locatorVars PROVE LocatorInv'
  OBVIOUS
<1>1. CASE UNCHANGED locatorVars
  BY <1>1, Zenon DEF locatorVars, LocatorInv, WalkInv, StepsInv, RetraceInv
<1>2. CASE Set
  <2> USE DEF NONE
  <2> DEFINE n == Len(vHave)
  <2>0. /\ n \in Nat /\ pindex \in 0..tip /\ tip \in Nat /\ nStep \in Nat \ {0} /\ vHave \in Seq(0..tip)
        /\ fork \in 0..tip
    BY <1>2 DEF LocatorInv, WalkInv, Set
  <2>1. /\ vHave' \in Seq(0..tip) /\ Len(vHave') = n + 1 /\ vHave'[n + 1] = pindex
        /\ \A i \in 1..n : vHave'[i] = vHave[i]
    BY <1>2, <2>0 DEF Set
  <2>2. /\ pindex' = IF nStep > pindex THEN NONE ELSE pindex - nStep
        /\ nStep' = IF n + 1 > 10 THEN 2 * nStep ELSE nStep
        /\ tip' = tip /\ fork' = fork
    BY <1>2, <2>1 DEF Set
  <2>3. WalkInv'
    <3>1. vHave'[1] = tip
      <4>1. CASE n = 0
        BY <4>1, <2>0, <2>1 DEF LocatorInv, WalkInv
      <4>2. CASE n # 0
        <5>1. 1 \in 1..n /\ vHave # <<>>
          BY <4>2, <2>0
        <5> QED
          BY <5>1, <2>1 DEF LocatorInv, WalkInv
      <4> QED
        BY <4>1, <4>2
    <3>2. vHave' # <<>>
      BY <2>1, <2>0
    <3> QED
      BY <2>0, <2>1, <2>2, <3>1, <3>2 DEF WalkInv
  <2>4. StepsInv'
    <3>1. pindex' # NONE => tip - pindex' >= nStep' - 1
      BY <2>0, <2>2 DEF LocatorInv, StepsInv
    <3>2. pindex' # NONE => IF n + 1 <= 11 THEN tip - pindex' = n + 1 ELSE tip - pindex' > 10
      <4>1. /\ n <= 10 => nStep = 1
            /\ IF n <= 11 THEN tip - pindex = n ELSE tip - pindex > 10
        BY <2>0 DEF LocatorInv, StepsInv
      <4>2. pindex' # NONE => tip - pindex' = (tip - pindex) + nStep
        BY <2>0, <2>2
      <4> HIDE DEF n
      <4> QED
        BY <2>0, <4>1, <4>2
    <3>0. n + 1 <= 10 => nStep' = 1
      BY <2>0, <2>2 DEF LocatorInv, StepsInv
    <3>3. \A i \in 2..(n + 1) : vHave'[i - 1] - vHave'[i] <= tip - vHave'[i - 1] + 1
      <4> TAKE i \in 2..(n + 1)
      <4>1. CASE i <= n
        <5>1. i \in 2..n /\ i \in 1..n /\ i - 1 \in 1..n
          BY <4>1, <2>0
        <5> QED
          BY <5>1, <2>1 DEF LocatorInv, StepsInv
      <4>2. CASE i = n + 1
        <5>1. n \in 1..n /\ i - 1 = n /\ vHave # <<>> /\ vHave[n] \in 0..tip
          BY <4>2, <2>0
        <5>2. pindex >= 2 * vHave[n] - tip - 1
          BY <5>1, <2>0 DEF LocatorInv, StepsInv
        <5>3. vHave'[i - 1] = vHave[n] /\ vHave'[i] = pindex
          BY <5>1, <4>2, <2>1
        <5> HIDE DEF n
        <5> QED
          BY <5>1, <5>2, <5>3, <2>0
      <4> QED
        BY <4>1, <4>2, <2>0
    <3>4. (IF pindex' = NONE THEN 0 ELSE pindex')
            >= 2 * pindex - tip - (IF pindex' = NONE THEN 0 ELSE 1)
      BY <2>0, <2>2 DEF LocatorInv, StepsInv
    <3> QED
      BY <3>0, <3>1, <3>2, <3>3, <3>4, <2>0, <2>1, <2>2 DEF StepsInv
  <2>5. RetraceInv'
    <3>1. n + 1 \in Nat \ {0}
      BY <2>0
    <3>2. \E g : Retraces(g, n + 2)
      <4>1. PICK f : Retraces(f, n + 1)
        BY DEF LocatorInv, RetraceInv
      <4>2. \E g : Retraces(g, (n + 1) + 1)
        BY <4>1, <3>1, RetraceOneMore, Zenon
      <4>3. (n + 1) + 1 = n + 2
        BY <2>0
      <4> QED
        BY <4>2, <4>3
    <3>3. ASSUME NEW g, Retraces(g, n + 2)
          PROVE  /\ \A i \in 1..(n + 1) : /\ g[i] \in [nDistance : Nat, nStep : Nat]
                                          /\ g[i].nDistance = tip - vHave'[i]
                 /\ g[n + 2] \in [nDistance : Nat, nStep : Nat]
                 /\ IF pindex' = NONE THEN g[n + 2].nDistance >= tip
                    ELSE g[n + 2] = [nDistance |-> tip - pindex', nStep |-> nStep']
      <4>1. n + 2 = (n + 1) + 1
        BY <2>0
      <4>2. PICK f : /\ Retraces(f, n + 1) /\ \A i \in 1..(n + 1) : g[i] = f[i]
                     /\ g[n + 2] = NextPlace(f[n + 1])
        <5>1. Retraces(g, (n + 1) + 1)
          BY <3>3, <4>1
        <5>2. \E f : /\ Retraces(f, n + 1) /\ \A i \in 1..(n + 1) : g[i] = f[i]
                     /\ g[(n + 1) + 1] = NextPlace(f[n + 1])
          BY <5>1, <3>1, RetraceOneMore, Zenon
        <5> QED
          BY <5>2, <4>1
      <4>3. /\ \A i \in 1..n : f[i] \in [nDistance : Nat, nStep : Nat] /\ f[i].nDistance = tip - vHave[i]
            /\ f[n + 1] = [nDistance |-> tip - pindex, nStep |-> nStep]
        BY <4>2, <2>0 DEF LocatorInv, RetraceInv
      <4>4. ASSUME NEW i \in 1..(n + 1)
            PROVE  g[i] \in [nDistance : Nat, nStep : Nat] /\ g[i].nDistance = tip - vHave'[i]
        <5>1. CASE i \in 1..n
          BY <5>1, <4>2, <4>3, <2>1
        <5>2. CASE i = n + 1
          <6>1. g[i] = [nDistance |-> tip - pindex, nStep |-> nStep] /\ vHave'[i] = pindex
            BY <5>2, <4>2, <4>3, <2>1
          <6> QED
            BY <6>1, <2>0
        <5> QED
          BY <5>1, <5>2, <2>0
      <4>5. g[n + 2] = [nDistance |-> tip - pindex + nStep,
                        nStep |-> IF tip - pindex + nStep > 10 THEN 2 * nStep ELSE nStep]
        BY <4>2, <4>3 DEF NextPlace
      <4>6. g[n + 2] \in [nDistance : Nat, nStep : Nat]
        BY <4>5, <2>0
      <4>7. IF pindex' = NONE THEN g[n + 2].nDistance >= tip
            ELSE g[n + 2] = [nDistance |-> tip - pindex', nStep |-> nStep']
        <5>1. CASE nStep > pindex
          BY <5>1, <4>5, <2>0, <2>2
        <5>2. CASE ~ (nStep > pindex)
          <6>1. pindex' = pindex - nStep /\ tip - pindex' = tip - pindex + nStep /\ pindex' # NONE
            BY <5>2, <2>0, <2>2
          <6>2. n + 1 > 10 <=> tip - pindex' > 10
            BY <6>1, <2>0, <2>2, <2>4, <2>1 DEF LocatorInv, StepsInv
          <6> QED
            BY <6>1, <6>2, <4>5, <2>2
        <5> QED
          BY <5>1, <5>2, <2>0
      <4> QED
        BY <4>4, <4>6, <4>7
    <3>4. Len(vHave') + 1 = n + 2 /\ Len(vHave') = n + 1 /\ tip' = tip
      BY <2>0, <2>1, <2>2
    <3> QED
      BY <3>2, <3>3, <3>4 DEF RetraceInv
  <2> QED
    BY <2>3, <2>4, <2>5 DEF LocatorInv
<1> QED
  BY <1>1, <1>2 DEF LocatorNext

\* What a reader finds first is at a place that is listed.
LEMMA FirstSharedPlace ==
  ASSUME LocatorInv
  PROVE  /\ FirstShared \in 1..(Len(vHave) + 1)
         /\ Locator[FirstShared] <= fork
         /\ \A j \in 1..(FirstShared - 1) : Locator[j] > fork
<1> DEFINE n == Len(vHave)
<1>1. /\ n \in Nat /\ vHave \in Seq(0..tip) /\ tip \in Nat /\ fork \in 0..tip
  BY DEF LocatorInv, WalkInv
<1>2. /\ DOMAIN Locator = 1..(n + 1) /\ Locator[n + 1] = 0
      /\ \A i \in 1..n : Locator[i] = vHave[i]
  BY <1>1 DEF Locator, hashGenesisBlock
<1>3. \A i \in 1..(n + 1) : Locator[i] \in 0..tip
  BY <1>1, <1>2
<1> DEFINE T == {i \in 1..(n + 1) : Locator[i] <= fork}
<1>4. T \subseteq Nat /\ n + 1 \in T
  BY <1>1, <1>2
<1>5. PICK i \in T : \A m \in T : i <= m
  BY <1>4, LeastNumber
<1>6. \A j \in 1..(i - 1) : Locator[j] > fork
  BY <1>5, <1>1, <1>3
<1>7. \E k \in DOMAIN Locator : /\ Locator[k] <= fork
                                /\ \A j \in 1..(k - 1) : Locator[j] > fork
  BY <1>5, <1>6, <1>2
<1> QED
  BY <1>7, <1>2 DEF FirstShared

\* GetDistanceBack retraces the steps.
LEMMA DistanceIsRetraced ==
  ASSUME LocatorInv
  PROVE  \E f : Retraces(f, Len(vHave) + 1) /\ GetDistanceBack = f[FirstShared].nDistance
<1>1. Len(Locator) = Len(vHave) + 1
  BY DEF LocatorInv, WalkInv, Locator
<1>2. \E f : Retraces(f, Len(Locator))
  BY <1>1 DEF LocatorInv, RetraceInv
<1> QED
  BY <1>1, <1>2 DEF GetDistanceBack, Retraces, NextPlace

\* A reader of a locator starts at the fork, or less far below it than the branch has
\* blocks above it, and GetDistanceBack, which retraces the steps of Set, gives the
\* distance of that block (NotTooFarBack), for branches of any length.
THEOREM LocatorIsCloseToFork == LocatorSpec => []NotTooFarBack
<1>1. ASSUME LocatorInv PROVE NotTooFarBack
  <2> SUFFICES ASSUME Listed PROVE NotTooFarBack
    BY DEF NotTooFarBack
  <2> DEFINE n == Len(vHave)
             k == FirstShared
  <2>1. /\ n \in Nat /\ vHave \in Seq(0..tip) /\ tip \in Nat /\ fork \in 0..tip /\ pindex = NONE
    BY <1>1 DEF LocatorInv, WalkInv, Listed
  <2>2. n >= 1 /\ vHave # <<>> /\ vHave[1] = tip
    BY <1>1, <2>1 DEF LocatorInv, WalkInv, NONE
  <2>3. /\ Locator[n + 1] = 0 /\ \A i \in 1..n : Locator[i] = vHave[i] /\ vHave[i] \in 0..tip
    BY <2>1 DEF Locator, hashGenesisBlock
  <2>4. /\ k \in 1..(n + 1) /\ Locator[k] <= fork /\ \A j \in 1..(k - 1) : Locator[j] > fork
    BY <1>1, FirstSharedPlace
  <2>5. Locator[k] \in 0..tip
    <3>1. k \in 1..n \/ k = n + 1
      BY <2>1, <2>4
    <3>2. 0 \in 0..tip
      BY <2>1
    <3> HIDE DEF k, n
    <3> QED
      BY <3>1, <3>2, <2>3
  <2>6. \A i \in 2..(n + 1) : Locator[i - 1] - Locator[i] <= tip - Locator[i - 1] + 1
    <3> TAKE i \in 2..(n + 1)
    <3>1. CASE i \in 2..n
      <4>1. i \in 1..n /\ i - 1 \in 1..n
        BY <3>1, <2>1
      <4> QED
        BY <3>1, <4>1, <2>3, <1>1 DEF LocatorInv, StepsInv
    <3>2. CASE i = n + 1
      <4>1. n \in 1..n /\ i - 1 = n
        BY <3>2, <2>1, <2>2
      <4>2. 0 >= 2 * vHave[n] - tip
        BY <2>1, <2>2, <1>1 DEF LocatorInv, StepsInv, NONE
      <4>3. Locator[i - 1] = vHave[n] /\ Locator[i] = 0 /\ vHave[n] \in 0..tip
        BY <4>1, <2>3, <3>2
      <4> HIDE DEF n
      <4> QED
        BY <4>2, <4>3, <2>1
    <3> QED
      BY <3>1, <3>2, <2>1
  <2>7. Locator[k] = fork \/ fork - Locator[k] < tip - fork
    <3>1. CASE k = 1
      <4>1. Locator[k] = tip
        BY <3>1, <2>2, <2>3, <2>1
      <4> QED
        BY <4>1, <2>1, <2>4
    <3>2. CASE k # 1
      <4>1. k \in 2..(n + 1) /\ k - 1 \in 1..(k - 1) /\ k - 1 \in 1..n
        BY <3>2, <2>4, <2>1
      <4>2. Locator[k - 1] > fork /\ Locator[k - 1] \in 0..tip
        BY <4>1, <2>3, <2>4
      <4>3. Locator[k - 1] - Locator[k] <= tip - Locator[k - 1] + 1
        BY <4>1, <2>6
      <4> QED
        BY <4>2, <4>3, <2>5, <2>1
    <3> QED
      BY <3>1, <3>2
  <2>8. PICK f : Retraces(f, n + 1) /\ GetDistanceBack = f[k].nDistance
    BY <1>1, DistanceIsRetraced
  <2>9. /\ \A i \in 1..n : f[i].nDistance = tip - vHave[i]
        /\ f[n + 1].nDistance >= tip
    BY <1>1, <2>1, <2>8 DEF LocatorInv, RetraceInv
  <2>10. IF k <= n THEN GetDistanceBack = tip - Locator[k] ELSE GetDistanceBack >= tip
    <3>1. CASE k <= n
      BY <3>1, <2>1, <2>3, <2>4, <2>8, <2>9
    <3>2. CASE ~ (k <= n)
      <4>1. k = n + 1
        BY <3>2, <2>1, <2>4
      <4> QED
        BY <3>2, <4>1, <2>8, <2>9
    <3> QED
      BY <3>1, <3>2
  <2> HIDE DEF n, k
  <2> QED
    BY <2>7, <2>10 DEF NotTooFarBack, GetBlockIndex, n, k
<1> QED
  BY <1>1, LocatorInitInv, LocatorStepInv, PTL DEF LocatorSpec
----------------------------------------------------------------------------
(* Messages in a stream of bytes.  What a buffer holds is compared with what *)
(* was delivered by the messages that are in both, whatever comes behind.    *)

\* What is left of a sequence behind its first k members.
From(s, k) == SubSeq(s, k + 1, Len(s))

\* A piece of a sequence, place by place.
LEMMA PieceIs ==
  ASSUME NEW S, NEW s \in Seq(S), NEW a \in 1..(Len(s) + 1), NEW b \in (a - 1)..Len(s)
  PROVE  /\ SubSeq(s, a, b) \in Seq(S)
         /\ Len(SubSeq(s, a, b)) = b - a + 1
         /\ \A i \in 1..(b - a + 1) : SubSeq(s, a, b)[i] = s[a + i - 1]
<1>1. Len(s) \in Nat /\ a \in Int /\ b \in Int
  OBVIOUS
<1>2. \A i \in a..b : s[i] \in S
  BY <1>1
<1>3. /\ SubSeq(s, a, b) \in Seq(S)
      /\ Len(SubSeq(s, a, b)) = IF a <= b THEN b - a + 1 ELSE 0
      /\ \A i \in 1..(b - a + 1) : SubSeq(s, a, b)[i] = s[a + i - 1]
  BY <1>1, <1>2, SubSeqProperties
<1>4. Len(SubSeq(s, a, b)) = b - a + 1
  BY <1>1, <1>3
<1> QED
  BY <1>3, <1>4

LEMMA RestIs ==
  ASSUME NEW S, NEW s \in Seq(S), NEW k \in 0..Len(s)
  PROVE  /\ From(s, k) \in Seq(S)
         /\ Len(From(s, k)) = Len(s) - k
         /\ \A i \in 1..(Len(s) - k) : From(s, k)[i] = s[k + i]
<1>1. Len(s) \in Nat /\ k + 1 \in 1..(Len(s) + 1) /\ Len(s) \in ((k + 1) - 1)..Len(s)
  OBVIOUS
<1>2. /\ SubSeq(s, k + 1, Len(s)) \in Seq(S)
      /\ Len(SubSeq(s, k + 1, Len(s))) = Len(s) - (k + 1) + 1
      /\ \A i \in 1..(Len(s) - (k + 1) + 1) : SubSeq(s, k + 1, Len(s))[i] = s[(k + 1) + i - 1]
  BY <1>1, PieceIs
<1>3. Len(s) - (k + 1) + 1 = Len(s) - k /\ \A i \in 1..(Len(s) - k) : (k + 1) + i - 1 = k + i
  BY <1>1
<1> QED
  BY <1>2, <1>3 DEF From

\* The rest of a rest, of two sequences, and of all.
LEMMA RestOfRest ==
  ASSUME NEW S, NEW s \in Seq(S), NEW j \in 0..Len(s), NEW k \in 0..(Len(s) - j)
  PROVE  From(From(s, j), k) = From(s, j + k)
<1>1. Len(s) \in Nat /\ j + k \in 0..Len(s)
  OBVIOUS
<1>2. /\ From(s, j) \in Seq(S) /\ Len(From(s, j)) = Len(s) - j
      /\ \A i \in 1..(Len(s) - j) : From(s, j)[i] = s[j + i]
  BY RestIs
<1>3. k \in 0..Len(From(s, j))
  BY <1>2
<1>4. /\ From(From(s, j), k) \in Seq(S) /\ Len(From(From(s, j), k)) = Len(From(s, j)) - k
      /\ \A i \in 1..(Len(From(s, j)) - k) : From(From(s, j), k)[i] = From(s, j)[k + i]
  BY <1>2, <1>3, RestIs
<1>5. /\ From(s, j + k) \in Seq(S) /\ Len(From(s, j + k)) = Len(s) - (j + k)
      /\ \A i \in 1..(Len(s) - (j + k)) : From(s, j + k)[i] = s[(j + k) + i]
  BY <1>1, RestIs
<1>6. \A i \in 1..(Len(s) - (j + k)) : From(From(s, j), k)[i] = From(s, j + k)[i]
  <2> TAKE i \in 1..(Len(s) - (j + k))
  <2>1. k + i \in 1..(Len(s) - j) /\ i \in 1..(Len(From(s, j)) - k) /\ j + (k + i) = (j + k) + i
    BY <1>1, <1>2
  <2> QED
    BY <1>2, <1>4, <1>5, <2>1
<1>7. Len(From(From(s, j), k)) = Len(s) - (j + k)
  BY <1>1, <1>2, <1>4
<1> QED
  BY <1>4, <1>5, <1>6, <1>7, SeqEqual

LEMMA RestOfBoth ==
  ASSUME NEW S, NEW s \in Seq(S), NEW t \in Seq(S), NEW k \in 0..Len(s)
  PROVE  From(s \o t, k) = From(s, k) \o t
<1> DEFINE st == s \o t
           r == From(s, k)
<1>1. /\ st \in Seq(S) /\ Len(st) = Len(s) + Len(t)
      /\ \A i \in 1..(Len(s) + Len(t)) : st[i] = IF i <= Len(s) THEN s[i] ELSE t[i - Len(s)]
  BY ConcatProperties
<1>2. Len(s) \in Nat /\ Len(t) \in Nat /\ k \in 0..Len(st)
  BY <1>1
<1>3. r \in Seq(S) /\ Len(r) = Len(s) - k /\ \A i \in 1..(Len(s) - k) : r[i] = s[k + i]
  BY RestIs
<1>4. /\ From(st, k) \in Seq(S) /\ Len(From(st, k)) = Len(st) - k
      /\ \A i \in 1..(Len(st) - k) : From(st, k)[i] = st[k + i]
  <2> HIDE DEF st
  <2> QED
    BY <1>1, <1>2, RestIs
<1> HIDE DEF r, st
<1>5. /\ r \o t \in Seq(S) /\ Len(r \o t) = Len(r) + Len(t)
      /\ \A i \in 1..(Len(r) + Len(t)) : (r \o t)[i] = IF i <= Len(r) THEN r[i] ELSE t[i - Len(r)]
  BY <1>3, ConcatProperties
<1>6. \A i \in 1..Len(From(st, k)) : From(st, k)[i] = (r \o t)[i]
  <2> TAKE i \in 1..Len(From(st, k))
  <2>1. i \in 1..(Len(st) - k) /\ k + i \in 1..(Len(s) + Len(t)) /\ i \in 1..(Len(r) + Len(t))
    BY <1>1, <1>2, <1>3, <1>4
  <2>2. (k + i <= Len(s)) <=> (i <= Len(r))
    BY <1>2, <1>3
  <2>3. (k + i) - Len(s) = i - Len(r)
    BY <1>2, <1>3
  <2>4. i <= Len(r) => r[i] = s[k + i]
    BY <1>2, <1>3, <2>1
  <2> QED
    BY <1>1, <1>4, <1>5, <2>1, <2>2, <2>3, <2>4
<1>7. Len(From(st, k)) = Len(r \o t)
  BY <1>1, <1>2, <1>3, <1>4, <1>5
<1>8. From(st, k) = r \o t
  BY <1>4, <1>5, <1>6, <1>7, SeqEqual
<1> QED
  BY <1>8 DEF r, st

LEMMA CutAndRest ==
  ASSUME NEW S, NEW s \in Seq(S), NEW k \in 0..Len(s)
  PROVE  SubSeq(s, 1, k) \o From(s, k) = s
<1>1. 1 \in 1..(Len(s) + 1) /\ k \in (1 - 1)..Len(s) /\ Len(s) \in k..Len(s)
  OBVIOUS
<1>2. SubSeq(s, 1, k) \o SubSeq(s, k + 1, Len(s)) = SubSeq(s, 1, Len(s))
  BY <1>1, ConcatAdjacentSubSeq
<1> QED
  BY <1>2, SubSeqFull DEF From
\* A buffer of bytes that are read up to a place in it.
IsBuffer(s, B) ==
  /\ s \in [vch: Seq(B), nReadPos: Nat]
  /\ s.nReadPos <= Len(s.vch)

LEMMA UnreadIs ==
  ASSUME NEW B, NEW s, IsBuffer(s, B)
  PROVE  /\ Unread(s) \in Seq(B) /\ Unread(s) = From(s.vch, s.nReadPos)
         /\ Len(Unread(s)) = BufferSize(s) /\ BufferSize(s) \in Nat
<1>1. s.vch \in Seq(B) /\ s.nReadPos \in 0..Len(s.vch) /\ Len(s.vch) \in Nat
  BY DEF IsBuffer
<1>2. Unread(s) = From(s.vch, s.nReadPos)
  BY DEF Unread, From
<1>3. From(s.vch, s.nReadPos) \in Seq(B) /\ Len(From(s.vch, s.nReadPos)) = Len(s.vch) - s.nReadPos
  BY <1>1, RestIs
<1> QED
  BY <1>1, <1>2, <1>3 DEF BufferSize

LEMMA StreamOfIs ==
  ASSUME NEW B, NEW bytes \in Seq(B)
  PROVE  IsBuffer(StreamOf(bytes), B) /\ Unread(StreamOf(bytes)) = bytes
<1>1. StreamOf(bytes) \in [vch: Seq(B), nReadPos: Nat]
      /\ StreamOf(bytes).vch = bytes /\ StreamOf(bytes).nReadPos = 0
  BY DEF StreamOf
<1>2. Len(bytes) \in Nat
  OBVIOUS
<1>3. Unread(StreamOf(bytes)) = SubSeq(bytes, 1, Len(bytes))
  BY <1>1 DEF Unread
<1> QED
  BY <1>1, <1>2, <1>3, SubSeqFull DEF IsBuffer

LEMMA AdvancedIs ==
  ASSUME NEW B, NEW s, IsBuffer(s, B), NEW n \in 0..BufferSize(s)
  PROVE  IsBuffer(Advanced(s, n), B) /\ Unread(Advanced(s, n)) = From(Unread(s), n)
<1>1. /\ Unread(s) \in Seq(B) /\ Unread(s) = From(s.vch, s.nReadPos)
      /\ Len(Unread(s)) = BufferSize(s) /\ BufferSize(s) \in Nat
  BY UnreadIs
<1>2. CASE n = BufferSize(s)
  <2>1. Advanced(s, n) = StreamOf(<<>>) /\ <<>> \in Seq(B)
    BY <1>2 DEF Advanced
  <2>2. From(Unread(s), n) = <<>>
    <3>1. n + 1 \in Int /\ Len(Unread(s)) \in Int /\ Len(Unread(s)) < n + 1
      BY <1>1, <1>2
    <3> QED
      BY <3>1, SubSeqEmpty DEF From
  <2> QED
    BY <2>1, <2>2, StreamOfIs
<1>3. CASE n # BufferSize(s)
  <2>1. /\ s.vch \in Seq(B) /\ s.nReadPos \in 0..Len(s.vch) /\ Len(s.vch) \in Nat
        /\ s \in [vch: Seq(B), nReadPos: Nat]
    BY DEF IsBuffer
  <2>2. n \in 0..(Len(s.vch) - s.nReadPos) /\ n \in Nat
    BY <1>1 DEF BufferSize
  <2>3. Advanced(s, n) = [s EXCEPT !.nReadPos = s.nReadPos + n]
    BY <1>3 DEF Advanced
  <2>4. /\ Advanced(s, n).vch = s.vch /\ Advanced(s, n).nReadPos = s.nReadPos + n
        /\ Advanced(s, n) \in [vch: Seq(B), nReadPos: Nat]
    BY <2>1, <2>2, <2>3
  <2>5. s.nReadPos + n <= Len(s.vch)
    BY <2>1, <2>2
  <2>6. Unread(Advanced(s, n)) = From(s.vch, s.nReadPos + n)
    BY <2>4 DEF Unread, From
  <2>7. From(From(s.vch, s.nReadPos), n) = From(s.vch, s.nReadPos + n)
    BY <2>1, <2>2, RestOfRest
  <2> QED
    BY <1>1, <2>4, <2>5, <2>6, <2>7 DEF IsBuffer
<1> QED
  BY <1>2, <1>3

LEMMA AppendedIs ==
  ASSUME NEW B, NEW s, IsBuffer(s, B), NEW bytes \in Seq(B)
  PROVE  IsBuffer(Appended(s, bytes), B) /\ Unread(Appended(s, bytes)) = Unread(s) \o bytes
<1>1. /\ s.vch \in Seq(B) /\ s.nReadPos \in 0..Len(s.vch) /\ Len(s.vch) \in Nat
      /\ s \in [vch: Seq(B), nReadPos: Nat]
  BY DEF IsBuffer
<1>2. s.vch \o bytes \in Seq(B) /\ Len(s.vch \o bytes) = Len(s.vch) + Len(bytes) /\ Len(bytes) \in Nat
  BY <1>1, ConcatProperties
<1>3. Appended(s, bytes) = [s EXCEPT !.vch = s.vch \o bytes]
  BY DEF Appended
<1>4. /\ Appended(s, bytes).vch = s.vch \o bytes /\ Appended(s, bytes).nReadPos = s.nReadPos
      /\ Appended(s, bytes) \in [vch: Seq(B), nReadPos: Nat]
  BY <1>1, <1>2, <1>3
<1>5. Unread(Appended(s, bytes)) = From(s.vch \o bytes, s.nReadPos)
  BY <1>4 DEF Unread, From
<1>6. From(s.vch \o bytes, s.nReadPos) = From(s.vch, s.nReadPos) \o bytes
  BY <1>1, RestOfBoth
<1>7. IsBuffer(Appended(s, bytes), B)
  BY <1>1, <1>2, <1>4 DEF IsBuffer
<1>8. Unread(s) = From(s.vch, s.nReadPos)
  BY UnreadIs
<1> QED
  BY <1>5, <1>6, <1>7, <1>8

LEMMA CompactedIs ==
  ASSUME NEW B, NEW s, IsBuffer(s, B)
  PROVE  IsBuffer(Compacted(s), B) /\ Unread(Compacted(s)) = Unread(s)
BY UnreadIs, StreamOfIs DEF Compacted

\* A rest after as much as is in front of it.
LEMMA RestOfSecond ==
  ASSUME NEW S, NEW s \in Seq(S), NEW t \in Seq(S)
  PROVE  From(s \o t, Len(s)) = t
<1>1. Len(s) \in 0..Len(s) /\ Len(s) \in Nat
  OBVIOUS
<1>2. From(s \o t, Len(s)) = From(s, Len(s)) \o t
  BY <1>1, RestOfBoth
<1>3. From(s, Len(s)) = <<>>
  <2>1. Len(s) + 1 \in Int /\ Len(s) \in Int /\ Len(s) < Len(s) + 1
    BY <1>1
  <2> QED
    BY <2>1, SubSeqEmpty DEF From
<1> QED
  BY <1>2, <1>3, ConcatEmptySeq

LEMMA InsertedIs ==
  ASSUME NEW B, NEW s, IsBuffer(s, B), NEW bytes \in Seq(B)
  PROVE  IsBuffer(Inserted(s, 0, bytes), B) /\ Unread(Inserted(s, 0, bytes)) = bytes \o Unread(s)
<1> DEFINE first == s.nReadPos - Len(bytes)
           t == Inserted(s, 0, bytes)
<1>1. /\ s.vch \in Seq(B) /\ s.nReadPos \in 0..Len(s.vch) /\ Len(s.vch) \in Nat
      /\ s \in [vch: Seq(B), nReadPos: Nat] /\ Len(bytes) \in Nat /\ first \in Int
      /\ s.nReadPos \in Nat
  BY DEF IsBuffer
<1>2. Unread(s) \in Seq(B) /\ Unread(s) = From(s.vch, s.nReadPos)
  BY UnreadIs
<1>3. bytes \o Unread(s) \in Seq(B)
  BY <1>2, ConcatProperties
<1>4. ASSUME NEW k \in 0..s.nReadPos,
             t = [vch |-> SubSeq(s.vch, 1, k) \o bytes \o Unread(s), nReadPos |-> k]
      PROVE  IsBuffer(t, B) /\ Unread(t) = bytes \o Unread(s)
  <2> DEFINE front == SubSeq(s.vch, 1, k)
             all == front \o (bytes \o Unread(s))
  <2>1. 1 \in 1..(Len(s.vch) + 1) /\ k \in (1 - 1)..Len(s.vch) /\ k \in Nat
    BY <1>1
  <2>2. front \in Seq(B) /\ Len(front) = k - 1 + 1
    BY <1>1, <2>1, PieceIs
  <2>3. Len(front) = k
    BY <2>1, <2>2
  <2> HIDE DEF front
  <2>4. front \o bytes \o Unread(s) = all
    BY <1>2, <2>2, ConcatAssociative
  <2>5. all \in Seq(B) /\ Len(all) = k + Len(bytes \o Unread(s)) /\ Len(bytes \o Unread(s)) \in Nat
    <3> DEFINE back == bytes \o Unread(s)
    <3>1. back \in Seq(B)
      BY <1>3
    <3> HIDE DEF back
    <3>2. Len(back) \in Nat /\ front \in Seq(B)
      BY <2>2, <3>1
    <3>3. front \o back \in Seq(B) /\ Len(front \o back) = Len(front) + Len(back)
      BY <3>1, <3>2, ConcatProperties
    <3> QED
      BY <2>3, <3>2, <3>3 DEF back
  <2>6. t = [vch |-> all, nReadPos |-> k]
    BY <1>4, <2>4 DEF front
  <2>7. t.vch = all /\ t.nReadPos = k
    BY <2>6
  <2>8. IsBuffer(t, B)
    <3> HIDE DEF t, all
    <3>1. t \in [vch: Seq(B), nReadPos: Nat]
      BY <2>1, <2>5, <2>6
    <3>2. k <= Len(all)
      BY <2>1, <2>5
    <3> QED
      BY <2>7, <3>1, <3>2 DEF IsBuffer
  <2>9. Unread(t) = From(all, k)
    <3> HIDE DEF t, all
    <3> QED
      BY <2>7 DEF Unread, From
  <2>10. From(all, k) = bytes \o Unread(s)
    <3>1. From(front \o (bytes \o Unread(s)), Len(front)) = bytes \o Unread(s)
      BY <1>3, <2>2, RestOfSecond
    <3> QED
      BY <2>3, <3>1
  <2> QED
    BY <2>8, <2>9, <2>10
<1>5. CASE first >= 0
  <2>1. first \in 0..s.nReadPos
    BY <1>1, <1>5
  <2>2. t = [vch |-> SubSeq(s.vch, 1, first) \o bytes \o Unread(s), nReadPos |-> first]
    BY <1>5 DEF Inserted
  <2> HIDE DEF first, t
  <2> QED
    BY <1>4, <2>1, <2>2 DEF t
<1>6. CASE ~(first >= 0)
  <2>1. s.nReadPos + 0 = s.nReadPos /\ s.nReadPos \in 0..s.nReadPos
    BY <1>1
  <2>2. t = [s EXCEPT !.vch = SubSeq(s.vch, 1, s.nReadPos + 0) \o bytes
                              \o SubSeq(s.vch, (s.nReadPos + 0) + 1, Len(s.vch))]
    BY <1>6 DEF Inserted
  <2>3. t = [s EXCEPT !.vch = SubSeq(s.vch, 1, s.nReadPos) \o bytes \o Unread(s)]
    BY <2>1, <2>2 DEF Unread
  <2>4. t = [vch |-> SubSeq(s.vch, 1, s.nReadPos) \o bytes \o Unread(s), nReadPos |-> s.nReadPos]
    BY <1>1, <2>3
  <2> QED
    BY <1>4, <2>1, <2>4, Zenon
<1> QED
  BY <1>5, <1>6
\* The data of a message whose header is at i, the place the search goes on at, and
\* the messages that are read there.
DataAt(s, i) == SubSeq(s, i + nHeaderSize, i + nHeaderSize + s[i + 2] - 1)
HasHeader(s, i) == i + nHeaderSize <= Len(s) + 1
StartsAt(s, i) == HasHeader(s, i) /\ SubSeq(s, i, i + 1) = pchMessageStart
FitsAt(s, i) == s[i + 2] <= MAX_SIZE
IsCutAt(s, i) == i + nHeaderSize + s[i + 2] > Len(s) + 1
IsSoundAt(s, i) == Checksum(DataAt(s, i)) = s[i + 3]

PlaceAfter(s, i) ==
  IF ~HasHeader(s, i) THEN Len(s) + 1
  ELSE IF ~StartsAt(s, i) THEN i + 1
  ELSE IF ~FitsAt(s, i) THEN i + nHeaderSize
  ELSE IF IsCutAt(s, i) THEN Len(s) + 1
  ELSE IF ~IsSoundAt(s, i) THEN i + nHeaderSize
  ELSE i + nHeaderSize + s[i + 2]

ReadAt(s, i) ==
  IF StartsAt(s, i) /\ FitsAt(s, i) /\ ~IsCutAt(s, i) /\ IsSoundAt(s, i) THEN <<DataAt(s, i)>> ELSE <<>>

Places(s) == 1..(Len(s) + 1)

IsReader(f, s) ==
  /\ f \in [Places(s) -> Seq(Seq(Byte))]
  /\ f[Len(s) + 1] = <<>>
  /\ \A i \in 1..Len(s) : PlaceAfter(s, i) \in (i + 1)..(Len(s) + 1)
                          /\ ReadAt(s, i) \in Seq(Seq(Byte))
                          /\ f[i] = ReadAt(s, i) \o f[PlaceAfter(s, i)]

\* Steps that only go up lead to the last number.
LEMMA UpwardGrounded ==
  ASSUME NEW n \in Nat, NEW p, \A i \in 1..n : p[i] \in (i + 1)..(n + 1)
  PROVE  Grounded(1..(n + 1), n + 1, p)
<1> DEFINE m == n + 1
<1>1. m \in Nat /\ IsFiniteSet(1..m)
  <2>1. m \in Nat
    OBVIOUS
  <2> HIDE DEF m
  <2> QED
    BY <2>1, FS_Interval
<1>2. ASSUME NEW S \in SUBSET (1..m), S # {} PROVE \E x \in S : x = m \/ p[x] \notin S
  <2>1. S \subseteq Int /\ IsFiniteSet(S)
    <3>1. S \subseteq Int
      OBVIOUS
    <3> HIDE DEF m
    <3>2. IsFiniteSet(S)
      BY <1>1, FS_Subset
    <3> QED
      BY <3>1, <3>2
  <2>2. PICK x \in S : \A y \in S : y <= x
    BY <1>2, <2>1, GreatestInteger
  <2>3. CASE x # m
    <3>1. x \in 1..n /\ p[x] \in (x + 1)..(n + 1)
      BY <2>3
    <3>2. ~(p[x] <= x)
      BY <3>1
    <3> QED
      BY <2>2, <3>2
  <2> QED
    BY <2>3
<1>3. m \in 1..m /\ \A x \in (1..m) \ {m} : p[x] \in 1..m
  OBVIOUS
<1> QED
  BY <1>2, <1>3 DEF Grounded

LEMMA BytesAre ==
  /\ Byte \subseteq Nat /\ MAX_SIZE \in Nat /\ MAX_SIZE \in Byte
  /\ \A s \in Seq(Byte) : Len(s) \in Nat /\ \A i \in 1..Len(s) : s[i] \in Byte /\ s[i] \in Nat
<1>1. Cardinality(Byte) \in Nat
  BY FramingAssumption, FS_CardinalityType
<1>2. Byte \subseteq Nat
  BY <1>1, FramingAssumption
<1>3. \A s \in Seq(Byte) : Len(s) \in Nat /\ \A i \in 1..Len(s) : s[i] \in Byte
  OBVIOUS
<1> QED
  BY <1>2, <1>3, FramingAssumption

\* Where reading goes on is further on.
LEMMA PlaceAfterIs ==
  ASSUME NEW s \in Seq(Byte), NEW i \in 1..Len(s)
  PROVE  /\ PlaceAfter(s, i) \in (i + 1)..(Len(s) + 1)
         /\ ReadAt(s, i) \in Seq(Seq(Byte))
<1>1. Len(s) \in Nat /\ i \in Nat /\ \A j \in 1..Len(s) : s[j] \in Nat
  BY BytesAre
<1>2. PlaceAfter(s, i) \in (i + 1)..(Len(s) + 1)
  <2>1. CASE ~HasHeader(s, i)
    BY <1>1, <2>1 DEF PlaceAfter
  <2>2. CASE HasHeader(s, i)
    <3>1. i + 4 <= Len(s) + 1 /\ i + 2 \in 1..Len(s)
      BY <1>1, <2>2 DEF HasHeader, nHeaderSize
    <3>2. s[i + 2] \in Nat
      BY <1>1, <3>1
    <3>3. IsCutAt(s, i) \/ i + nHeaderSize + s[i + 2] <= Len(s) + 1
      BY <1>1, <3>2 DEF IsCutAt, nHeaderSize
    <3> QED
      BY <1>1, <2>2, <3>1, <3>2, <3>3 DEF PlaceAfter, nHeaderSize
  <2> QED
    BY <2>1, <2>2
<1>3. ReadAt(s, i) \in Seq(Seq(Byte))
  <2>1. CASE StartsAt(s, i) /\ ~IsCutAt(s, i)
    <3>1. i + 4 <= Len(s) + 1 /\ i + 2 \in 1..Len(s)
      BY <1>1, <2>1 DEF StartsAt, HasHeader, nHeaderSize
    <3>2. s[i + 2] \in Nat /\ i + 4 + s[i + 2] <= Len(s) + 1
      BY <1>1, <2>1, <3>1 DEF IsCutAt, nHeaderSize
    <3>3. /\ i + 4 \in 1..(Len(s) + 1)
          /\ i + 4 + s[i + 2] - 1 \in ((i + 4) - 1)..Len(s)
      BY <1>1, <3>1, <3>2
    <3>4. DataAt(s, i) \in Seq(Byte)
      BY <3>3, PieceIs DEF DataAt, nHeaderSize
    <3> QED
      BY <3>4 DEF ReadAt
  <2> QED
    BY <2>1 DEF ReadAt
<1> QED
  BY <1>2, <1>3

\* One turn of the recursion of MessagesIn reads what is there and goes on at the
\* next place.
Turn(g, s, i) ==
  LET data == SubSeq(s, i + nHeaderSize, i + nHeaderSize + s[i + 2] - 1) IN
  IF i + nHeaderSize > Len(s) + 1 THEN <<>>
  ELSE IF SubSeq(s, i, i + 1) # pchMessageStart THEN g[i + 1]
  ELSE IF s[i + 2] > MAX_SIZE THEN g[i + nHeaderSize]
  ELSE IF i + nHeaderSize + s[i + 2] > Len(s) + 1 THEN <<>>
  ELSE IF Checksum(data) # s[i + 3] THEN g[i + nHeaderSize]
  ELSE <<data>> \o g[i + nHeaderSize + s[i + 2]]

LEMMA TurnIs ==
  ASSUME NEW s \in Seq(Byte), NEW i \in 1..Len(s), NEW g, g[PlaceAfter(s, i)] \in Seq(Seq(Byte)),
         PlaceAfter(s, i) = Len(s) + 1 => g[PlaceAfter(s, i)] = <<>>
  PROVE  Turn(g, s, i) = ReadAt(s, i) \o g[PlaceAfter(s, i)]
<1>1. Len(s) \in Nat /\ MAX_SIZE \in Nat /\ \A j \in 1..Len(s) : s[j] \in Nat
  BY BytesAre
<1>2. <<>> \o g[PlaceAfter(s, i)] = g[PlaceAfter(s, i)]
  BY ConcatEmptySeq
<1>3. Turn(g, s, i) =
        IF i + nHeaderSize > Len(s) + 1 THEN <<>>
        ELSE IF SubSeq(s, i, i + 1) # pchMessageStart THEN g[i + 1]
        ELSE IF s[i + 2] > MAX_SIZE THEN g[i + nHeaderSize]
        ELSE IF i + nHeaderSize + s[i + 2] > Len(s) + 1 THEN <<>>
        ELSE IF Checksum(DataAt(s, i)) # s[i + 3] THEN g[i + nHeaderSize]
        ELSE <<DataAt(s, i)>> \o g[i + nHeaderSize + s[i + 2]]
  BY Zenon DEF Turn, DataAt
<1>4. HasHeader(s, i) <=> ~(i + nHeaderSize > Len(s) + 1)
  BY <1>1 DEF HasHeader, nHeaderSize
<1>5. CASE ~HasHeader(s, i)
  <2>1. PlaceAfter(s, i) = Len(s) + 1 /\ ReadAt(s, i) = <<>>
    BY <1>5 DEF PlaceAfter, ReadAt, StartsAt
  <2> QED
    BY <1>2, <1>3, <1>4, <1>5, <2>1
<1>6. CASE HasHeader(s, i)
  <2>1. i + 2 \in 1..Len(s) /\ s[i + 2] \in Nat
    BY <1>1, <1>6 DEF HasHeader, nHeaderSize
  <2>2. FitsAt(s, i) <=> ~(s[i + 2] > MAX_SIZE)
    BY <1>1, <2>1 DEF FitsAt
  <2>3. CASE StartsAt(s, i) /\ FitsAt(s, i) /\ IsCutAt(s, i)
    <3>1. PlaceAfter(s, i) = Len(s) + 1 /\ ReadAt(s, i) = <<>>
      BY <1>6, <2>3 DEF PlaceAfter, ReadAt
    <3> QED
      BY <1>2, <1>3, <1>4, <1>6, <2>2, <2>3, <3>1 DEF StartsAt, IsCutAt
  <2>4. CASE ~(StartsAt(s, i) /\ FitsAt(s, i) /\ IsCutAt(s, i))
    BY <1>2, <1>3, <1>4, <1>6, <2>2, <2>4 DEF PlaceAfter, ReadAt, StartsAt, IsCutAt, IsSoundAt
  <2> QED
    BY <2>3, <2>4
<1> QED
  BY <1>5, <1>6

\* There is one way to read a string of bytes, and MessagesIn follows it.
LEMMA ReaderExists ==
  ASSUME NEW s \in Seq(Byte)
  PROVE  \E f : IsReader(f, s) /\ MessagesIn(s) = f[1]
<1> DEFINE n == Len(s)
           D == 1..(n + 1)
           V == Seq(Seq(Byte))
           e == <<>>
           p == [i \in D |-> PlaceAfter(s, i)]
           root == n + 1
           G == [i \in D |-> [v \in V |-> IF i \in 1..n THEN ReadAt(s, i) \o v ELSE v]]
           in == CHOOSE g : g = [i \in 1..(Len(s) + 1) |-> Turn(g, s, i)]
<1>1. n \in Nat /\ \A i \in 1..n : s[i] \in Nat
  BY BytesAre
<1>2. \A i \in 1..n : PlaceAfter(s, i) \in (i + 1)..(n + 1) /\ ReadAt(s, i) \in V
  BY PlaceAfterIs
<1>3. Grounded(D, root, p)
  <2>1. \A i \in 1..n : p[i] \in (i + 1)..(n + 1)
    BY <1>1, <1>2
  <2> HIDE DEF p, n
  <2> QED
    BY <1>1, <2>1, UpwardGrounded
<1>4. IsRule(G, D, V) /\ e \in V
  <2>1. ASSUME NEW i \in 1..n, NEW v \in V PROVE ReadAt(s, i) \o v \in V
    BY <1>2, ConcatProperties
  <2>2. ASSUME NEW i \in D, NEW v \in V PROVE G[i][v] \in V
    <3> HIDE DEF V
    <3> QED
      BY <2>1
  <2>3. <<>> \in V
    OBVIOUS
  <2> HIDE DEF V, D, G
  <2> QED
    BY <2>2, <2>3 DEF IsRule
<1>5. PICK f \in [D -> V] : \A i \in D : f[i] = IF i = root THEN e ELSE G[i][f[p[i]]]
  <2> HIDE DEF D, V, e, p, root, G
  <2> QED
    BY <1>3, <1>4, WalkRecursion
<1>6. f[n + 1] = <<>>
  <2>1. root \in D
    BY <1>1
  <2> HIDE DEF G, D, p
  <2> QED
    BY <1>5, <2>1
<1>7. ASSUME NEW i \in 1..n
      PROVE  PlaceAfter(s, i) \in D /\ f[PlaceAfter(s, i)] \in V /\ f[i] = ReadAt(s, i) \o f[PlaceAfter(s, i)]
  <2>1. i \in D /\ i # n + 1 /\ PlaceAfter(s, i) \in D
    BY <1>1, <1>2
  <2>2. f[PlaceAfter(s, i)] \in V /\ p[i] = PlaceAfter(s, i)
    BY <2>1
  <2>3. G[i][f[PlaceAfter(s, i)]] = ReadAt(s, i) \o f[PlaceAfter(s, i)]
    <3> DEFINE v == f[PlaceAfter(s, i)]
    <3>1. v \in V
      BY <2>2
    <3> HIDE DEF v, V
    <3>2. G[i][v] = ReadAt(s, i) \o v
      BY <2>1, <3>1
    <3> QED
      BY <3>2 DEF v
  <2> HIDE DEF G, p, D, V
  <2> QED
    BY <1>5, <2>1, <2>2, <2>3
<1>8. IsReader(f, s)
  BY <1>2, <1>6, <1>7 DEF IsReader, Places
<1>9. \E g : g = [i \in D |-> Turn(g, s, i)]
  <2>1. ASSUME NEW i \in D PROVE f[i] = Turn(f, s, i)
    <3>1. CASE i = n + 1
      <4>1. i + 4 > Len(s) + 1
        BY <1>1, <3>1
      <4> QED
        BY <1>6, <3>1, <4>1 DEF Turn, nHeaderSize
    <3>2. CASE i \in 1..n
      BY <1>6, <1>7, <3>2, TurnIs
    <3> QED
      BY <1>1, <3>1, <3>2
  <2>2. f = [i \in D |-> Turn(f, s, i)]
    <3> HIDE DEF D
    <3> QED
      BY <2>1
  <2> QED
    BY <2>2
<1>10. in = [i \in D |-> Turn(in, s, i)]
  BY <1>9
<1>11. MessagesIn(s) = in[1]
  BY DEF MessagesIn, Turn
<1> HIDE DEF in
<1>12. \A i \in D : in[i] = f[i]
  <2> DEFINE S == {i \in D : in[i] = f[i]}
  <2>1. n + 1 \in S
    <3>1. (n + 1) + 4 > Len(s) + 1 /\ n + 1 \in D
      BY <1>1
    <3>2. in[n + 1] = <<>>
      BY <1>10, <3>1 DEF Turn, nHeaderSize
    <3> QED
      BY <1>6, <3>1, <3>2
  <2>2. ASSUME NEW i \in D \ {root}, p[i] \in S PROVE i \in S
    <3>1. i \in 1..n /\ p[i] = PlaceAfter(s, i)
      BY <1>1
    <3>2. in[PlaceAfter(s, i)] \in V /\ in[PlaceAfter(s, i)] = f[PlaceAfter(s, i)]
      BY <1>7, <2>2, <3>1
    <3>3. in[i] = Turn(in, s, i)
      BY <1>10
    <3>4. Turn(in, s, i) = ReadAt(s, i) \o in[PlaceAfter(s, i)]
      <4>1. PlaceAfter(s, i) = n + 1 => in[PlaceAfter(s, i)] = <<>>
        BY <1>6, <3>2
      <4> QED
        BY <3>1, <3>2, <4>1, TurnIs
    <3> QED
      BY <1>7, <3>1, <3>2, <3>3, <3>4
  <2> HIDE DEF S, D, p, root
  <2>3. D \subseteq S
    <3>1. root \in S
      BY <2>1 DEF root
    <3> QED
      BY <1>3, <2>2, <3>1, WalkInduction
  <2> QED
    BY <2>3 DEF S
<1>13. 1 \in D
  BY <1>1
<1> HIDE DEF D
<1> QED
  BY <1>8, <1>11, <1>12, <1>13
\* Pieces of a rest and of the first of two.
LEMMA PieceOfRest ==
  ASSUME NEW S, NEW s \in Seq(S), NEW k \in 0..Len(s),
         NEW a \in 1..(Len(s) - k + 1), NEW b \in (a - 1)..(Len(s) - k)
  PROVE  SubSeq(From(s, k), a, b) = SubSeq(s, a + k, b + k)
<1> DEFINE t == From(s, k)
<1>1. Len(s) \in Nat /\ k \in Nat /\ a \in Nat /\ b \in Int
  OBVIOUS
<1>2. t \in Seq(S) /\ Len(t) = Len(s) - k /\ \A i \in 1..(Len(s) - k) : t[i] = s[k + i]
  BY RestIs
<1> HIDE DEF t
<1>3. a \in 1..(Len(t) + 1) /\ b \in (a - 1)..Len(t)
  BY <1>1, <1>2
<1>4. /\ SubSeq(t, a, b) \in Seq(S) /\ Len(SubSeq(t, a, b)) = b - a + 1
      /\ \A i \in 1..(b - a + 1) : SubSeq(t, a, b)[i] = t[a + i - 1]
  BY <1>2, <1>3, PieceIs
<1>5. a + k \in 1..(Len(s) + 1) /\ b + k \in ((a + k) - 1)..Len(s)
  BY <1>1
<1>6. /\ SubSeq(s, a + k, b + k) \in Seq(S) /\ Len(SubSeq(s, a + k, b + k)) = (b + k) - (a + k) + 1
      /\ \A i \in 1..((b + k) - (a + k) + 1) : SubSeq(s, a + k, b + k)[i] = s[(a + k) + i - 1]
  BY <1>5, PieceIs
<1>7. \A i \in 1..(b - a + 1) : SubSeq(t, a, b)[i] = SubSeq(s, a + k, b + k)[i]
  <2> TAKE i \in 1..(b - a + 1)
  <2>1. /\ a + i - 1 \in 1..(Len(s) - k) /\ k + (a + i - 1) = (a + k) + i - 1
        /\ i \in 1..((b + k) - (a + k) + 1)
    BY <1>1
  <2> QED
    BY <1>2, <1>4, <1>6, <2>1
<1>8. (b + k) - (a + k) + 1 = b - a + 1
  BY <1>1
<1>9. SubSeq(t, a, b) = SubSeq(s, a + k, b + k)
  BY <1>4, <1>6, <1>7, <1>8, SeqEqual
<1> QED
  BY <1>9 DEF t

LEMMA PieceOfFirst ==
  ASSUME NEW S, NEW s \in Seq(S), NEW t \in Seq(S),
         NEW a \in 1..(Len(s) + 1), NEW b \in (a - 1)..Len(s)
  PROVE  SubSeq(s \o t, a, b) = SubSeq(s, a, b)
<1> DEFINE st == s \o t
<1>1. Len(s) \in Nat /\ Len(t) \in Nat /\ a \in Nat /\ b \in Int
  OBVIOUS
<1>2. /\ st \in Seq(S) /\ Len(st) = Len(s) + Len(t)
      /\ \A i \in 1..(Len(s) + Len(t)) : st[i] = IF i <= Len(s) THEN s[i] ELSE t[i - Len(s)]
  BY ConcatProperties
<1> HIDE DEF st
<1>3. a \in 1..(Len(st) + 1) /\ b \in (a - 1)..Len(st)
  BY <1>1, <1>2
<1>4. /\ SubSeq(st, a, b) \in Seq(S) /\ Len(SubSeq(st, a, b)) = b - a + 1
      /\ \A i \in 1..(b - a + 1) : SubSeq(st, a, b)[i] = st[a + i - 1]
  BY <1>2, <1>3, PieceIs
<1>5. /\ SubSeq(s, a, b) \in Seq(S) /\ Len(SubSeq(s, a, b)) = b - a + 1
      /\ \A i \in 1..(b - a + 1) : SubSeq(s, a, b)[i] = s[a + i - 1]
  BY PieceIs
<1>6. \A i \in 1..(b - a + 1) : SubSeq(st, a, b)[i] = SubSeq(s, a, b)[i]
  <2> TAKE i \in 1..(b - a + 1)
  <2>1. a + i - 1 \in 1..(Len(s) + Len(t)) /\ a + i - 1 <= Len(s)
    BY <1>1
  <2> QED
    BY <1>2, <1>4, <1>5, <2>1
<1>7. SubSeq(st, a, b) = SubSeq(s, a, b)
  BY <1>4, <1>5, <1>6, SeqEqual
<1> QED
  BY <1>7 DEF st

\* What is at a place depends on what is there and behind it only.
LEMMA RestReads ==
  ASSUME NEW s \in Seq(Byte), NEW k \in 0..Len(s), NEW i \in 1..(Len(s) - k)
  PROVE  /\ PlaceAfter(From(s, k), i) + k = PlaceAfter(s, i + k)
         /\ ReadAt(From(s, k), i) = ReadAt(s, i + k)
         /\ StartsAt(From(s, k), i) <=> StartsAt(s, i + k)
<1> DEFINE t == From(s, k)
<1>1. Len(s) \in Nat /\ k \in Nat /\ i \in Nat /\ i + k \in 1..Len(s) /\ MAX_SIZE \in Nat
  BY BytesAre
<1>2. t \in Seq(Byte) /\ Len(t) = Len(s) - k /\ \A j \in 1..(Len(s) - k) : t[j] = s[k + j]
  BY RestIs
<1>3. HasHeader(t, i) <=> HasHeader(s, i + k)
  BY <1>1, <1>2 DEF HasHeader, nHeaderSize
<1>4. CASE ~HasHeader(t, i)
  <2>1. ~StartsAt(t, i) /\ ~StartsAt(s, i + k)
    BY <1>3, <1>4 DEF StartsAt
  <2>2. PlaceAfter(t, i) = Len(t) + 1 /\ PlaceAfter(s, i + k) = Len(s) + 1
    BY <1>3, <1>4 DEF PlaceAfter
  <2>3. ReadAt(t, i) = <<>> /\ ReadAt(s, i + k) = <<>>
    BY <2>1 DEF ReadAt
  <2> HIDE DEF t
  <2> QED
    BY <1>1, <1>2, <2>1, <2>2, <2>3 DEF t
<1>5. CASE HasHeader(t, i)
  <2>1. i + 4 <= Len(s) - k + 1 /\ HasHeader(s, i + k)
    BY <1>1, <1>2, <1>3, <1>5 DEF HasHeader, nHeaderSize
  <2>2. i + 2 \in 1..(Len(s) - k) /\ i + 3 \in 1..(Len(s) - k)
    BY <1>1, <2>1
  <2>3. t[i + 2] = s[(i + k) + 2] /\ t[i + 3] = s[(i + k) + 3] /\ t[i + 2] \in Nat
    <3>1. k + (i + 2) = (i + k) + 2 /\ k + (i + 3) = (i + k) + 3 /\ (i + k) + 2 \in 1..Len(s)
      BY <1>1, <2>2
    <3>2. s[(i + k) + 2] \in Nat
      BY <3>1, BytesAre
    <3> HIDE DEF t
    <3> QED
      BY <1>2, <2>2, <3>1, <3>2
  <2>4. SubSeq(t, i, i + 1) = SubSeq(s, i + k, (i + k) + 1)
    <3>1. i \in 1..(Len(s) - k + 1) /\ i + 1 \in (i - 1)..(Len(s) - k) /\ (i + 1) + k = (i + k) + 1
      BY <1>1, <2>1
    <3> DEFINE a == i
               b == i + 1
    <3>2. a \in 1..(Len(s) - k + 1) /\ b \in (a - 1)..(Len(s) - k)
      BY <3>1
    <3> HIDE DEF a, b
    <3>3. SubSeq(From(s, k), a, b) = SubSeq(s, a + k, b + k)
      BY <3>2, PieceOfRest
    <3> QED
      BY <3>1, <3>3 DEF a, b
  <2>5. /\ StartsAt(t, i) <=> StartsAt(s, i + k)
        /\ FitsAt(t, i) <=> FitsAt(s, i + k)
    BY <1>5, <2>1, <2>3, <2>4 DEF StartsAt, FitsAt
  <2>6. IsCutAt(t, i) <=> IsCutAt(s, i + k)
    <3> DEFINE size == t[i + 2]
    <3>1. s[(i + k) + 2] = size /\ size \in Nat
      BY <2>3
    <3> HIDE DEF size
    <3>2. (i + 4 + size > Len(s) - k + 1) <=> ((i + k) + 4 + size > Len(s) + 1)
      BY <1>1, <3>1
    <3> QED
      BY <1>2, <3>1, <3>2 DEF IsCutAt, nHeaderSize, size
  <2>7. ~IsCutAt(t, i) => DataAt(t, i) = DataAt(s, i + k)
    <3> SUFFICES ASSUME ~IsCutAt(t, i) PROVE DataAt(t, i) = DataAt(s, i + k)
      OBVIOUS
    <3> DEFINE size == t[i + 2]
    <3>1. s[(i + k) + 2] = size /\ size \in Nat
      BY <2>3
    <3>2. ~(i + 4 + size > Len(s) - k + 1)
      BY <1>2 DEF IsCutAt, nHeaderSize
    <3> HIDE DEF size
    <3>3. /\ i + 4 \in 1..(Len(s) - k + 1) /\ i + 4 + size - 1 \in ((i + 4) - 1)..(Len(s) - k)
          /\ (i + 4) + k = (i + k) + 4 /\ (i + 4 + size - 1) + k = (i + k) + 4 + size - 1
      BY <1>1, <2>1, <3>1, <3>2
    <3> DEFINE a == i + 4
               b == i + 4 + size - 1
    <3>4. a \in 1..(Len(s) - k + 1) /\ b \in (a - 1)..(Len(s) - k)
      BY <3>3
    <3> HIDE DEF a, b
    <3>5. SubSeq(From(s, k), a, b) = SubSeq(s, a + k, b + k)
      BY <3>4, PieceOfRest
    <3>6. SubSeq(t, i + 4, i + 4 + size - 1) = SubSeq(s, (i + 4) + k, (i + 4 + size - 1) + k)
      BY <3>5 DEF a, b
    <3> QED
      BY <3>1, <3>3, <3>6 DEF DataAt, nHeaderSize, size
  <2>8. ~IsCutAt(t, i) => (IsSoundAt(t, i) <=> IsSoundAt(s, i + k))
    BY <2>3, <2>7 DEF IsSoundAt
  <2>9. ReadAt(t, i) = ReadAt(s, i + k)
    BY <2>5, <2>6, <2>7, <2>8 DEF ReadAt
  <2>10. PlaceAfter(t, i) + k = PlaceAfter(s, i + k)
    <3> DEFINE size == t[i + 2]
    <3>1. s[(i + k) + 2] = size /\ size \in Nat
      BY <2>3
    <3>2. PlaceAfter(t, i) = IF ~StartsAt(t, i) THEN i + 1
                            ELSE IF ~FitsAt(t, i) THEN i + 4
                            ELSE IF IsCutAt(t, i) THEN Len(t) + 1
                            ELSE IF ~IsSoundAt(t, i) THEN i + 4
                            ELSE i + 4 + size
      BY <1>5 DEF PlaceAfter, nHeaderSize
    <3>3. PlaceAfter(s, i + k) = IF ~StartsAt(t, i) THEN (i + k) + 1
                                ELSE IF ~FitsAt(t, i) THEN (i + k) + 4
                                ELSE IF IsCutAt(t, i) THEN Len(s) + 1
                                ELSE IF ~IsSoundAt(t, i) THEN (i + k) + 4
                                ELSE (i + k) + 4 + size
      BY <2>1, <2>3, <2>5, <2>6, <2>8 DEF PlaceAfter, nHeaderSize
    <3> HIDE DEF t, size
    <3> QED
      BY <1>1, <1>2, <3>1, <3>2, <3>3
  <2> QED
    BY <2>5, <2>9, <2>10
<1> QED
  BY <1>4, <1>5

\* The messages behind a place are those in the rest behind it.
LEMMA RestHasMessages ==
  ASSUME NEW s \in Seq(Byte), NEW f, IsReader(f, s), NEW k \in 0..Len(s)
  PROVE  f[k + 1] = MessagesIn(From(s, k))
<1> DEFINE t == From(s, k)
           n == Len(t)
           p == [i \in 1..(n + 1) |-> PlaceAfter(t, i)]
           S == {i \in 1..(n + 1) : \A g : IsReader(g, t) => g[i] = f[i + k]}
<1>1. t \in Seq(Byte) /\ n = Len(s) - k /\ n \in Nat /\ Len(s) \in Nat /\ k \in Nat
  <2>1. t \in Seq(Byte) /\ Len(t) = Len(s) - k
    BY RestIs
  <2> QED
    BY <2>1
<1>2. PICK g : IsReader(g, t) /\ MessagesIn(t) = g[1]
  BY <1>1, ReaderExists
<1>3. Grounded(1..(n + 1), n + 1, p)
  <2>1. \A i \in 1..n : PlaceAfter(t, i) \in (i + 1)..(n + 1)
    BY <1>2 DEF IsReader
  <2>2. \A i \in 1..n : p[i] \in (i + 1)..(n + 1)
    BY <1>1, <2>1
  <2> HIDE DEF p, n
  <2> QED
    BY <1>1, <2>2, UpwardGrounded
<1>4. n + 1 \in S
  <2>1. (n + 1) + k = Len(s) + 1 /\ n + 1 \in 1..(n + 1)
    BY <1>1
  <2>2. f[Len(s) + 1] = <<>>
    BY DEF IsReader
  <2>3. \A h : IsReader(h, t) => h[n + 1] = <<>>
    BY DEF IsReader
  <2> QED
    BY <2>1, <2>2, <2>3
<1>5. ASSUME NEW i \in (1..(n + 1)) \ {n + 1}, p[i] \in S PROVE i \in S
  <2>1. i \in 1..n /\ p[i] = PlaceAfter(t, i) /\ i \in 1..(Len(s) - k) /\ i + k \in 1..Len(s)
    BY <1>1
  <2>2. PlaceAfter(t, i) + k = PlaceAfter(s, i + k) /\ ReadAt(t, i) = ReadAt(s, i + k)
    BY <2>1, RestReads
  <2>3. ASSUME NEW h, IsReader(h, t) PROVE h[i] = f[i + k]
    <3>1. h[i] = ReadAt(t, i) \o h[PlaceAfter(t, i)]
      BY <2>1, <2>3 DEF IsReader
    <3>2. h[PlaceAfter(t, i)] = f[PlaceAfter(t, i) + k]
      BY <1>5, <2>1, <2>3
    <3>3. f[i + k] = ReadAt(s, i + k) \o f[PlaceAfter(s, i + k)]
      BY <2>1 DEF IsReader
    <3> QED
      BY <2>2, <3>1, <3>2, <3>3
  <2> QED
    BY <2>3
<1>6. 1..(n + 1) \subseteq S
  <2> DEFINE D == 1..(n + 1)
             root == n + 1
  <2>1. Grounded(D, root, p) /\ root \in S /\ \A i \in D \ {root} : p[i] \in S => i \in S
    BY <1>3, <1>4, <1>5
  <2> HIDE DEF D, root, S, p
  <2>2. D \subseteq S
    BY <2>1, WalkInduction
  <2> QED
    BY <2>2 DEF D
<1>7. 1 \in S /\ 1 + k = k + 1
  BY <1>1, <1>6
<1>8. g[1] = f[1 + k]
  <2> HIDE DEF t, n
  <2> QED
    BY <1>2, <1>7
<1> QED
  BY <1>2, <1>7, <1>8

\* What is first is read first.
LEMMA MessagesAre ==
  ASSUME NEW s \in Seq(Byte)
  PROVE  /\ MessagesIn(s) \in Seq(Seq(Byte))
         /\ Len(s) > 0 => MessagesIn(s) = ReadAt(s, 1) \o MessagesIn(From(s, PlaceAfter(s, 1) - 1))
<1>1. PICK f : IsReader(f, s) /\ MessagesIn(s) = f[1]
  BY ReaderExists
<1>2. Len(s) \in Nat /\ 1 \in Places(s)
  BY DEF Places
<1>3. ASSUME Len(s) > 0
      PROVE  f[1] = ReadAt(s, 1) \o MessagesIn(From(s, PlaceAfter(s, 1) - 1))
  <2> DEFINE k == PlaceAfter(s, 1) - 1
  <2>1. 1 \in 1..Len(s)
    BY <1>2, <1>3
  <2>2. PlaceAfter(s, 1) \in 2..(Len(s) + 1) /\ f[1] = ReadAt(s, 1) \o f[PlaceAfter(s, 1)]
    BY <1>1, <2>1 DEF IsReader
  <2>3. k \in 0..Len(s) /\ PlaceAfter(s, 1) = k + 1
    BY <1>2, <2>2
  <2> HIDE DEF k
  <2>4. f[k + 1] = MessagesIn(From(s, k))
    BY <1>1, <2>3, RestHasMessages
  <2> QED
    BY <2>2, <2>3, <2>4 DEF k
<1>4. f[1] \in Seq(Seq(Byte))
  BY <1>1, <1>2 DEF IsReader
<1> QED
  BY <1>1, <1>3, <1>4

\* Bytes no message starts with can be left out, as long as a header may follow.
LEMMA GarbageHasNone ==
  ASSUME NEW s \in Seq(Byte), NEW k \in Nat, k + 3 <= Len(s),
         \A j \in 1..k : ~StartsAt(s, j)
  PROVE  MessagesIn(s) = MessagesIn(From(s, k))
<1>1. PICK f : IsReader(f, s) /\ MessagesIn(s) = f[1]
  BY ReaderExists
<1>2. Len(s) \in Nat /\ k \in 0..Len(s)
  OBVIOUS
<1> DEFINE S == {j \in 0..k : f[1] = f[j + 1]}
<1>3. 0 \in S
  OBVIOUS
<1>4. ASSUME NEW j \in 1..k, j - 1 \in S PROVE j \in S
  <2>1. j \in 1..Len(s) /\ (j - 1) + 1 = j /\ j \in 0..k
    BY <1>2
  <2>2. HasHeader(s, j) /\ ~StartsAt(s, j)
    BY <1>2 DEF HasHeader, nHeaderSize
  <2>3. PlaceAfter(s, j) = j + 1 /\ ReadAt(s, j) = <<>>
    BY <2>2 DEF PlaceAfter, ReadAt
  <2>4. f[j] = <<>> \o f[j + 1] /\ j + 1 \in Places(s) /\ f[j + 1] \in Seq(Seq(Byte))
    <3>1. j + 1 \in Places(s)
      BY <1>2, <2>1 DEF Places
    <3>2. f[j] = ReadAt(s, j) \o f[PlaceAfter(s, j)]
      BY <1>1, <2>1 DEF IsReader
    <3>3. f[j + 1] \in Seq(Seq(Byte))
      BY <1>1, <3>1 DEF IsReader
    <3> QED
      BY <2>3, <3>1, <3>2, <3>3
  <2>5. f[j] = f[j + 1]
    BY <2>4, ConcatEmptySeq
  <2>6. f[1] = f[j]
    BY <1>4, <2>1
  <2> QED
    BY <2>1, <2>5, <2>6
<1>5. 0..k \subseteq S
  <2> HIDE DEF S
  <2> QED
    BY <1>3, <1>4, CountInduction
<1>6. k \in S
  BY <1>5
<1>7. f[1] = f[k + 1]
  BY <1>6
<1> QED
  BY <1>1, <1>2, <1>7, RestHasMessages
----------------------------------------------------------------------------

\* A checksum is a byte.
LEMMA ChecksumIs ==
  ASSUME NEW data \in Seq(Byte)
  PROVE  Checksum(data) \in Byte
<1> DEFINE s == data
           m == 0
           n == Len(s)
           V == Byte
           Op(v, b) == (v + b + 1) % Cardinality(Byte)
           G == [i \in 1..n |-> [v \in V |-> Op(v, s[i])]]
           Step(h, d) == IF d = {} THEN m ELSE Op(h[d \ {Max(d)}], s[Max(d)])
           iter == CHOOSE h : h = [d \in SUBSET (DOMAIN s) |-> Step(h, d)]
<1>1. n \in Nat /\ DOMAIN s = 1..n /\ \A i \in 1..n : s[i] \in Byte
  OBVIOUS
<1>2. ASSUME NEW v \in V, NEW b \in Byte PROVE Op(v, b) \in V
  <2>1. Cardinality(Byte) \in Nat /\ Byte = 0..(Cardinality(Byte) - 1) /\ 0 \in Byte
    BY FramingAssumption, FS_CardinalityType
  <2> DEFINE c == Cardinality(Byte)
  <2> HIDE DEF c
  <2>2. c \in Nat /\ Byte = 0..(c - 1) /\ c > 0
    BY <2>1 DEF c
  <2>3. v + b + 1 \in Nat
    BY <2>2
  <2>4. (v + b + 1) % c \in 0..(c - 1)
    BY <2>2, <2>3
  <2> QED
    BY <2>2, <2>4 DEF c
<1>3. IsRule(G, 1..n, V) /\ m \in V
  <2>1. m \in V
    BY FramingAssumption
  <2> HIDE DEF Op, V, n, s
  <2> QED
    BY <1>1, <1>2, <2>1 DEF IsRule
<1>4. PICK f \in [SUBSET (1..n) -> V] : IsFoldLeft(f, n, m, G)
  <2> HIDE DEF G, V, n
  <2> QED
    BY <1>1, <1>3, FoldRecursion
<1>5. ASSUME NEW d \in SUBSET (1..n) PROVE f[d] = Step(f, d)
  <2>1. CASE d # {}
    <3>1. Max(d) \in 1..n /\ d \ {Max(d)} \in SUBSET (1..n)
      <4> HIDE DEF n
      <4> QED
        BY <1>1, <2>1, MaxIs
    <3>2. f[d \ {Max(d)}] \in V
      BY <3>1
    <3>3. f[d] = G[Max(d)][f[d \ {Max(d)}]]
      <4> HIDE DEF G, V, n
      <4> QED
        BY <1>4, <2>1 DEF IsFoldLeft
    <3> HIDE DEF Op, V, n, s
    <3> QED
      BY <2>1, <3>1, <3>2, <3>3
  <2>2. CASE d = {}
    <3> HIDE DEF G, V, n
    <3> QED
      BY <1>4, <2>2 DEF IsFoldLeft
  <2> QED
    BY <2>1, <2>2
<1>6. iter = [d \in SUBSET (DOMAIN s) |-> Step(iter, d)]
  <2>1. f = [d \in SUBSET (DOMAIN s) |-> Step(f, d)]
    <3> HIDE DEF Step, n, V, s
    <3> QED
      BY <1>1, <1>5
  <2> HIDE DEF Step, s
  <2> QED
    BY <2>1
<1>7. \A d \in SUBSET (1..n) : iter[d] = Step(iter, d)
  <2> HIDE DEF Step, iter, n, s
  <2> QED
    BY <1>1, <1>6
<1>8. iter[1..0] = m
  <2>1. 1..0 \in SUBSET (1..n) /\ 1..0 = {}
    OBVIOUS
  <2>2. iter[1..0] = Step(iter, 1..0)
    <3> HIDE DEF Step, iter, n
    <3> QED
      BY <1>7, <2>1
  <2> HIDE DEF iter, Op
  <2> QED
    BY <2>1, <2>2
<1>9. ASSUME NEW k \in 1..n PROVE iter[1..k] = Op(iter[1..(k - 1)], s[k])
  <2>1. 1..k \in SUBSET (1..n) /\ Max(1..k) = k /\ (1..k) \ {k} = 1..(k - 1) /\ 1..k # {}
    <3> HIDE DEF n
    <3>1. n \in Nat
      BY <1>1
    <3>2. Max(1..k) = k /\ (1..k) \ {k} = 1..(k - 1) /\ 1..k # {}
      BY <3>1, MaxIs
    <3> QED
      BY <3>1, <3>2
  <2>2. iter[1..k] = Step(iter, 1..k)
    <3> HIDE DEF Step, iter, n
    <3> QED
      BY <1>7, <2>1
  <2> HIDE DEF iter, Op, n, s
  <2> QED
    BY <2>1, <2>2
<1>10. \A k \in 0..n : iter[1..k] \in V
  <2> HIDE DEF iter, V, n, s, Op
  <2>1. iter[1..0] \in V
    BY <1>3, <1>8
  <2>2. ASSUME NEW k \in 1..n, iter[1..(k - 1)] \in V PROVE iter[1..k] \in V
    BY <1>1, <1>2, <1>9, <2>2
  <2> QED
    BY <1>1, <2>1, <2>2, FoldStays
<1>11. Checksum(data) = iter[1..n]
  <2>1. Checksum(data) = iter[DOMAIN s]
    BY DEF Checksum, FoldLeft, MapThenFoldSet
  <2> HIDE DEF iter, n, s
  <2> QED
    BY <1>1, <2>1
<1> HIDE DEF iter, n, s
<1> QED
  BY <1>1, <1>10, <1>11

LEMMA StringsAre == \A n \in Nat : \A g \in Strings(n) : g \in Seq(Byte)
<1> SUFFICES ASSUME NEW n \in Nat, NEW g \in Strings(n) PROVE g \in Seq(Byte)
  OBVIOUS
<1>1. PICK k \in 0..n : g \in [1..k -> Byte]
  BY DEF Strings
<1> QED
  BY <1>1

\* A message begins with its start, and is as long as it says.
LEMMA EndMessageIs ==
  ASSUME NEW data \in Seq(Byte), Len(data) \in Byte
  PROVE  EndMessage(data) \in Seq(Byte)
<1>1. pchMessageStart \in Seq(Byte) /\ <<Len(data), Checksum(data)>> \in Seq(Byte)
  <2>1. 1 \in Byte /\ 2 \in Byte /\ Checksum(data) \in Byte
    BY FramingAssumption, ChecksumIs
  <2> QED
    BY <2>1 DEF pchMessageStart
<1>2. pchMessageStart \o <<Len(data), Checksum(data)>> \in Seq(Byte)
  BY <1>1, ConcatProperties
<1> QED
  BY <1>2, ConcatProperties DEF EndMessage

LEMMA StreamsAre == Streams \subseteq Seq(Byte)
<1> SUFFICES ASSUME NEW s \in Streams PROVE s \in Seq(Byte)
  OBVIOUS
<1> DEFINE Fillers == {g \in Strings(Garbage) \X Strings(Garbage) : Len(g[1] \o g[2]) <= Garbage}
           Two == Payloads \X Payloads
           Of(g, m) == g[1] \o EndMessage(m[1]) \o g[2] \o EndMessage(m[2])
<1>0. Streams = {Of(g, m) : g \in Fillers, m \in Two}
  BY DEF Streams
<1>1. PICK g \in Strings(Garbage) \X Strings(Garbage), m \in Payloads \X Payloads :
        s = g[1] \o EndMessage(m[1]) \o g[2] \o EndMessage(m[2])
  <2>1. \E g \in Fillers, m \in Two : s = Of(g, m)
    <3> HIDE DEF Of, Fillers, Two
    <3> QED
      BY <1>0
  <2>2. Fillers \subseteq Strings(Garbage) \X Strings(Garbage)
    OBVIOUS
  <2> HIDE DEF Fillers
  <2> QED
    BY <2>1, <2>2
<1>2. g[1] \in Seq(Byte) /\ g[2] \in Seq(Byte)
  BY StringsAre, FramingAssumption
<1>3. EndMessage(m[1]) \in Seq(Byte) /\ EndMessage(m[2]) \in Seq(Byte)
  BY EndMessageIs, FramingAssumption
<1>4. g[1] \o EndMessage(m[1]) \in Seq(Byte)
  BY <1>2, <1>3, ConcatProperties
<1>5. g[1] \o EndMessage(m[1]) \o g[2] \in Seq(Byte)
  BY <1>2, <1>4, ConcatProperties
<1> QED
  BY <1>1, <1>3, <1>5, ConcatProperties

\* The first message start, or the place behind the end.
LEMMA StartOfIs ==
  ASSUME NEW u \in Seq(Byte)
  PROVE  /\ StartOf(u) \in 1..(Len(u) + 1)
         /\ StartOf(u) <= Len(u) - 1 => SubSeq(u, StartOf(u), StartOf(u) + 1) = pchMessageStart
         /\ \A j \in 1..(StartOf(u) - 1) : j <= Len(u) - 1 => SubSeq(u, j, j + 1) # pchMessageStart
<1> DEFINE T == {i \in 1..(Len(u) - 1) : SubSeq(u, i, i + 1) = pchMessageStart} \cup {Len(u) + 1}
           start == StartOf(u)
<1>1. Len(u) \in Nat
  OBVIOUS
<1>2. T \subseteq 1..(Len(u) + 1) /\ T \subseteq Nat /\ Len(u) + 1 \in T
  BY <1>1
<1>3. PICK m \in T : \A y \in T : m <= y
  <2> HIDE DEF T
  <2> QED
    BY <1>2, LeastNumber
<1>4. start \in T /\ \A y \in T : start <= y
  <2>1. start = CHOOSE x \in T : \A y \in T : x =< y
    BY DEF StartOf, Min
  <2> HIDE DEF T, start
  <2> QED
    BY <1>3, <2>1
<1>5. start \in 1..(Len(u) + 1)
  <2> HIDE DEF T, start
  <2> QED
    BY <1>2, <1>4
<1>6. start <= Len(u) - 1 => SubSeq(u, start, start + 1) = pchMessageStart
  <2>1. start # Len(u) + 1 => SubSeq(u, start, start + 1) = pchMessageStart
    <3> HIDE DEF start
    <3> QED
      BY <1>4
  <2> HIDE DEF start
  <2> QED
    BY <1>1, <1>5, <2>1
<1>7. ASSUME NEW j \in 1..(start - 1), j <= Len(u) - 1, SubSeq(u, j, j + 1) = pchMessageStart
      PROVE  FALSE
  <2> HIDE DEF start
  <2>1. j \in T
    BY <1>1, <1>5, <1>7
  <2>2. start <= j
    BY <1>4, <2>1
  <2> QED
    BY <1>5, <1>7, <2>2
<1> QED
  BY <1>5, <1>6, <1>7

\* The messages of what is read, whatever comes behind it: garbage in front of a
\* header has none, and a header tells what follows.
LEMMA GarbageIn ==
  ASSUME NEW u \in Seq(Byte), NEW x \in Seq(Byte), NEW k \in Nat, k + 3 <= Len(u),
         \A j \in 1..k : SubSeq(u, j, j + 1) # pchMessageStart
  PROVE  MessagesIn(u \o x) = MessagesIn(From(u, k) \o x)
<1> DEFINE s == u \o x
<1>1. Len(u) \in Nat /\ Len(x) \in Nat /\ k \in 0..Len(u)
  OBVIOUS
<1>2. s \in Seq(Byte) /\ Len(s) = Len(u) + Len(x)
  BY ConcatProperties
<1>3. ASSUME NEW j \in 1..k PROVE ~StartsAt(s, j)
  <2> DEFINE b == j + 1
  <2>1. j \in 1..(Len(u) + 1) /\ b \in (j - 1)..Len(u)
    BY <1>1
  <2> HIDE DEF b
  <2>2. SubSeq(u \o x, j, b) = SubSeq(u, j, b)
    BY <2>1, PieceOfFirst
  <2>3. SubSeq(u \o x, j, j + 1) # pchMessageStart
    BY <2>2 DEF b
  <2> QED
    BY <2>3 DEF StartsAt
<1>4. k + 3 <= Len(s)
  BY <1>1, <1>2
<1>5. MessagesIn(s) = MessagesIn(From(s, k))
  <2> HIDE DEF s
  <2> QED
    BY <1>2, <1>3, <1>4, GarbageHasNone
<1>6. From(s, k) = From(u, k) \o x
  BY <1>1, RestOfBoth
<1> QED
  BY <1>5, <1>6

LEMMA HeaderIn ==
  ASSUME NEW v \in Seq(Byte), NEW x \in Seq(Byte), 4 <= Len(v), SubSeq(v, 1, 2) = pchMessageStart,
         NEW size, size = v[3]
  PROVE  LET rest == From(v, 4)
             data == SubSeq(rest, 1, size)
         IN  /\ size \in Nat
             /\ size > MAX_SIZE => MessagesIn(v \o x) = MessagesIn(rest \o x)
             /\ size <= MAX_SIZE /\ size <= Len(rest) =>
                  /\ data \in Seq(Byte)
                  /\ Checksum(data) # v[4] => MessagesIn(v \o x) = MessagesIn(rest \o x)
                  /\ Checksum(data) = v[4] =>
                       MessagesIn(v \o x) = <<data>> \o MessagesIn(From(rest, size) \o x)
<1> DEFINE s == v \o x
           rest == From(v, 4)
           data == SubSeq(rest, 1, size)
<1>1. Len(v) \in Nat /\ Len(x) \in Nat /\ MAX_SIZE \in Nat /\ 4 \in 0..Len(v) /\ 3 \in 1..Len(v) /\ 4 \in 1..Len(v)
  BY BytesAre
<1>2. /\ s \in Seq(Byte) /\ Len(s) = Len(v) + Len(x)
      /\ \A i \in 1..(Len(v) + Len(x)) : s[i] = IF i <= Len(v) THEN v[i] ELSE x[i - Len(v)]
  BY ConcatProperties
<1>3. size \in Nat /\ s[3] = size /\ s[4] = v[4]
  <2>1. v[3] \in Nat
    BY <1>1, BytesAre
  <2> HIDE DEF s
  <2> QED
    BY <1>1, <1>2, <2>1
<1>4. rest \in Seq(Byte) /\ Len(rest) = Len(v) - 4
  <2> DEFINE four == 4
  <2>1. four \in 0..Len(v)
    BY <1>1
  <2> HIDE DEF four
  <2>2. From(v, four) \in Seq(Byte) /\ Len(From(v, four)) = Len(v) - four
    BY <2>1, RestIs
  <2> QED
    BY <2>2 DEF four
<1>5. From(s, 4) = rest \o x
  <2> DEFINE four == 4
  <2>1. four \in 0..Len(v)
    BY <1>1
  <2> HIDE DEF four
  <2>2. From(v \o x, four) = From(v, four) \o x
    BY <2>1, RestOfBoth
  <2> QED
    BY <2>2 DEF four
<1>6. SubSeq(s, 1, 2) = pchMessageStart
  <2> DEFINE a == 1
             b == 2
  <2>1. a \in 1..(Len(v) + 1) /\ b \in (a - 1)..Len(v)
    BY <1>1
  <2> HIDE DEF a, b
  <2>2. SubSeq(v \o x, a, b) = SubSeq(v, a, b)
    BY <2>1, PieceOfFirst
  <2> QED
    BY <2>2 DEF a, b
<1>7. Len(s) > 0 /\ HasHeader(s, 1) /\ StartsAt(s, 1)
  <2>1. HasHeader(s, 1)
    <3> HIDE DEF s
    <3> QED
      BY <1>1, <1>2 DEF HasHeader, nHeaderSize
  <2>2. 1 + 1 = 2
    OBVIOUS
  <2> HIDE DEF s
  <2> QED
    BY <1>1, <1>2, <1>6, <2>1, <2>2 DEF StartsAt
<1>8. FitsAt(s, 1) <=> size <= MAX_SIZE
  <2> HIDE DEF s
  <2> QED
    BY <1>3 DEF FitsAt
<1>9. MessagesIn(s) = ReadAt(s, 1) \o MessagesIn(From(s, PlaceAfter(s, 1) - 1))
  <2> HIDE DEF s
  <2> QED
    BY <1>2, <1>7, MessagesAre
<1>10. rest \o x \in Seq(Byte) /\ MessagesIn(rest \o x) \in Seq(Seq(Byte))
  <2> HIDE DEF rest
  <2>1. rest \o x \in Seq(Byte)
    BY <1>4, ConcatProperties
  <2> QED
    BY <2>1, MessagesAre
<1>11. ASSUME PlaceAfter(s, 1) = 1 + nHeaderSize, ReadAt(s, 1) = <<>>
       PROVE  MessagesIn(v \o x) = MessagesIn(rest \o x)
  <2>1. PlaceAfter(s, 1) - 1 = 4
    BY <1>11 DEF nHeaderSize
  <2>2. MessagesIn(s) = <<>> \o MessagesIn(rest \o x)
    BY <1>5, <1>9, <1>11, <2>1
  <2>3. <<>> \o MessagesIn(rest \o x) = MessagesIn(rest \o x)
    BY <1>10, ConcatEmptySeq
  <2> QED
    BY <2>2, <2>3
<1>12. size > MAX_SIZE => MessagesIn(v \o x) = MessagesIn(rest \o x)
  <2> SUFFICES ASSUME size > MAX_SIZE PROVE MessagesIn(v \o x) = MessagesIn(rest \o x)
    OBVIOUS
  <2>1. ~FitsAt(s, 1)
    BY <1>1, <1>3, <1>8
  <2>2. PlaceAfter(s, 1) = 1 + nHeaderSize /\ ReadAt(s, 1) = <<>>
    BY <1>7, <2>1 DEF PlaceAfter, ReadAt
  <2> QED
    BY <1>11, <2>2
<1>13. ASSUME size <= MAX_SIZE, size <= Len(rest)
       PROVE  /\ data \in Seq(Byte)
              /\ Checksum(data) # v[4] => MessagesIn(v \o x) = MessagesIn(rest \o x)
              /\ Checksum(data) = v[4] =>
                   MessagesIn(v \o x) = <<data>> \o MessagesIn(From(rest, size) \o x)
  <2>1. FitsAt(s, 1)
    BY <1>8, <1>13
  <2>2. ~IsCutAt(s, 1)
    <3>1. size <= Len(v) - 4
      <4> HIDE DEF rest
      <4> QED
        BY <1>4, <1>13
    <3> HIDE DEF s
    <3> QED
      BY <1>1, <1>2, <1>3, <3>1 DEF IsCutAt, nHeaderSize
  <2>3. DataAt(s, 1) = data
    <3> DEFINE a == 1
               k == 4
    <3>1. size <= Len(v) - 4
      <4> HIDE DEF rest
      <4> QED
        BY <1>4, <1>13
    <3>2. a \in 1..(Len(v) - k + 1) /\ size \in (a - 1)..(Len(v) - k) /\ k \in 0..Len(v)
      BY <1>1, <1>3, <3>1
    <3> HIDE DEF a, k
    <3>3. SubSeq(From(v, k), a, size) = SubSeq(v, a + k, size + k)
      BY <3>2, PieceOfRest
    <3>4. a + k \in 1..(Len(v) + 1) /\ size + k \in ((a + k) - 1)..Len(v)
      BY <1>1, <1>3, <3>2 DEF a, k
    <3>5. SubSeq(v \o x, a + k, size + k) = SubSeq(v, a + k, size + k)
      BY <3>4, PieceOfFirst
    <3>6. a + k = 1 + nHeaderSize /\ size + k = 1 + nHeaderSize + size - 1
      BY <1>3 DEF a, k, nHeaderSize
    <3>7. DataAt(s, 1) = SubSeq(s, 1 + nHeaderSize, 1 + nHeaderSize + size - 1)
      <4>1. 1 + 2 = 3
        OBVIOUS
      <4> HIDE DEF s
      <4> QED
        BY <1>3, <4>1 DEF DataAt
    <3> QED
      BY <3>3, <3>5, <3>6, <3>7 DEF a, k
  <2>4. IsSoundAt(s, 1) <=> Checksum(data) = v[4]
    <3>1. 1 + 3 = 4
      OBVIOUS
    <3> HIDE DEF s, data
    <3> QED
      BY <1>3, <2>3, <3>1 DEF IsSoundAt
  <2>5. data \in Seq(Byte)
    <3> DEFINE a == 1
    <3> HIDE DEF rest
    <3>1. a \in 1..(Len(rest) + 1) /\ size \in (a - 1)..Len(rest)
      BY <1>1, <1>3, <1>4, <1>13
    <3> HIDE DEF a
    <3>2. SubSeq(rest, a, size) \in Seq(Byte)
      BY <1>4, <3>1, PieceIs
    <3> QED
      BY <3>2 DEF a
  <2>6. Checksum(data) # v[4] => MessagesIn(v \o x) = MessagesIn(rest \o x)
    <3> SUFFICES ASSUME Checksum(data) # v[4] PROVE MessagesIn(v \o x) = MessagesIn(rest \o x)
      OBVIOUS
    <3>1. PlaceAfter(s, 1) = 1 + nHeaderSize /\ ReadAt(s, 1) = <<>>
      BY <1>7, <2>1, <2>2, <2>4 DEF PlaceAfter, ReadAt
    <3> QED
      BY <1>11, <3>1
  <2>7. Checksum(data) = v[4] => MessagesIn(v \o x) = <<data>> \o MessagesIn(From(rest, size) \o x)
    <3> SUFFICES ASSUME Checksum(data) = v[4]
                 PROVE  MessagesIn(v \o x) = <<data>> \o MessagesIn(From(rest, size) \o x)
      OBVIOUS
    <3>1. PlaceAfter(s, 1) = 1 + nHeaderSize + size /\ ReadAt(s, 1) = <<data>>
      <4>1. 1 + 2 = 3
        OBVIOUS
      <4> HIDE DEF s, data
      <4> QED
        BY <1>3, <1>7, <2>1, <2>2, <2>3, <2>4, <4>1 DEF PlaceAfter, ReadAt
    <3>2. PlaceAfter(s, 1) - 1 = 4 + size
      BY <1>3, <3>1 DEF nHeaderSize
    <3>3. From(s, 4 + size) = From(rest, size) \o x
      <4> DEFINE k == 4
      <4>1. size <= Len(v) - 4
        <5> HIDE DEF rest
        <5> QED
          BY <1>4, <1>13
      <4>2. k \in 0..Len(v) /\ size \in 0..(Len(v) - k) /\ k + size \in 0..Len(v)
        BY <1>1, <1>3, <4>1
      <4> HIDE DEF k
      <4>3. From(v \o x, k + size) = From(v, k + size) \o x
        BY <4>2, RestOfBoth
      <4>4. From(From(v, k), size) = From(v, k + size)
        BY <4>2, RestOfRest
      <4> QED
        BY <4>3, <4>4 DEF k
    <3> QED
      BY <1>9, <3>1, <3>2, <3>3
  <2> QED
    BY <2>5, <2>6, <2>7
<1> QED
  BY <1>3, <1>12, <1>13
----------------------------------------------------------------------------

\* Whatever the peer sends next, what was processed and what is in the buffer make
\* with it the messages of all that will have been delivered.
FramingInv ==
  /\ stream \in Seq(Byte) /\ delivered \in 0..Len(stream)
  /\ IsBuffer(vRecv, Byte) /\ looping \in BOOLEAN /\ processed \in Seq(Seq(Byte))
  /\ \A n \in delivered..Len(stream) :
       processed \o MessagesIn(Unread(vRecv) \o SubSeq(stream, delivered + 1, n))
         = MessagesIn(SubSeq(stream, 1, n))

\* What is still to come, up to a place.
LEMMA ToComeIs ==
  ASSUME stream \in Seq(Byte), NEW d \in 0..Len(stream), NEW n \in d..Len(stream)
  PROVE  /\ SubSeq(stream, d + 1, n) \in Seq(Byte)
         /\ \A k \in d..n : SubSeq(stream, d + 1, k) \o SubSeq(stream, k + 1, n) = SubSeq(stream, d + 1, n)
<1>1. Len(stream) \in Nat /\ d + 1 \in 1..(Len(stream) + 1) /\ n \in ((d + 1) - 1)..Len(stream)
  OBVIOUS
<1>2. SubSeq(stream, d + 1, n) \in Seq(Byte)
  BY <1>1, PieceIs
<1>3. ASSUME NEW k \in d..n
      PROVE  SubSeq(stream, d + 1, k) \o SubSeq(stream, k + 1, n) = SubSeq(stream, d + 1, n)
  <2>1. k \in ((d + 1) - 1)..Len(stream) /\ n \in k..Len(stream)
    BY <1>1
  <2> QED
    BY <1>1, <2>1, ConcatAdjacentSubSeq
<1> QED
  BY <1>2, <1>3

\* A step on the buffer keeps this when it takes as many messages out of it as it
\* processes.
LEMMA BufferStep ==
  ASSUME FramingInv, UNCHANGED <<stream, delivered>>, IsBuffer(vRecv', Byte), looping' \in BOOLEAN,
         NEW more \in Seq(Seq(Byte)), processed' = processed \o more,
         \A x \in Seq(Byte) :
           MessagesIn(Unread(vRecv) \o x) = more \o MessagesIn(Unread(vRecv') \o x)
  PROVE  FramingInv'
<1>1. processed' \in Seq(Seq(Byte))
  BY ConcatProperties DEF FramingInv
<1>2. ASSUME NEW n \in delivered..Len(stream)
      PROVE  processed' \o MessagesIn(Unread(vRecv') \o SubSeq(stream, delivered + 1, n))
               = MessagesIn(SubSeq(stream, 1, n))
  <2> DEFINE x == SubSeq(stream, delivered + 1, n)
             rest == MessagesIn(Unread(vRecv') \o x)
  <2>1. x \in Seq(Byte)
    BY ToComeIs DEF FramingInv
  <2> HIDE DEF x
  <2>2. Unread(vRecv') \o x \in Seq(Byte)
    <3>1. Unread(vRecv') \in Seq(Byte)
      BY UnreadIs
    <3> QED
      BY <2>1, <3>1, ConcatProperties
  <2>3. rest \in Seq(Seq(Byte))
    BY <2>2, MessagesAre
  <2>4. MessagesIn(Unread(vRecv) \o x) = more \o rest
    BY <2>1
  <2> HIDE DEF rest
  <2>5. (processed \o more) \o rest = processed \o (more \o rest)
    <3> DEFINE S == Seq(Byte)
    <3>1. processed \in Seq(S) /\ more \in Seq(S) /\ rest \in Seq(S)
      BY <2>3 DEF FramingInv
    <3> HIDE DEF S
    <3> QED
      BY <3>1, ConcatAssociative
  <2>6. processed \o MessagesIn(Unread(vRecv) \o x) = MessagesIn(SubSeq(stream, 1, n))
    BY DEF FramingInv, x
  <2>7. processed' \o rest = MessagesIn(SubSeq(stream, 1, n))
    BY <2>4, <2>5, <2>6
  <2> QED
    BY <2>7 DEF rest, x
<1> QED
  BY <1>1, <1>2 DEF FramingInv

\* Nothing comes in a turn that leaves what is not read yet.
LEMMA StopsKeeps ==
  ASSUME FramingInv, NEW s, IsBuffer(s, Byte), Stops(s), UNCHANGED <<stream, delivered>>,
         \A x \in Seq(Byte) : MessagesIn(Unread(vRecv) \o x) = MessagesIn(Unread(s) \o x)
  PROVE  FramingInv'
<1>1. vRecv' = Compacted(s) /\ looping' \in BOOLEAN /\ processed' = processed
  BY DEF Stops
<1>2. IsBuffer(vRecv', Byte) /\ Unread(vRecv') = Unread(s) /\ Unread(s) \in Seq(Byte)
  BY <1>1, CompactedIs, UnreadIs
<1> DEFINE none == <<>>
<1>3. none \in Seq(Seq(Byte)) /\ processed' = processed \o none
  BY <1>1, ConcatEmptySeq DEF FramingInv
<1>4. ASSUME NEW x \in Seq(Byte)
      PROVE  MessagesIn(Unread(vRecv) \o x) = none \o MessagesIn(Unread(vRecv') \o x)
  <2>1. Unread(s) \o x \in Seq(Byte)
    BY <1>2, ConcatProperties
  <2>2. none \o MessagesIn(Unread(s) \o x) = MessagesIn(Unread(s) \o x)
    BY <2>1, MessagesAre, ConcatEmptySeq
  <2> QED
    BY <1>2, <2>2
<1> HIDE DEF none
<1> QED
  BY <1>1, <1>2, <1>3, <1>4, BufferStep

LEMMA ContinuesKeeps ==
  ASSUME FramingInv, NEW s, IsBuffer(s, Byte), Continues(s), UNCHANGED <<stream, delivered>>, UNCHANGED processed,
         \A x \in Seq(Byte) : MessagesIn(Unread(vRecv) \o x) = MessagesIn(Unread(s) \o x)
  PROVE  FramingInv'
<1>1. vRecv' = s /\ looping' \in BOOLEAN /\ processed' = processed
  BY DEF Continues
<1>2. IsBuffer(vRecv', Byte) /\ Unread(s) \in Seq(Byte)
  BY <1>1, UnreadIs
<1> DEFINE none == <<>>
<1>3. none \in Seq(Seq(Byte)) /\ processed' = processed \o none
  BY <1>1, ConcatEmptySeq DEF FramingInv
<1>4. ASSUME NEW x \in Seq(Byte)
      PROVE  MessagesIn(Unread(vRecv) \o x) = none \o MessagesIn(Unread(vRecv') \o x)
  <2>1. Unread(s) \o x \in Seq(Byte)
    BY <1>2, ConcatProperties
  <2>2. none \o MessagesIn(Unread(s) \o x) = MessagesIn(Unread(s) \o x)
    BY <2>1, MessagesAre, ConcatEmptySeq
  <2> QED
    BY <1>1, <2>2
<1> HIDE DEF none
<1> QED
  BY <1>1, <1>2, <1>3, <1>4, BufferStep

LEMMA FramingStarts == FramingInit => FramingInv
<1> SUFFICES ASSUME FramingInit PROVE FramingInv
  OBVIOUS
<1>1. /\ stream \in Seq(Byte) /\ delivered = 0 /\ vRecv = StreamOf(<<>>) /\ looping = FALSE
      /\ processed = <<>>
  BY StreamsAre DEF FramingInit
<1>2. IsBuffer(vRecv, Byte) /\ Unread(vRecv) = <<>>
  <2>1. <<>> \in Seq(Byte)
    OBVIOUS
  <2> QED
    BY <1>1, <2>1, StreamOfIs
<1>3. Len(stream) \in Nat /\ delivered + 1 = 1 /\ processed \in Seq(Seq(Byte))
  BY <1>1
<1>4. ASSUME NEW n \in delivered..Len(stream)
      PROVE  processed \o MessagesIn(Unread(vRecv) \o SubSeq(stream, delivered + 1, n))
               = MessagesIn(SubSeq(stream, 1, n))
  <2> DEFINE x == SubSeq(stream, 1, n)
  <2>1. x \in Seq(Byte)
    <3>1. delivered \in 0..Len(stream)
      BY <1>1, <1>3
    <3> QED
      BY <1>1, <1>3, <3>1, ToComeIs
  <2> HIDE DEF x
  <2>2. <<>> \o x = x /\ MessagesIn(x) \in Seq(Seq(Byte))
    BY <2>1, ConcatEmptySeq, MessagesAre
  <2>3. <<>> \o MessagesIn(x) = MessagesIn(x)
    BY <2>2, ConcatEmptySeq
  <2>4. processed \o MessagesIn(Unread(vRecv) \o x) = MessagesIn(x)
    BY <1>1, <1>2, <2>2, <2>3
  <2> QED
    BY <1>3, <2>4 DEF x
<1>5. delivered \in 0..Len(stream)
  BY <1>1, <1>3
<1>6. looping \in BOOLEAN
  BY <1>1
<1> QED
  BY <1>1, <1>2, <1>3, <1>4, <1>5, <1>6 DEF FramingInv

\* recv brings what was to come.
LEMMA ReceivesKeeps == FramingInv /\ Receives => FramingInv'
<1> SUFFICES ASSUME FramingInv, Receives PROVE FramingInv'
  OBVIOUS
<1>1. PICK k \in (delivered + 1)..Len(stream) :
        /\ delivered' = k
        /\ vRecv' = Appended(vRecv, SubSeq(stream, delivered + 1, k))
  BY DEF Receives
<1>2. UNCHANGED <<stream, looping, processed>>
  BY DEF Receives
<1>3. stream \in Seq(Byte) /\ delivered \in 0..Len(stream) /\ IsBuffer(vRecv, Byte) /\ Len(stream) \in Nat
  BY DEF FramingInv
<1>4. k \in 0..Len(stream) /\ k \in delivered..Len(stream)
  BY <1>1, <1>3
<1> DEFINE new == SubSeq(stream, delivered + 1, k)
<1>5. new \in Seq(Byte)
  BY <1>3, <1>4, ToComeIs
<1>6. IsBuffer(vRecv', Byte) /\ Unread(vRecv') = Unread(vRecv) \o new /\ Unread(vRecv) \in Seq(Byte)
  <2> HIDE DEF new
  <2>1. vRecv' = Appended(vRecv, new)
    BY <1>1 DEF new
  <2> QED
    BY <1>3, <1>5, <2>1, AppendedIs, UnreadIs
<1>7. ASSUME NEW n \in k..Len(stream)
      PROVE  processed \o MessagesIn(Unread(vRecv') \o SubSeq(stream, k + 1, n))
               = MessagesIn(SubSeq(stream, 1, n))
  <2> DEFINE x == SubSeq(stream, k + 1, n)
  <2>1. n \in delivered..Len(stream) /\ k \in delivered..n
    BY <1>1, <1>3
  <2>2. x \in Seq(Byte)
    BY <1>3, <1>4, ToComeIs
  <2>3. new \o x = SubSeq(stream, delivered + 1, n)
    BY <1>3, <2>1, ToComeIs
  <2> HIDE DEF x, new
  <2>4. (Unread(vRecv) \o new) \o x = Unread(vRecv) \o (new \o x)
    BY <1>5, <1>6, <2>2, ConcatAssociative
  <2>5. processed \o MessagesIn(Unread(vRecv) \o SubSeq(stream, delivered + 1, n))
          = MessagesIn(SubSeq(stream, 1, n))
    BY <2>1 DEF FramingInv
  <2>6. processed \o MessagesIn(Unread(vRecv') \o x) = MessagesIn(SubSeq(stream, 1, n))
    BY <1>6, <2>3, <2>4, <2>5
  <2> QED
    BY <2>6 DEF x
<1> QED
  BY <1>1, <1>2, <1>3, <1>4, <1>6, <1>7 DEF FramingInv

\* The buffer from the first message start on.
LEMMA StartKeeps ==
  ASSUME IsBuffer(vRecv, Byte), NEW start, start = StartOf(Unread(vRecv)),
         ~(BufferSize(vRecv) - start + 1 < nHeaderSize)
  PROVE  LET s == Erased(vRecv, 0, start - 1) IN
         /\ IsBuffer(s, Byte) /\ 4 <= BufferSize(s) /\ SubSeq(Unread(s), 1, 2) = pchMessageStart
         /\ \A x \in Seq(Byte) : MessagesIn(Unread(vRecv) \o x) = MessagesIn(Unread(s) \o x)
<1> DEFINE u == Unread(vRecv)
           k == start - 1
           s == Erased(vRecv, 0, k)
<1>1. u \in Seq(Byte) /\ Len(u) = BufferSize(vRecv) /\ Len(u) \in Nat
  BY UnreadIs
<1>2. /\ start \in 1..(Len(u) + 1)
      /\ start <= Len(u) - 1 => SubSeq(u, start, start + 1) = pchMessageStart
      /\ \A j \in 1..(start - 1) : j <= Len(u) - 1 => SubSeq(u, j, j + 1) # pchMessageStart
  BY <1>1, StartOfIs
<1>3. k \in Nat /\ k + 4 <= Len(u) /\ start <= Len(u) - 1 /\ start = k + 1
  <2> HIDE DEF u
  <2> QED
    BY <1>1, <1>2 DEF nHeaderSize
<1>4. k \in 0..BufferSize(vRecv) /\ k \in 0..Len(u) /\ k + 3 <= Len(u)
  <2> HIDE DEF u, k
  <2> QED
    BY <1>1, <1>3
<1>5. s = Advanced(vRecv, k)
  BY DEF Erased
<1>6. IsBuffer(s, Byte) /\ Unread(s) = From(u, k)
  <2> HIDE DEF s, k
  <2> QED
    BY <1>4, <1>5, AdvancedIs
<1>7. BufferSize(s) = Len(u) - k
  <2> HIDE DEF s, k, u
  <2>1. Len(Unread(s)) = BufferSize(s)
    BY <1>6, UnreadIs
  <2>2. Len(From(u, k)) = Len(u) - k
    BY <1>1, <1>4, RestIs
  <2> QED
    BY <1>6, <2>1, <2>2
<1>8. SubSeq(Unread(s), 1, 2) = pchMessageStart
  <2> DEFINE a == 1
             b == 2
  <2>1. a \in 1..(Len(u) - k + 1) /\ b \in (a - 1)..(Len(u) - k) /\ a + k = start /\ b + k = start + 1
    <3> HIDE DEF u, k
    <3> QED
      BY <1>1, <1>3
  <2> HIDE DEF a, b, u, k, s
  <2>2. SubSeq(From(u, k), a, b) = SubSeq(u, a + k, b + k)
    <3>1. u \in Seq(Byte) /\ k \in 0..Len(u)
      BY <1>1, <1>4
    <3>2. a \in 1..(Len(u) - k + 1) /\ b \in (a - 1)..(Len(u) - k)
      BY <2>1
    <3> QED
      BY <3>1, <3>2, PieceOfRest
  <2> QED
    BY <1>2, <1>3, <1>6, <2>1, <2>2 DEF a, b
<1>9. ASSUME NEW x \in Seq(Byte) PROVE MessagesIn(u \o x) = MessagesIn(Unread(s) \o x)
  <2>1. ASSUME NEW j \in 1..k PROVE SubSeq(u, j, j + 1) # pchMessageStart
    <3>1. j \in 1..(start - 1) /\ j <= Len(u) - 1
      <4>1. start = k + 1 /\ k + 4 <= Len(u) /\ k \in Nat /\ Len(u) \in Nat
        BY <1>1, <1>3
      <4> HIDE DEF u, k
      <4> QED
        BY <4>1
    <3> HIDE DEF u
    <3> QED
      BY <1>2, <3>1
  <2> HIDE DEF u, k, s
  <2> QED
    BY <1>1, <1>3, <1>4, <1>6, <2>1, GarbageIn
<1>10. 4 <= BufferSize(s)
  <2> HIDE DEF u, k, s
  <2> QED
    BY <1>1, <1>3, <1>7
<1> QED
  BY <1>6, <1>8, <1>9, <1>10

\* What is kept when no whole header is there holds whatever may become one.
LEMMA DropGarbageKeeps ==
  ASSUME IsBuffer(vRecv, Byte),
         BufferSize(vRecv) - StartOf(Unread(vRecv)) + 1 < nHeaderSize
  PROVE  /\ IsBuffer(DropGarbage(vRecv), Byte)
         /\ \A x \in Seq(Byte) : MessagesIn(Unread(vRecv) \o x) = MessagesIn(Unread(DropGarbage(vRecv)) \o x)
<1> DEFINE u == Unread(vRecv)
           k == BufferSize(vRecv) - nHeaderSize
           s == DropGarbage(vRecv)
<1>1. u \in Seq(Byte) /\ Len(u) = BufferSize(vRecv) /\ Len(u) \in Nat
  BY UnreadIs
<1>2. CASE ~(BufferSize(vRecv) > nHeaderSize)
  BY <1>2 DEF DropGarbage
<1>3. CASE BufferSize(vRecv) > nHeaderSize
  <2>1. s = Advanced(vRecv, k)
    BY <1>3 DEF DropGarbage, Erased
  <2>2. k \in Nat /\ k \in 0..BufferSize(vRecv) /\ k + 3 <= Len(u) /\ k \in 0..Len(u) /\ k + 4 = Len(u)
    <3> HIDE DEF u
    <3> QED
      BY <1>1, <1>3 DEF nHeaderSize
  <2>3. IsBuffer(s, Byte) /\ Unread(s) = From(u, k)
    <3> HIDE DEF s, k
    <3> QED
      BY <2>1, <2>2, AdvancedIs
  <2>4. \A j \in 1..k : SubSeq(u, j, j + 1) # pchMessageStart
    <3>1. /\ StartOf(u) \in 1..(Len(u) + 1)
          /\ \A j \in 1..(StartOf(u) - 1) : j <= Len(u) - 1 => SubSeq(u, j, j + 1) # pchMessageStart
      BY <1>1, StartOfIs
    <3>2. Len(u) - StartOf(u) + 1 < 4
      BY <1>1 DEF nHeaderSize
    <3> SUFFICES ASSUME NEW j \in 1..k PROVE SubSeq(u, j, j + 1) # pchMessageStart
      OBVIOUS
    <3>3. j \in 1..(StartOf(u) - 1) /\ j <= Len(u) - 1
      <4> HIDE DEF u, k
      <4> QED
        BY <1>1, <2>2, <3>1, <3>2
    <3> HIDE DEF u, k
    <3> QED
      BY <3>1, <3>3
  <2>5. ASSUME NEW x \in Seq(Byte) PROVE MessagesIn(u \o x) = MessagesIn(Unread(s) \o x)
    <3> HIDE DEF u, k, s
    <3> QED
      BY <1>1, <2>2, <2>3, <2>4, GarbageIn
  <2> QED
    BY <2>3, <2>5
<1> QED
  BY <1>2, <1>3

LEMMA ProcessMessagesKeeps == FramingInv /\ ProcessMessages => FramingInv'
<1> SUFFICES ASSUME FramingInv, ProcessMessages PROVE FramingInv'
  OBVIOUS
<1> DEFINE start  == StartOf(Unread(vRecv))
           found  == Erased(vRecv, 0, start - 1)
           header == Read(found, nHeaderSize)
           size   == header.value[3]
           rest   == header.stream
           data   == SubSeq(Unread(rest), 1, size)
           NoHeader == BufferSize(vRecv) - start + 1 < nHeaderSize
           TooLarge == size > MAX_SIZE
           Cut      == size > BufferSize(rest)
           Wrong    == Checksum(data) # header.value[4]
<1>1. IsBuffer(vRecv, Byte) /\ UNCHANGED <<stream, delivered>>
  BY DEF FramingInv, ProcessMessages
<1>2. \/ NoHeader /\ Stops(DropGarbage(vRecv))
      \/ ~NoHeader /\ TooLarge /\ Continues(rest) /\ UNCHANGED processed
      \/ ~NoHeader /\ ~TooLarge /\ Cut /\ Stops(Inserted(rest, 0, header.value))
      \/ ~NoHeader /\ ~TooLarge /\ ~Cut /\ Wrong /\ Continues(rest) /\ UNCHANGED processed
      \/ /\ ~NoHeader /\ ~TooLarge /\ ~Cut /\ ~Wrong
         /\ Continues(Ignored(rest, size)) /\ processed' = Append(processed, data)
  BY DEF ProcessMessages
<1>3. CASE NoHeader /\ Stops(DropGarbage(vRecv))
  <2>1. /\ IsBuffer(DropGarbage(vRecv), Byte)
        /\ \A x \in Seq(Byte) : MessagesIn(Unread(vRecv) \o x) = MessagesIn(Unread(DropGarbage(vRecv)) \o x)
    BY <1>1, <1>3, DropGarbageKeeps
  <2> QED
    BY <1>1, <1>3, <2>1, StopsKeeps
<1>4. CASE ~NoHeader
  <2> DEFINE v == Unread(found)
             head == SubSeq(v, 1, 4)
  <2>1. /\ IsBuffer(found, Byte) /\ 4 <= BufferSize(found) /\ SubSeq(v, 1, 2) = pchMessageStart
        /\ \A x \in Seq(Byte) : MessagesIn(Unread(vRecv) \o x) = MessagesIn(v \o x)
    <3> HIDE DEF start
    <3> QED
      BY <1>1, <1>4, StartKeeps DEF start
  <2>2. v \in Seq(Byte) /\ Len(v) = BufferSize(found) /\ Len(v) \in Nat
    BY <2>1, UnreadIs
  <2>3. header = [fOk |-> TRUE, value |-> head, stream |-> Advanced(found, 4)]
    <3> HIDE DEF found
    <3>1. ~(4 > BufferSize(found))
      BY <2>1, <2>2
    <3> QED
      BY <3>1 DEF Read, nHeaderSize
  <2> HIDE DEF header
  <2>4. header.value = head /\ rest = Advanced(found, 4)
    BY <2>3
  <2> DEFINE a == 1
             b == 4
  <2>5. /\ head \in Seq(Byte) /\ Len(head) = 4 /\ \A i \in 1..4 : head[i] = v[i]
        /\ head \o From(v, 4) = v /\ 4 \in 0..BufferSize(found) /\ From(v, 4) \in Seq(Byte)
    <3>1. a \in 1..(Len(v) + 1) /\ b \in (a - 1)..Len(v) /\ b \in 0..Len(v)
      <4> HIDE DEF v
      <4> QED
        BY <2>1, <2>2
    <3> HIDE DEF a, b, v
    <3>2. /\ SubSeq(v, a, b) \in Seq(Byte) /\ Len(SubSeq(v, a, b)) = b - a + 1
          /\ \A i \in 1..(b - a + 1) : SubSeq(v, a, b)[i] = v[a + i - 1]
      BY <2>2, <3>1, PieceIs
    <3>3. SubSeq(v, 1, b) \o From(v, b) = v /\ From(v, b) \in Seq(Byte)
      BY <2>2, <3>1, CutAndRest, RestIs
    <3>4. b - a + 1 = 4 /\ \A i \in 1..4 : a + i - 1 = i
      BY DEF a, b
    <3> QED
      BY <2>2, <3>1, <3>2, <3>3, <3>4 DEF a, b
  <2>6. IsBuffer(rest, Byte) /\ Unread(rest) = From(v, 4)
    <3>1. b \in 0..BufferSize(found)
      BY <2>5
    <3> HIDE DEF b, found
    <3>2. IsBuffer(Advanced(found, b), Byte) /\ Unread(Advanced(found, b)) = From(Unread(found), b)
      BY <2>1, <3>1, AdvancedIs
    <3> QED
      BY <2>4, <3>2 DEF b
  <2>7. size = v[3] /\ header.value[4] = v[4]
    BY <2>4, <2>5
  <2> HIDE DEF v, found, start, head, rest
  <2>8. Len(From(v, 4)) = BufferSize(rest) /\ BufferSize(rest) \in Nat
    BY <2>6, UnreadIs
  <2>9. 4 <= Len(v)
    BY <2>1, <2>2
  <2> HIDE DEF size
  <2>10. ASSUME NEW x \in Seq(Byte)
         PROVE  /\ size \in Nat
                /\ TooLarge => MessagesIn(v \o x) = MessagesIn(From(v, 4) \o x)
                /\ size <= MAX_SIZE /\ size <= Len(From(v, 4)) =>
                     /\ data \in Seq(Byte)
                     /\ Wrong => MessagesIn(v \o x) = MessagesIn(From(v, 4) \o x)
                     /\ ~Wrong => MessagesIn(v \o x) = <<data>> \o MessagesIn(From(From(v, 4), size) \o x)
    <3> DEFINE w == From(v, 4)
    <3>1. /\ size \in Nat
          /\ size > MAX_SIZE => MessagesIn(v \o x) = MessagesIn(w \o x)
          /\ size <= MAX_SIZE /\ size <= Len(w) =>
               /\ SubSeq(w, 1, size) \in Seq(Byte)
               /\ Checksum(SubSeq(w, 1, size)) # v[4] => MessagesIn(v \o x) = MessagesIn(w \o x)
               /\ Checksum(SubSeq(w, 1, size)) = v[4] =>
                    MessagesIn(v \o x) = <<SubSeq(w, 1, size)>> \o MessagesIn(From(w, size) \o x)
      <4>1. SubSeq(v, 1, 2) = pchMessageStart
        BY <2>1 DEF v
      <4> QED
        BY <2>2, <2>7, <2>9, <4>1, HeaderIn
    <3>2. data = SubSeq(w, 1, size)
      BY <2>6
    <3> HIDE DEF data, w
    <3>3. Wrong <=> Checksum(SubSeq(w, 1, size)) # v[4]
      BY <2>7, <3>2
    <3> QED
      BY <3>1, <3>2, <3>3 DEF w
  <2>11. size \in Nat /\ MAX_SIZE \in Nat /\ <<>> \in Seq(Byte)
    <3>1. <<>> \in Seq(Byte)
      OBVIOUS
    <3> QED
      BY <2>10, <3>1, BytesAre
  <2>12. TooLarge \/ size <= MAX_SIZE
    BY <2>11
  <2>13. Cut \/ size <= Len(From(v, 4))
    BY <2>8, <2>11
  <2>14. CASE /\ \/ TooLarge
                 \/ ~TooLarge /\ ~Cut /\ Wrong
              /\ Continues(rest) /\ UNCHANGED processed
    <3>1. \A x \in Seq(Byte) : MessagesIn(v \o x) = MessagesIn(Unread(rest) \o x)
      <4> HIDE DEF TooLarge, Cut, Wrong, data
      <4> QED
        BY <2>6, <2>10, <2>12, <2>13, <2>14
    <3>2. \A x \in Seq(Byte) : MessagesIn(Unread(vRecv) \o x) = MessagesIn(Unread(rest) \o x)
      BY <2>1, <3>1 DEF v
    <3> QED
      BY <1>1, <2>6, <2>14, <3>2, ContinuesKeeps
  <2>15. CASE ~TooLarge /\ Cut /\ Stops(Inserted(rest, 0, header.value))
    <3> DEFINE back == Inserted(rest, 0, head)
    <3>1. IsBuffer(back, Byte) /\ Unread(back) = head \o Unread(rest)
      BY <2>5, <2>6, InsertedIs
    <3>2. Unread(back) = v
      BY <2>5, <2>6, <3>1
    <3>3. Stops(back)
      BY <2>4, <2>15
    <3> HIDE DEF back
    <3>4. \A x \in Seq(Byte) : MessagesIn(Unread(vRecv) \o x) = MessagesIn(Unread(back) \o x)
      BY <2>1, <3>2 DEF v
    <3> QED
      BY <1>1, <3>1, <3>3, <3>4, StopsKeeps
  <2>16. CASE /\ ~TooLarge /\ ~Cut /\ ~Wrong
              /\ Continues(Ignored(rest, size)) /\ processed' = Append(processed, data)
    <3>1. size \in 0..BufferSize(rest)
      BY <2>8, <2>11, <2>16
    <3>2. Ignored(rest, size) = Advanced(rest, size)
      BY <2>16 DEF Ignored
    <3>3. /\ IsBuffer(Advanced(rest, size), Byte)
          /\ Unread(Advanced(rest, size)) = From(From(v, 4), size)
      BY <2>6, <3>1, AdvancedIs
    <3>4. vRecv' = Advanced(rest, size) /\ looping' \in BOOLEAN
      BY <2>16, <3>2 DEF Continues
    <3>5. data \in Seq(Byte)
      <4> HIDE DEF TooLarge, Cut, Wrong, data
      <4> QED
        BY <2>10, <2>11, <2>12, <2>13, <2>16
    <3>6. \A x \in Seq(Byte) : MessagesIn(Unread(vRecv) \o x) = <<data>> \o MessagesIn(Unread(vRecv') \o x)
      <4>1. \A x \in Seq(Byte) : MessagesIn(v \o x) = <<data>> \o MessagesIn(From(From(v, 4), size) \o x)
        <5> HIDE DEF TooLarge, Cut, Wrong, data
        <5> QED
          BY <2>10, <2>12, <2>13, <2>16
      <4> HIDE DEF data
      <4> QED
        BY <2>1, <3>3, <3>4, <4>1 DEF v
    <3> HIDE DEF data
    <3>7. <<data>> \in Seq(Seq(Byte)) /\ processed' = processed \o <<data>>
      <4>1. <<data>> \in Seq(Seq(Byte))
        BY <3>5
      <4>2. Append(processed, data) = processed \o <<data>>
        BY <3>5, AppendIsConcat DEF FramingInv
      <4> QED
        BY <2>16, <4>1, <4>2
    <3> DEFINE more == <<data>>
    <3> HIDE DEF more
    <3> QED
      BY <1>1, <3>3, <3>4, <3>6, <3>7, BufferStep DEF more
  <2> QED
    BY <1>2, <1>4, <2>14, <2>15, <2>16
<1> QED
  BY <1>2, <1>3, <1>4

LEMMA SendBufferFillsKeeps == FramingInv /\ SendBufferFills => FramingInv'
<1> SUFFICES ASSUME FramingInv, SendBufferFills PROVE FramingInv'
  OBVIOUS
<1>1. IsBuffer(vRecv, Byte) /\ Stops(vRecv) /\ UNCHANGED <<stream, delivered>>
  BY DEF FramingInv, SendBufferFills
<1> QED
  BY <1>1, StopsKeeps

\* However the socket cuts up what a peer sends, and whatever bytes stand between
\* its messages, ProcessMessages makes the same messages of it as if all had come
\* at once (main.cpp, net.cpp).
THEOREM MessagesAreWhole == FramingSpec => []PiecesDoNotMatter
<1>1. FramingInit => FramingInv
  BY FramingStarts
<1>2. FramingInv /\ [FramingNext]_framingVars => FramingInv'
  <2> SUFFICES ASSUME FramingInv, [FramingNext]_framingVars PROVE FramingInv'
    OBVIOUS
  <2>1. CASE Receives
    BY <2>1, ReceivesKeeps
  <2>2. CASE ProcessMessages
    BY <2>2, ProcessMessagesKeeps
  <2>3. CASE SendBufferFills
    BY <2>3, SendBufferFillsKeeps
  <2>4. CASE UNCHANGED framingVars
    BY <2>4 DEF framingVars, FramingInv
  <2> QED
    BY <2>1, <2>2, <2>3, <2>4 DEF FramingNext
<1>3. FramingInv => PiecesDoNotMatter
  <2> SUFFICES ASSUME FramingInv PROVE PiecesDoNotMatter
    OBVIOUS
  <2>1. /\ stream \in Seq(Byte) /\ delivered \in 0..Len(stream) /\ IsBuffer(vRecv, Byte)
        /\ delivered \in delivered..Len(stream) /\ delivered \in Int /\ delivered + 1 \in Int
        /\ delivered < delivered + 1
    BY DEF FramingInv
  <2>2. SubSeq(stream, delivered + 1, delivered) = <<>>
    BY <2>1, SubSeqEmpty
  <2>3. Unread(vRecv) \o <<>> = Unread(vRecv)
    BY <2>1, UnreadIs, ConcatEmptySeq
  <2>4. processed \o MessagesIn(Unread(vRecv) \o SubSeq(stream, delivered + 1, delivered))
          = MessagesIn(SubSeq(stream, 1, delivered))
    BY <2>1 DEF FramingInv
  <2> QED
    BY <2>2, <2>3, <2>4 DEF PiecesDoNotMatter
<1> QED
  BY <1>1, <1>2, <1>3, PTL DEF FramingSpec
----------------------------------------------------------------------------

LEMMA RestOfPiece ==
  ASSUME NEW S, NEW s \in Seq(S), NEW b \in 0..Len(s), NEW k \in 0..b
  PROVE  From(SubSeq(s, 1, b), k) = SubSeq(s, k + 1, b)
<1> DEFINE t == SubSeq(s, 1, b)
<1>1. Len(s) \in Nat /\ 1 \in 1..(Len(s) + 1) /\ b \in (1 - 1)..Len(s) /\ b \in Nat /\ k \in Nat
  OBVIOUS
<1>2. t \in Seq(S) /\ Len(t) = b - 1 + 1 /\ \A i \in 1..(b - 1 + 1) : t[i] = s[1 + i - 1]
  BY <1>1, PieceIs
<1>3. Len(t) = b /\ \A i \in 1..b : t[i] = s[i]
  <2> HIDE DEF t
  <2> QED
    BY <1>1, <1>2
<1>4. k \in 0..Len(t)
  <2> HIDE DEF t
  <2> QED
    BY <1>1, <1>3
<1> HIDE DEF t
<1>11. t \in Seq(S)
  BY <1>2
<1>5. /\ From(t, k) \in Seq(S) /\ Len(From(t, k)) = Len(t) - k
      /\ \A i \in 1..(Len(t) - k) : From(t, k)[i] = t[k + i]
  BY <1>4, <1>11, RestIs
<1>6. k + 1 \in 1..(Len(s) + 1) /\ b \in ((k + 1) - 1)..Len(s)
  BY <1>1
<1>7. /\ SubSeq(s, k + 1, b) \in Seq(S) /\ Len(SubSeq(s, k + 1, b)) = b - (k + 1) + 1
      /\ \A i \in 1..(b - (k + 1) + 1) : SubSeq(s, k + 1, b)[i] = s[(k + 1) + i - 1]
  BY <1>6, PieceIs
<1>8. \A i \in 1..(Len(t) - k) : From(t, k)[i] = SubSeq(s, k + 1, b)[i]
  <2> TAKE i \in 1..(Len(t) - k)
  <2>1. k + i \in 1..b /\ i \in 1..(b - (k + 1) + 1) /\ (k + 1) + i - 1 = k + i
    BY <1>1, <1>3
  <2> QED
    BY <1>3, <1>5, <1>7, <2>1
<1>9. Len(From(t, k)) = Len(SubSeq(s, k + 1, b))
  BY <1>1, <1>3, <1>5, <1>7
<1>10. From(t, k) = SubSeq(s, k + 1, b)
  BY <1>5, <1>7, <1>8, <1>9, SeqEqual
<1> QED
  BY <1>10 DEF t

\* r is the first part of the buffer s with t behind it.
IsFront(r, s, i, t) ==
  /\ r.vch = SubSeq(s.vch, 1, s.nReadPos + i) \o t
  /\ r.nReadPos = s.nReadPos

LEMMA FrontIs ==
  ASSUME NEW B, NEW s, IsBuffer(s, B), NEW i \in 0..BufferSize(s), NEW t \in Seq(B), NEW r,
         IsFront(r, s, i, t)
  PROVE  Unread(r) = SubSeq(Unread(s), 1, i) \o t
<1> DEFINE pos == s.nReadPos
           at == pos + i
           front == SubSeq(s.vch, 1, at)
           a == 1
<1>1. /\ s.vch \in Seq(B) /\ pos \in 0..Len(s.vch) /\ Len(s.vch) \in Nat
      /\ s \in [vch: Seq(B), nReadPos: Nat] /\ pos \in Nat
      /\ Unread(s) = From(s.vch, pos) /\ i \in 0..(Len(s.vch) - pos) /\ i \in Nat
  <2>1. Unread(s) = From(s.vch, pos)
    BY UnreadIs
  <2>2. /\ s.vch \in Seq(B) /\ pos \in 0..Len(s.vch) /\ Len(s.vch) \in Nat
        /\ s \in [vch: Seq(B), nReadPos: Nat] /\ pos \in Nat
    BY DEF IsBuffer
  <2>3. i \in 0..(Len(s.vch) - pos) /\ i \in Nat
    BY <2>2 DEF BufferSize
  <2> QED
    BY <2>1, <2>2, <2>3
<1> HIDE DEF pos
<1>2. at \in 0..Len(s.vch) /\ pos \in 0..at
  BY <1>1
<1>3. front \in Seq(B) /\ Len(front) = at
  <2>1. a \in 1..(Len(s.vch) + 1) /\ at \in (a - 1)..Len(s.vch)
    BY <1>1, <1>2
  <2> HIDE DEF a, at
  <2>2. SubSeq(s.vch, a, at) \in Seq(B) /\ Len(SubSeq(s.vch, a, at)) = at - a + 1
    BY <1>1, <2>1, PieceIs
  <2>3. at - a + 1 = at
    BY <1>2 DEF a
  <2> QED
    BY <2>2, <2>3 DEF a
<1>4. From(front, pos) = SubSeq(s.vch, pos + 1, at)
  <2> HIDE DEF at
  <2> QED
    BY <1>1, <1>2, RestOfPiece
<1>5. SubSeq(Unread(s), 1, i) = SubSeq(s.vch, pos + 1, at)
  <2> DEFINE v == s.vch
  <2>1. a \in 1..(Len(v) - pos + 1) /\ i \in (a - 1)..(Len(v) - pos)
    BY <1>1
  <2>2. a + pos = pos + 1 /\ i + pos = at
    BY <1>1
  <2>3. v \in Seq(B) /\ pos \in 0..Len(v)
    BY <1>1
  <2> HIDE DEF a, at, v
  <2>4. SubSeq(From(v, pos), a, i) = SubSeq(v, a + pos, i + pos)
    BY <2>1, <2>3, PieceOfRest
  <2> QED
    BY <1>1, <2>2, <2>4 DEF a, v
<1>6. From(front \o t, pos) = From(front, pos) \o t
  <2> HIDE DEF front, at
  <2> QED
    BY <1>2, <1>3, RestOfBoth
<1>7. Unread(r) = From(front \o t, pos)
  <2>1. r.vch = front \o t /\ r.nReadPos = pos
    BY DEF pos, IsFront
  <2> HIDE DEF front
  <2> QED
    BY <2>1 DEF Unread, From
<1> QED
  BY <1>4, <1>5, <1>6, <1>7 DEF pos

\* A buffer is the sequence of what is not read yet: it is added to, put into, cut,
\* read and read again as that sequence is, wherever its position stands
\* (CDataStream of serialize.h).
THEOREM BufferIsSequence ==
  ASSUME NEW B, NEW s, IsBuffer(s, B), NEW bytes \in Seq(B), NEW i \in Nat, NEW n \in Nat
  PROVE  StreamIsBuffer(s, bytes, i, n)
<1> DEFINE u == Unread(s)
           pos == s.nReadPos
           Cut(k) == SubSeq(u, 1, k)
           Rest(k) == SubSeq(u, k + 1, Len(u))
           read == Read(s, n)
<1> SUFFICES ASSUME i + n <= Len(u)
             PROVE  /\ Unread(Appended(s, bytes)) = u \o bytes
                    /\ Unread(Inserted(s, i, bytes)) = Cut(i) \o bytes \o Rest(i)
                    /\ Unread(Erased(s, i, n)) = Cut(i) \o Rest(i + n)
                    /\ Unread(Compacted(s)) = u /\ Unread(Ignored(s, n)) = Rest(n)
                    /\ Unread(Resized(s, n)) = Cut(n) /\ Unread(Concatenated(StreamOf(bytes), s)) = bytes \o u
                    /\ read.fOk /\ read.value = Cut(n) /\ Unread(read.stream) = Rest(n)
                    /\ Unread(Inserted(read.stream, 0, Cut(n))) = u
                    /\ n < Len(u) => Unread(Rewound(read.stream, n)) = u
  BY DEF StreamIsBuffer
<1>1. u \in Seq(B) /\ u = From(s.vch, pos) /\ Len(u) = BufferSize(s) /\ Len(u) \in Nat
  BY UnreadIs
<1>2. /\ s.vch \in Seq(B) /\ pos \in 0..Len(s.vch) /\ Len(s.vch) \in Nat /\ pos \in Nat
      /\ s \in [vch: Seq(B), nReadPos: Nat] /\ Len(u) = Len(s.vch) - pos
  BY <1>1 DEF IsBuffer, BufferSize
<1> HIDE DEF u
<1>3. i \in 0..Len(u) /\ n \in 0..Len(u) /\ i + n \in 0..Len(u)
      /\ i \in 0..BufferSize(s) /\ n \in 0..BufferSize(s)
  BY <1>1
<1>4. \A k : Rest(k) = From(u, k)
  BY DEF From
<1>5. \A k \in 0..Len(u) : Rest(k) \in Seq(B) /\ Cut(k) \in Seq(B) /\ Cut(k) \o Rest(k) = u
  <2> SUFFICES ASSUME NEW k \in 0..Len(u)
               PROVE  Rest(k) \in Seq(B) /\ Cut(k) \in Seq(B) /\ Cut(k) \o Rest(k) = u
    OBVIOUS
  <2> DEFINE a == 1
  <2>1. a \in 1..(Len(u) + 1) /\ k \in (a - 1)..Len(u)
    BY <1>1
  <2> HIDE DEF a
  <2>2. SubSeq(u, a, k) \in Seq(B)
    BY <1>1, <2>1, PieceIs
  <2>3. From(u, k) \in Seq(B) /\ SubSeq(u, 1, k) \o From(u, k) = u
    BY <1>1, RestIs, CutAndRest
  <2> QED
    BY <1>4, <2>2, <2>3 DEF a
<1>6. Unread(Appended(s, bytes)) = u \o bytes /\ Unread(Compacted(s)) = u
  BY AppendedIs, CompactedIs DEF u
<1>7. read = [fOk |-> TRUE, value |-> Cut(n), stream |-> Advanced(s, n)]
      /\ Ignored(s, n) = Advanced(s, n)
  <2>1. ~(n > BufferSize(s))
    BY <1>1, <1>3
  <2> QED
    BY <2>1 DEF Read, Ignored, u
<1>8. IsBuffer(Advanced(s, n), B) /\ Unread(Advanced(s, n)) = Rest(n)
  <2>1. IsBuffer(Advanced(s, n), B) /\ Unread(Advanced(s, n)) = From(Unread(s), n)
    BY <1>3, AdvancedIs
  <2> QED
    BY <1>4, <2>1 DEF u
<1>9. Unread(Inserted(s, i, bytes)) = Cut(i) \o bytes \o Rest(i)
  <2>1. CASE i = 0
    <3>1. Unread(Inserted(s, 0, bytes)) = bytes \o u
      BY InsertedIs DEF u
    <3>2. Cut(0) = <<>> /\ Rest(0) = u
      <4>1. Rest(0) = u
        <5>1. 0 + 1 = 1
          OBVIOUS
        <5> QED
          BY <1>1, <5>1, SubSeqFull
      <4>2. Cut(0) = <<>>
        <5> DEFINE a == 1
                   z == 0
        <5>1. a \in Int /\ z \in Int /\ z < a
          OBVIOUS
        <5> HIDE DEF a, z
        <5>2. SubSeq(u, a, z) = <<>>
          BY <5>1, SubSeqEmpty
        <5> QED
          BY <5>2 DEF a, z
      <4> QED
        BY <4>1, <4>2
    <3>3. <<>> \o bytes = bytes
      BY ConcatEmptySeq
    <3> QED
      BY <2>1, <3>1, <3>2, <3>3
  <2>2. CASE i # 0
    <3> DEFINE front == SubSeq(s.vch, 1, pos + i)
               back == SubSeq(s.vch, (pos + i) + 1, Len(s.vch))
               t == bytes \o back
               r == Inserted(s, i, bytes)
    <3>1. Inserted(s, i, bytes) = [s EXCEPT !.vch = front \o bytes \o back]
      BY <2>2 DEF Inserted
    <3>2. back = Rest(i) /\ back \in Seq(B)
      <4>1. i \in 0..(Len(s.vch) - pos)
        BY <1>2, <1>3
      <4>2. From(From(s.vch, pos), i) = From(s.vch, pos + i)
        BY <1>2, <4>1, RestOfRest
      <4> QED
        BY <1>1, <1>3, <1>4, <1>5, <4>2 DEF From
    <3>3. front \in Seq(B)
      <4> DEFINE a == 1
                 b == pos + i
      <4>1. a \in 1..(Len(s.vch) + 1) /\ b \in (a - 1)..Len(s.vch)
        BY <1>2, <1>3
      <4> HIDE DEF a, b
      <4>2. SubSeq(s.vch, a, b) \in Seq(B)
        BY <1>2, <4>1, PieceIs
      <4> QED
        BY <4>2 DEF a, b
    <3>4. front \o bytes \o back = front \o t /\ t \in Seq(B)
      <4> HIDE DEF front, back
      <4>3. back \in Seq(B)
        BY <3>2
      <4>1. (front \o bytes) \o back = front \o (bytes \o back)
        BY <3>3, <4>3, ConcatAssociative
      <4>2. bytes \o back \in Seq(B)
        BY <3>2, ConcatProperties
      <4> QED
        BY <4>1, <4>2
    <3>5. Unread(r) = SubSeq(u, 1, i) \o t
      <4>1. r.vch = front \o t /\ r.nReadPos = pos
        <5> HIDE DEF front, back, t, pos, r
        <5>1. r = [s EXCEPT !.vch = front \o t]
          BY <3>1, <3>4 DEF r
        <5>2. r.vch = front \o t /\ r.nReadPos = s.nReadPos
          BY <1>2, <5>1
        <5> QED
          BY <5>2 DEF pos
      <4>2. i \in 0..BufferSize(s) /\ t \in Seq(B)
        BY <1>3, <3>4
      <4> HIDE DEF t, r
      <4> QED
        <5>1. IsFront(r, s, i, t)
          BY <4>1 DEF IsFront
        <5>2. Unread(r) = SubSeq(Unread(s), 1, i) \o t
          BY <4>2, <5>1, FrontIs
        <5> QED
          BY <5>2 DEF u
    <3>6. Cut(i) \o (bytes \o back) = (Cut(i) \o bytes) \o back
      <4> DEFINE c == Cut(i)
      <4>1. c \in Seq(B)
        BY <1>3, <1>5
      <4>3. back \in Seq(B)
        BY <3>2
      <4> HIDE DEF back, c
      <4>2. c \o (bytes \o back) = (c \o bytes) \o back
        BY <4>1, <4>3, ConcatAssociative
      <4> QED
        BY <4>2 DEF c
    <3>7. Unread(r) = (Cut(i) \o bytes) \o back
      <4> HIDE DEF r, back
      <4> QED
        BY <3>5, <3>6
    <3> HIDE DEF back
    <3> QED
      BY <3>2, <3>7
  <2> QED
    BY <2>1, <2>2
<1>10. Unread(Erased(s, i, n)) = Cut(i) \o Rest(i + n)
  <2>1. CASE i = 0
    <3>1. Erased(s, 0, n) = Advanced(s, n)
      BY DEF Erased
    <3>2. Cut(0) = <<>>
      <4> DEFINE a == 1
                 z == 0
      <4>1. a \in Int /\ z \in Int /\ z < a
        OBVIOUS
      <4> HIDE DEF a, z
      <4>2. SubSeq(u, a, z) = <<>>
        BY <4>1, SubSeqEmpty
      <4> QED
        BY <4>2 DEF a, z
    <3>3. <<>> \o Rest(n) = Rest(n) /\ 0 + n = n
      BY <1>3, <1>5, ConcatEmptySeq
    <3> QED
      BY <1>8, <2>1, <3>1, <3>2, <3>3
  <2>2. CASE i # 0
    <3> DEFINE t == SubSeq(s.vch, (pos + i) + n + 1, Len(s.vch))
               front == SubSeq(s.vch, 1, pos + i)
               r == Erased(s, i, n)
    <3>1. Erased(s, i, n) = [s EXCEPT !.vch = front \o t]
      BY <2>2 DEF Erased
    <3>2. t = Rest(i + n) /\ t \in Seq(B)
      <4>1. i + n \in 0..(Len(s.vch) - pos) /\ pos + (i + n) = (pos + i) + n
        BY <1>2, <1>3
      <4> DEFINE k == i + n
      <4>2. k \in 0..(Len(s.vch) - pos)
        BY <4>1
      <4> HIDE DEF k
      <4>3. From(From(s.vch, pos), k) = From(s.vch, pos + k)
        BY <1>2, <4>2, RestOfRest
      <4>4. t = From(s.vch, pos + (i + n))
        BY <4>1 DEF From
      <4> QED
        BY <1>1, <1>3, <1>4, <1>5, <4>3, <4>4 DEF k
    <3>3. Unread(r) = SubSeq(u, 1, i) \o t
      <4>1. r.vch = front \o t /\ r.nReadPos = pos
        <5> HIDE DEF front, t, pos, r
        <5>1. r = [s EXCEPT !.vch = front \o t]
          BY <3>1 DEF r
        <5>2. r.vch = front \o t /\ r.nReadPos = s.nReadPos
          BY <1>2, <5>1
        <5> QED
          BY <5>2 DEF pos
      <4>2. i \in 0..BufferSize(s) /\ t \in Seq(B)
        BY <1>3, <3>2
      <4> HIDE DEF t, r
      <4> QED
        <5>1. IsFront(r, s, i, t)
          BY <4>1 DEF IsFront
        <5>2. Unread(r) = SubSeq(Unread(s), 1, i) \o t
          BY <4>2, <5>1, FrontIs
        <5> QED
          BY <5>2 DEF u
    <3> HIDE DEF t
    <3> QED
      BY <3>2, <3>3
  <2> QED
    BY <2>1, <2>2
<1>11. Unread(Resized(s, n)) = Cut(n)
  <2> DEFINE none == <<>>
             b == pos + n
             front == SubSeq(s.vch, 1, b)
             shorter == [k \in 1..(s.nReadPos + n) |-> IF k <= Len(s.vch) THEN s.vch[k] ELSE 0]
             a == 1
             r == Resized(s, n)
  <2>1. a \in 1..(Len(s.vch) + 1) /\ b \in (a - 1)..Len(s.vch) /\ b \in Nat
    BY <1>2, <1>3
  <2>2. front \in Seq(B) /\ Len(front) = b /\ \A k \in 1..b : front[k] = s.vch[k]
    <3> HIDE DEF a, b
    <3>1. /\ SubSeq(s.vch, a, b) \in Seq(B) /\ Len(SubSeq(s.vch, a, b)) = b - a + 1
          /\ \A k \in 1..(b - a + 1) : SubSeq(s.vch, a, b)[k] = s.vch[a + k - 1]
      BY <1>2, <2>1, PieceIs
    <3>2. b - a + 1 = b /\ \A k \in 1..b : a + k - 1 = k
      BY <2>1 DEF a
    <3> QED
      BY <3>1, <3>2 DEF a
  <2>3. shorter = front
    <3> HIDE DEF front, shorter
    <3>1. shorter = [k \in 1..b |-> s.vch[k]]
      <4>1. \A k \in 1..b : k <= Len(s.vch)
        BY <1>2, <2>1
      <4> QED
        BY <4>1 DEF shorter
    <3>2. front = [k \in 1..b |-> front[k]]
      BY <2>1, <2>2
    <3> QED
      BY <2>2, <3>1, <3>2
  <2>4. none \in Seq(B) /\ front \o none = front
    <3> HIDE DEF front
    <3> QED
      BY <2>2, ConcatEmptySeq
  <2>5. Resized(s, n) = [s EXCEPT !.vch = front \o none]
    <3>1. Resized(s, n) = [s EXCEPT !.vch = shorter]
      BY DEF Resized
    <3> HIDE DEF front, shorter, none
    <3> QED
      BY <2>3, <2>4, <3>1
  <2>6. Unread(r) = SubSeq(u, 1, n) \o none
    <3>1. r.vch = front \o none /\ r.nReadPos = pos
      <4> HIDE DEF front, none, pos, r
      <4>1. r = [s EXCEPT !.vch = front \o none]
        BY <2>5 DEF r
      <4>2. r.vch = front \o none /\ r.nReadPos = s.nReadPos
        BY <1>2, <4>1
      <4> QED
        BY <4>2 DEF pos
    <3>2. n \in 0..BufferSize(s) /\ none \in Seq(B)
      BY <1>3, <2>4
    <3> HIDE DEF none, r
    <3> QED
      <4>1. IsFront(r, s, n, none)
        BY <3>1 DEF IsFront
      <4>2. Unread(r) = SubSeq(Unread(s), 1, n) \o none
        BY <3>2, <4>1, FrontIs
      <4> QED
        BY <4>2 DEF u
  <2>7. SubSeq(u, 1, n) \o none = SubSeq(u, 1, n)
    BY <1>3, <1>5, ConcatEmptySeq
  <2> QED
    BY <2>6, <2>7
<1>12. Unread(Concatenated(StreamOf(bytes), s)) = bytes \o u
  <2>1. IsBuffer(StreamOf(bytes), B) /\ Unread(StreamOf(bytes)) = bytes
    BY StreamOfIs
  <2>2. Unread(Appended(StreamOf(bytes), u)) = bytes \o u
    BY <1>1, <2>1, AppendedIs
  <2> QED
    BY <2>2 DEF Concatenated, u
<1>13. Unread(Inserted(read.stream, 0, Cut(n))) = u
  <2>2. read.stream = Advanced(s, n)
    BY <1>7
  <2> HIDE DEF read
  <2>1. Unread(Inserted(Advanced(s, n), 0, Cut(n))) = Cut(n) \o Rest(n)
    BY <1>3, <1>5, <1>8, InsertedIs
  <2> QED
    BY <1>3, <1>5, <2>1, <2>2
<1>14. n < Len(u) => Unread(Rewound(read.stream, n)) = u
  <2> SUFFICES ASSUME n < Len(u) PROVE Unread(Rewound(read.stream, n)) = u
    OBVIOUS
  <2> DEFINE r == Advanced(s, n)
  <2>1. r = [s EXCEPT !.nReadPos = pos + n]
    BY <1>1 DEF Advanced
  <2>2. r.vch = s.vch /\ r.nReadPos = pos + n /\ r = [vch |-> s.vch, nReadPos |-> pos + n]
    BY <1>2, <2>1
  <2>3. ~(n > pos + n) /\ (pos + n) - n = pos
    BY <1>2
  <2> HIDE DEF r
  <2>4. Rewound(r, n) = [r EXCEPT !.nReadPos = (pos + n) - n]
    BY <2>2, <2>3 DEF Rewound
  <2>5. Rewound(r, n).vch = s.vch /\ Rewound(r, n).nReadPos = pos
    BY <2>2, <2>3, <2>4
  <2>6. Unread(Rewound(r, n)) = u
    BY <2>5 DEF Unread, u
  <2> QED
    BY <1>7, <2>6 DEF r
<1>15. read.fOk /\ read.value = Cut(n) /\ Unread(read.stream) = Rest(n) /\ Unread(Ignored(s, n)) = Rest(n)
  BY <1>7, <1>8
<1> HIDE DEF read
<1> QED
  BY <1>6, <1>9, <1>10, <1>11, <1>12, <1>13, <1>14, <1>15
============================================================================
