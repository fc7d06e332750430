------------------------------ MODULE Framing ------------------------------
(***************************************************************************)
(* How messages are cut out of the bytes a socket delivers: BeginMessage   *)
(* and EndMessage of net.h on one side, ThreadSocketHandler and            *)
(* ProcessMessages on the other.                                           *)
(*                                                                         *)
(* A header is the two bytes of pchMessageStart, one for the size and one  *)
(* for the checksum; the command is left out.                              *)
(***************************************************************************)
EXTENDS DataStream, FiniteSets, SequencesExt

CONSTANTS
  Byte,     \* the bytes, 0..(n - 1)
  MAX_SIZE, \* longest message
  Garbage,  \* bound on the bytes that belong to no message, in all
  Payloads  \* the data of the messages that are sent

ASSUME FramingAssumption ==
  /\ IsFiniteSet(Byte) /\ Byte = 0..(Cardinality(Byte) - 1) /\ {MAX_SIZE, 0, 1, 2} \subseteq Byte
  /\ Garbage \in Nat
  /\ Payloads \subseteq Seq(Byte) /\ \A data \in Payloads : Len(data) \in Byte

VARIABLES
  stream,    \* all that the peer sends
  delivered, \* how much of it recv has returned
  vRecv,     \* the receive buffer, a CDataStream
  looping,   \* ProcessMessages is between two turns of its loop, and holds cs_vRecv
  processed  \* data of the messages that were handed to ProcessMessage

framingVars == <<stream, delivered, vRecv, looping, processed>>

pchMessageStart == <<1, 2>>
nHeaderSize == 4

Checksum(data) == FoldLeft(LAMBDA sum, b : (sum + b + 1) % Cardinality(Byte), 0, data)

\* BeginMessage writes the header, EndMessage fills in the size and the checksum.
EndMessage(data) == pchMessageStart \o <<Len(data), Checksum(data)>> \o data

\* Bytes out of step, a message, bytes again, another message.
Strings(n) == UNION {[1..k -> Byte] : k \in 0..n}
Streams ==
  {g[1] \o EndMessage(m[1]) \o g[2] \o EndMessage(m[2]) :
     g \in {g \in Strings(Garbage) \X Strings(Garbage) : Len(g[1] \o g[2]) <= Garbage},
     m \in Payloads \X Payloads}

FramingInit ==
  /\ stream \in Streams
  /\ delivered = 0 /\ vRecv = StreamOf(<<>>) /\ looping = FALSE /\ processed = <<>>

\* recv returns what has come so far, which is put behind what is there.
Receives ==
  /\ ~looping
  /\ \E n \in (delivered + 1)..Len(stream) :
       /\ delivered' = n
       /\ vRecv' = Appended(vRecv, SubSeq(stream, delivered + 1, n))
  /\ UNCHANGED <<stream, looping, processed>>

\* The place of the first message start, or past the end.
StartOf(s) ==
  Min({i \in 1..(Len(s) - 1) : SubSeq(s, i, i + 1) = pchMessageStart} \cup {Len(s) + 1})

\* Mutant: without a start nothing is kept, not even the first byte of one.
DropAll(s) == StreamOf(<<>>)

\* What is kept when no whole header is there.
DropGarbage(s) == IF BufferSize(s) > nHeaderSize THEN Erased(s, 0, BufferSize(s) - nHeaderSize) ELSE s

Stops(s) == vRecv' = Compacted(s) /\ looping' = FALSE /\ UNCHANGED processed
Continues(s) == vRecv' = s /\ looping' = TRUE

\* One turn of ProcessMessages' loop.  A message that is not complete is put
\* back with its header; after a header with a wrong size or checksum the search
\* goes on behind it, in its data.
ProcessMessages ==
  LET start  == StartOf(Unread(vRecv))
      header == Read(Erased(vRecv, 0, start - 1), nHeaderSize)
      size   == header.value[3]
      rest   == header.stream
      data   == SubSeq(Unread(rest), 1, size)
      NoHeader == BufferSize(vRecv) - start + 1 < nHeaderSize
      TooLarge == size > MAX_SIZE
      Cut      == size > BufferSize(rest)
      Wrong    == Checksum(data) # header.value[4]
  IN  /\ looping \/ BufferSize(vRecv) > 0
      /\ \/ NoHeader /\ Stops(DropGarbage(vRecv))
         \/ ~NoHeader /\ TooLarge /\ Continues(rest) /\ UNCHANGED processed
         \/ ~NoHeader /\ ~TooLarge /\ Cut /\ Stops(Inserted(rest, 0, header.value))
         \/ ~NoHeader /\ ~TooLarge /\ ~Cut /\ Wrong /\ Continues(rest) /\ UNCHANGED processed
         \/ /\ ~NoHeader /\ ~TooLarge /\ ~Cut /\ ~Wrong
            /\ Continues(Ignored(rest, size)) /\ processed' = Append(processed, data)
      /\ UNCHANGED <<stream, delivered>>

\* The loop ends between two messages when the answers to them fill vSend.
SendBufferFills == looping /\ Stops(vRecv) /\ UNCHANGED <<stream, delivered>>

FramingNext == Receives \/ ProcessMessages \/ SendBufferFills

FramingSpec == FramingInit /\ [][FramingNext]_framingVars

----------------------------------------------------------------------------

\* The messages in a string of bytes, looked at as a whole: at each place either
\* a sound message starts, and the next place is behind it, or a header that
\* cannot be used, which is skipped, or one that is not complete, which ends it.
MessagesIn(s) ==
  LET in[i \in 1..(Len(s) + 1)] ==
        LET data == SubSeq(s, i + nHeaderSize, i + nHeaderSize + s[i + 2] - 1) IN
        IF i + nHeaderSize > Len(s) + 1 THEN <<>>
        ELSE IF SubSeq(s, i, i + 1) # pchMessageStart THEN in[i + 1]
        ELSE IF s[i + 2] > MAX_SIZE THEN in[i + nHeaderSize]
        ELSE IF i + nHeaderSize + s[i + 2] > Len(s) + 1 THEN <<>>
        ELSE IF Checksum(data) # s[i + 3] THEN in[i + nHeaderSize]
        ELSE <<data>> \o in[i + nHeaderSize + s[i + 2]]
  IN  in[1]

\* It does not matter into which pieces the socket cuts the bytes: what was
\* processed and what is still in the buffer are together the messages of all
\* that was delivered.
PiecesDoNotMatter ==
  processed \o MessagesIn(Unread(vRecv)) = MessagesIn(SubSeq(stream, 1, delivered))
=============================================================================
