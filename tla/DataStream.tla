----------------------------- MODULE DataStream -----------------------------
(***************************************************************************)
(* CDataStream, the buffer whatever goes over a connection or into a       *)
(* database is written to and read from: bytes, and the position up to     *)
(* which they are read (serialize.h).                                      *)
(*                                                                         *)
(* Reading yields [fOk, value, stream].  Without fOk an exception left the *)
(* caller, and the value counts for nothing.                               *)
(***************************************************************************)
EXTENDS Integers, Sequences

StreamOf(vch) == [vch |-> vch, nReadPos |-> 0]
Unread(s) == SubSeq(s.vch, s.nReadPos + 1, Len(s.vch))
BufferSize(s) == Len(s.vch) - s.nReadPos

Appended(s, bytes) == [s EXCEPT !.vch = @ \o bytes]
Concatenated(s, t) == Appended(s, Unread(t))

\* Whatever empties the buffer starts it anew.
Advanced(s, n) == IF n = BufferSize(s) THEN StreamOf(<<>>) ELSE [s EXCEPT !.nReadPos = @ + n]

\* Nothing is taken out when there is not enough.
Read(s, n) ==
  IF n > BufferSize(s) THEN [fOk |-> FALSE, value |-> <<>>, stream |-> s]
  ELSE [fOk |-> TRUE, value |-> SubSeq(Unread(s), 1, n), stream |-> Advanced(s, n)]
Ignored(s, n) == IF n > BufferSize(s) THEN s ELSE Advanced(s, n)

\* Places count from the reading position.  At the front, what was read is
\* overwritten when it leaves room.
Inserted(s, i, bytes) ==
  LET first == s.nReadPos - Len(bytes)
      at    == s.nReadPos + i
  IN  IF i = 0 /\ first >= 0
      THEN [vch |-> SubSeq(s.vch, 1, first) \o bytes \o Unread(s), nReadPos |-> first]
      ELSE [s EXCEPT !.vch = SubSeq(@, 1, at) \o bytes \o SubSeq(@, at + 1, Len(@))]

Erased(s, i, n) ==
  LET at == s.nReadPos + i
  IN  IF i = 0 THEN Advanced(s, n)
      ELSE [s EXCEPT !.vch = SubSeq(@, 1, at) \o SubSeq(@, at + n + 1, Len(@))]

Resized(s, n) ==
  [s EXCEPT !.vch = [i \in 1..(s.nReadPos + n) |-> IF i <= Len(s.vch) THEN s.vch[i] ELSE 0]]

Compacted(s) == StreamOf(Unread(s))
Rewound(s, n) == IF n > s.nReadPos THEN s ELSE [s EXCEPT !.nReadPos = @ - n]

----------------------------------------------------------------------------

\* However the buffer stores what is not read yet, it is one sequence that bytes
\* are added to, put into and taken out of, and what is read can be put back.
StreamIsBuffer(s, bytes, i, n) ==
  LET unread == Unread(s)
      Cut(k) == SubSeq(unread, 1, k)
      Rest(k) == SubSeq(unread, k + 1, Len(unread))
      read == Read(s, n)
  IN  i + n <= Len(unread) =>
        /\ Unread(Appended(s, bytes)) = unread \o bytes
        /\ Unread(Inserted(s, i, bytes)) = Cut(i) \o bytes \o Rest(i)
        /\ Unread(Erased(s, i, n)) = Cut(i) \o Rest(i + n)
        /\ Unread(Compacted(s)) = unread /\ Unread(Ignored(s, n)) = Rest(n)
        /\ Unread(Resized(s, n)) = Cut(n) /\ Unread(Concatenated(StreamOf(bytes), s)) = bytes \o unread
        /\ read.fOk /\ read.value = Cut(n) /\ Unread(read.stream) = Rest(n)
        /\ Unread(Inserted(read.stream, 0, Cut(n))) = unread
        /\ n < Len(unread) => Unread(Rewound(read.stream, n)) = unread
=============================================================================
