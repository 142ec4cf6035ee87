--------------------------- MODULE RpcBufferReader ---------------------------
(***************************************************************************)
(* packages/rpc/src/protocol.ts, class RpcBufferReader: cuts the byte      *)
(* stream of a socket into messages, whatever chunks the socket delivers.  *)
(*                                                                         *)
(* Every buffer the reader keeps is a piece of the stream that ends at the *)
(* last byte fed, so a buffer is given by the position it starts at.  Byte *)
(* contents matter only where a size is read (Word).  The while loop of    *)
(* feed() is one action per iteration.                                     *)
(***************************************************************************)
EXTENDS Integers, Sequences

CONSTANTS Header,     \* bytes of the size field: 4
          Streams,    \* the streams sent: offsets 0 = off[1] < off[2] < ... < end
          Garbage     \* what is read as a size anywhere but at a message

ASSUME HeaderAssumption == Header \in Nat \ {0}
ASSUME GarbageAssumption == Garbage \in Nat \ {0}
ASSUME StreamsAssumption ==
    \A off \in Streams : /\ off \in Seq(Nat)
                         /\ Len(off) >= 2
                         /\ off[1] = 0
                         /\ \A j, k \in 1 .. Len(off) : j < k => off[k] - off[j] >= Header

None == -1

VARIABLES off,        \* where the messages of the stream start, and its end
          fed,        \* bytes fed so far
          derailed,   \* history: has a chunk ended inside a size field, or a
                      \* callback thrown with more messages to follow?
          cur,        \* start of this.currentMessage, or None (undefined)
          curSize,    \* this.currentMessageSize
          buf,        \* start of the local currentBuffer
          size,       \* the local currentSize
          looping,    \* is feed() inside its while loop?
          messages    \* the pieces <<from, to>> given to onMessage

vars == <<off, fed, derailed, cur, curSize, buf, size, looping, messages>>

Total == Len(off) - 1
End == off[Len(off)]

TypeOK == /\ off \in Streams
          /\ fed \in 0 .. End
          /\ derailed \in BOOLEAN
          /\ cur \in 0 .. End \cup {None}
          /\ curSize \in Nat
          /\ buf \in 0 .. End
          /\ size \in Nat
          /\ looping \in BOOLEAN
          /\ messages \in Seq(Nat \X Nat)

Init == /\ off \in Streams
        /\ fed = 0
        /\ derailed = FALSE
        /\ cur = None
        /\ curSize = 0
        /\ buf = 0
        /\ size = 0
        /\ looping = FALSE
        /\ messages = <<>>

\* readUint32LE() of a buffer that starts at p: the size of the message there.
Word(p) == IF \E k \in 1 .. Total : off[k] = p
           THEN LET k == CHOOSE k \in 1 .. Total : off[k] = p IN off[k + 1] - off[k]
           ELSE Garbage

\* The socket hands over n more bytes.
Chunk(n) == /\ ~looping
            /\ fed + n <= End
            /\ fed' = fed + n
            /\ derailed' = (derailed \/ \E k \in 1 .. Total : off[k] < fed + n /\ fed + n < off[k] + Header)
            /\ UNCHANGED <<off, messages>>

-----------------------------------------------------------------------------
(* feed(data), before its loop                                             *)

\* `not enough data to read the header. Wait for next onData`
FeedShort(n) == /\ cur = None
                /\ n < Header
                /\ Chunk(n)
                /\ UNCHANGED <<cur, curSize, buf, size, looping>>

FeedFirst(n) == /\ cur = None
                /\ n >= Header
                /\ Chunk(n)
                /\ cur' = fed
                /\ curSize' = Word(fed)
                /\ buf' = fed
                /\ size' = Word(fed)
                /\ looping' = TRUE

\* Mutant: the reader forgets that it knows the size and reads it at the chunk.
FeedMore_Rereads(n) == /\ cur # None
                       /\ Chunk(n)
                       /\ curSize' = Word(fed)
                       /\ buf' = cur
                       /\ size' = Word(fed)
                       /\ looping' = TRUE
                       /\ UNCHANGED cur

\* The chunk is appended to currentMessage.  Its size is read only if it is
\* not known, which takes the whole size field.
FeedMore(n) == LET unknown == curSize = 0
                   short == unknown /\ fed + n - cur < Header
               IN /\ cur # None
                  /\ Chunk(n)
                  /\ curSize' = IF unknown /\ ~short THEN Word(cur) ELSE curSize
                  /\ buf' = IF short THEN buf ELSE cur
                  /\ size' = IF short THEN size ELSE curSize'
                  /\ looping' = ~short
                  /\ UNCHANGED cur

-----------------------------------------------------------------------------
(* One iteration of the loop over currentBuffer = bytes buf .. fed         *)

Incomplete == /\ looping
              /\ size > fed - buf
              /\ cur' = buf
              /\ curSize' = size
              /\ looping' = FALSE
              /\ UNCHANGED <<off, fed, derailed, buf, size, messages>>

LastMessage == /\ looping
               /\ size = fed - buf
               /\ curSize' = 0
               /\ cur' = None
               /\ messages' = Append(messages, <<buf, fed>>)
               /\ looping' = FALSE
               /\ UNCHANGED <<off, fed, derailed, buf, size>>

\* A message is complete and more bytes follow.  With less than a size field
\* left the reader keeps them as currentMessage and leaves
\* currentMessageSize as it is.
MoreFollows == LET rest == buf + size
                   short == fed - rest < Header
               IN /\ looping
                  /\ size < fed - buf
                  /\ messages' = Append(messages, <<buf, rest>>)
                  /\ buf' = rest
                  /\ cur' = IF short THEN rest ELSE cur
                  /\ size' = IF short THEN size ELSE Word(rest)
                  /\ looping' = ~short
                  /\ UNCHANGED <<off, fed, derailed, curSize>>

\* onMessage throws (or the next size is zero) and feed() is left before it
\* has stored what remains: currentMessage still starts with messages that
\* were delivered.  A throw at LastMessage comes after everything is stored.
CallbackThrows == /\ looping
                  /\ size < fed - buf
                  /\ messages' = Append(messages, <<buf, buf + size>>)
                  /\ looping' = FALSE
                  /\ derailed' = TRUE
                  /\ UNCHANGED <<off, fed, cur, curSize, buf, size>>

Feed(n) == FeedShort(n) \/ FeedFirst(n) \/ FeedMore(n)
Next == (\E n \in 1 .. End : Feed(n)) \/ Incomplete \/ LastMessage \/ MoreFollows \/ CallbackThrows

Spec == Init /\ [][Next]_vars

-----------------------------------------------------------------------------
(* Properties                                                              *)

\* The callback has been given the messages that have arrived whole, in
\* order, each once and with its own bytes.
Whole(p) == {k \in 1 .. Total : off[k + 1] <= p}
AllWhole == messages = [k \in Whole(fed) |-> <<off[k], off[k + 1]>>]

\* Between two chunks feed() owes no message and has made none up, as long
\* as no chunk has ended inside a size field and no callback has thrown with
\* more messages to follow.
Framed == ~looping /\ ~derailed => AllWhole
=============================================================================
