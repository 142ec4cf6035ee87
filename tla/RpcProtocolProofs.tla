-------------------------- MODULE RpcProtocolProofs --------------------------
(***************************************************************************)
(* What becomes of bytes and messages between the two ends of an RPC       *)
(* connection (packages/rpc/src/protocol.ts, writer.ts).                   *)
(*                                                                         *)
(* First the framing: the RpcBufferReader gives its callback exactly the   *)
(* messages that have arrived, for every set of streams and every sequence *)
(* of chunks none of which ends inside a size field, as long as no         *)
(* callback throws between two messages of a chunk.                        *)
(*                                                                         *)
(* Then the chunks: for every set of messages of any length that the two   *)
(* sides write, the readers give whole messages only and each once, and    *)
(* the writers wait for the acknowledgement of each chunk.  WireInv says   *)
(* what can be on the wire, and that the long messages of one connection   *)
(* are numbered apart; ReaderInv what each reader has put together of a    *)
(* message and that the rest is on its way, in order; PacedInv counts what *)
(* is on its way of a message against whether its writer waits.            *)
(***************************************************************************)
EXTENDS RpcBufferReader, RpcChunk, QueueLemmas

-----------------------------------------------------------------------------
(* RpcBufferReader                                                         *)

\* The first m messages.
Pieces(m) == [k \in 1 .. m |-> <<off[k], off[k + 1]>>]

\* Inside the loop: the local buffer starts at a message, its size is known,
\* and all messages before it have been given to the callback.
AtMessage == \E k \in 1 .. Total : /\ buf = off[k]
                                  /\ size = off[k + 1] - off[k]
                                  /\ fed - buf >= Header
                                  /\ messages = Pieces(k - 1)

\* Between two chunks: nothing is kept and all bytes are used up ...
AllUsed == /\ cur = None
           /\ \E k \in 1 .. Total + 1 : fed = off[k] /\ messages = Pieces(k - 1)

\* ... or an incomplete message of known size is.
InMessage == \E k \in 1 .. Total : /\ cur = off[k]
                                  /\ curSize = off[k + 1] - off[k]
                                  /\ fed - cur >= Header
                                  /\ fed < off[k + 1]
                                  /\ messages = Pieces(k - 1)

OutsideHeaders == \A k \in 1 .. Total : ~(off[k] < fed /\ fed < off[k] + Header)

Position == /\ OutsideHeaders
            /\ looping => AtMessage
            /\ ~looping => AllUsed \/ InMessage

IInv == TypeOK /\ (~derailed => Position)

\* What is assumed of a stream, for the one that is sent.
LEMMA Stream == ASSUME off \in Streams
                PROVE  /\ off \in Seq(Nat)
                       /\ Len(off) \in Nat
                       /\ Total \in Nat \ {0}
                       /\ off[1] = 0
                       /\ \A k \in 1 .. Total + 1 : off[k] \in Nat
                       /\ \A j, k \in 1 .. Total + 1 : j < k => off[k] - off[j] >= Header
                       /\ End = off[Total + 1]
                       /\ Header \in Nat \ {0}
                       /\ Garbage \in Nat \ {0}
<1>1. /\ off \in Seq(Nat) /\ Len(off) >= 2 /\ off[1] = 0
      /\ \A j, k \in 1 .. Len(off) : j < k => off[k] - off[j] >= Header
  BY StreamsAssumption
<1>2. Len(off) \in Nat /\ Total \in Nat \ {0} /\ Total + 1 = Len(off)
  BY <1>1 DEF Total
<1>3. \A k \in 1 .. Total + 1 : off[k] \in Nat
  BY <1>1, <1>2
<1> QED
  BY <1>1, <1>2, <1>3, HeaderAssumption, GarbageAssumption DEF End

\* Every message has at least a size field.
LEMMA Size == ASSUME off \in Streams, NEW k \in 1 .. Total
              PROVE  /\ off[k] \in Nat
                     /\ off[k + 1] \in Nat
                     /\ off[k + 1] - off[k] \in Nat
                     /\ off[k + 1] - off[k] >= Header
<1>1. k \in 1 .. Total + 1 /\ k + 1 \in 1 .. Total + 1 /\ k < k + 1
  BY Stream
<1>2. off[k] \in Nat /\ off[k + 1] \in Nat
  BY <1>1, Stream
<1>3. off[k + 1] - off[k] >= Header
  BY <1>1, Stream
<1> QED
  BY <1>2, <1>3, HeaderAssumption

\* The size field of message k holds the length of message k.
LEMMA WordAt == ASSUME off \in Streams, NEW k \in 1 .. Total
                PROVE  Word(off[k]) = off[k + 1] - off[k]
<1>1. \A j \in 1 .. Total : off[j] = off[k] => j = k
  <2> SUFFICES ASSUME NEW j \in 1 .. Total, off[j] = off[k], j # k PROVE FALSE
    OBVIOUS
  <2>1. j \in 1 .. Total + 1 /\ k \in 1 .. Total + 1 /\ (j < k \/ k < j)
    BY Stream
  <2>2. off[j] \in Nat /\ off[k] \in Nat
    BY <2>1, Stream
  <2>3. off[k] - off[j] >= Header \/ off[j] - off[k] >= Header
    BY <2>1, Stream
  <2> QED
    BY <2>2, <2>3, HeaderAssumption
<1>2. \E j \in 1 .. Total : off[j] = off[k]
  OBVIOUS
<1>3. (CHOOSE j \in 1 .. Total : off[j] = off[k]) = k
  BY <1>1, <1>2
<1> QED
  BY <1>2, <1>3 DEF Word

LEMMA WordNat == ASSUME off \in Streams, NEW p \in Int
                 PROVE  Word(p) \in Nat
<1>1. CASE \E k \in 1 .. Total : off[k] = p
  <2>1. PICK k \in 1 .. Total : off[k] = p
    BY <1>1
  <2>2. off[k + 1] - off[k] \in Nat
    BY Size
  <2> QED
    BY <2>1, <2>2, WordAt
<1>2. CASE ~ \E k \in 1 .. Total : off[k] = p
  BY <1>2, Stream DEF Word
<1> QED
  BY <1>1, <1>2

\* One more message given to the callback.
LEMMA OnePiece == ASSUME off \in Streams, NEW k \in 1 .. Total
                  PROVE  Append(Pieces(k - 1), <<off[k], off[k + 1]>>) = Pieces(k)
<1>1. k \in Nat /\ Total \in Nat
  BY Stream
<1>2. \A j \in 1 .. k : off[j] \in Nat /\ off[j + 1] \in Nat
  BY Stream
<1> DEFINE p == Pieces(k - 1)
           q == Append(p, <<off[k], off[k + 1]>>)
<1>3. p \in Seq(Nat \X Nat) /\ Len(p) = k - 1
  <2>1. p \in [1 .. k - 1 -> Nat \X Nat]
    BY <1>1, <1>2 DEF Pieces
  <2>2. DOMAIN p = 1 .. k - 1
    BY DEF Pieces
  <2> QED
    BY <1>1, <2>1, <2>2
<1>4. \A j \in 1 .. k - 1 : p[j] = <<off[j], off[j + 1]>>
  BY DEF Pieces
<1> HIDE DEF p
<1>5. /\ q \in Seq(Nat \X Nat)
      /\ DOMAIN q = 1 .. k
      /\ \A j \in 1 .. k - 1 : q[j] = p[j]
      /\ q[k] = <<off[k], off[k + 1]>>
  BY <1>1, <1>2, <1>3
<1>6. \A j \in 1 .. k : q[j] = <<off[j], off[j + 1]>>
  BY <1>1, <1>4, <1>5
<1> HIDE DEF q
<1>7. q = [j \in 1 .. k |-> q[j]]
  BY <1>5
<1>8. q = [j \in 1 .. k |-> <<off[j], off[j + 1]>>]
  BY <1>6, <1>7
<1> QED
  BY <1>8 DEF Pieces, p, q

THEOREM InitInvariant == Init => IInv
<1> SUFFICES ASSUME Init PROVE IInv
  OBVIOUS
<1>1. TypeOK
  <2>1. /\ off \in Streams /\ fed = 0 /\ derailed = FALSE /\ cur = None /\ curSize = 0
        /\ buf = 0 /\ size = 0 /\ looping = FALSE /\ messages = <<>>
    BY DEF Init
  <2>2. 0 \in 0 .. End
    BY <2>1, Stream
  <2>3. messages \in Seq(Nat \X Nat)
    BY <2>1
  <2> QED
    BY <2>1, <2>2, <2>3 DEF TypeOK
<1>2. OutsideHeaders
  BY Stream DEF Init, OutsideHeaders
<1>3. AllUsed
  <2>1. messages = Pieces(0)
    BY DEF Init, Pieces
  <2> QED
    BY <2>1, Stream DEF Init, AllUsed
<1> QED
  BY <1>1, <1>2, <1>3 DEF IInv, Position, Init

\* The bytes of a chunk.
LEMMA ChunkStep == ASSUME TypeOK, NEW n \in 1 .. End, Chunk(n)
                   PROVE  /\ off' = off /\ messages' = messages /\ End' = End /\ Total' = Total
                          /\ off \in Streams /\ End \in Nat /\ fed \in Nat
                          /\ ~looping
                          /\ fed' = fed + n /\ fed' \in 0 .. End
                          /\ derailed' \in BOOLEAN
                          /\ ~derailed' => ~derailed /\ OutsideHeaders'
                          /\ \A m : Pieces(m)' = Pieces(m)
<1>1. /\ off' = off /\ messages' = messages /\ fed' = fed + n /\ ~looping
      /\ fed + n <= End
      /\ derailed' = (derailed \/ \E k \in 1 .. Total : off[k] < fed + n /\ fed + n < off[k] + Header)
  BY DEF Chunk
<1>2. End' = End /\ Total' = Total /\ \A m : Pieces(m)' = Pieces(m)
  BY <1>1 DEF End, Total, Pieces
<1>3. off \in Streams /\ End \in Nat /\ fed \in Nat
  <2>1. off \in Streams /\ fed \in 0 .. End
    BY DEF TypeOK
  <2> QED
    BY <2>1, Stream
<1>4. derailed' \in BOOLEAN
  BY <1>1 DEF TypeOK
<1>5. ~derailed' => ~derailed /\ OutsideHeaders'
  BY <1>1, <1>2 DEF OutsideHeaders
<1> QED
  BY <1>1, <1>2, <1>3, <1>4, <1>5

LEMMA ShortKeeps == ASSUME IInv, NEW n \in 1 .. End, FeedShort(n)
                    PROVE  IInv'
<1>1. /\ TypeOK /\ Chunk(n) /\ cur = None /\ n < Header
      /\ UNCHANGED <<cur, curSize, buf, size, looping>>
  BY DEF IInv, FeedShort
<1>2. TypeOK'
  BY <1>1, ChunkStep DEF TypeOK
<1>3. derailed'
  <2> SUFFICES ASSUME ~derailed' PROVE FALSE
    BY <1>1, ChunkStep
  <2>1. AllUsed
    <3>1. ~derailed /\ ~looping
      BY <1>1, ChunkStep
    <3>2. AllUsed \/ InMessage
      BY <3>1 DEF IInv, Position
    <3>3. ~InMessage
      BY <1>1, ChunkStep, Size DEF InMessage, None
    <3> QED
      BY <3>2, <3>3
  <2>2. PICK k \in 1 .. Total + 1 : fed = off[k]
    BY <2>1 DEF AllUsed
  <2>3. k \in 1 .. Total
    BY <1>1, <2>2, ChunkStep, Stream
  <2>4. off[k] < fed' /\ fed' < off[k] + Header
    <3>1. off[k] \in Nat /\ Header \in Nat /\ n \in Nat \ {0}
      BY <1>1, <2>3, ChunkStep, Size, HeaderAssumption
    <3>2. fed' = off[k] + n
      BY <1>1, <2>2, ChunkStep
    <3> QED
      BY <1>1, <3>1, <3>2
  <2> QED
    BY <1>1, <2>3, <2>4, ChunkStep DEF OutsideHeaders
<1> QED
  BY <1>2, <1>3 DEF IInv

LEMMA FirstKeeps == ASSUME IInv, NEW n \in 1 .. End, FeedFirst(n)
                    PROVE  IInv'
<1>1. /\ TypeOK /\ Chunk(n) /\ cur = None /\ n >= Header
      /\ cur' = fed /\ curSize' = Word(fed) /\ buf' = fed /\ size' = Word(fed)
      /\ looping' = TRUE
  BY DEF IInv, FeedFirst
<1>2. Word(fed) \in Nat /\ fed \in 0 .. End
  BY <1>1, ChunkStep, WordNat DEF TypeOK
<1>3. TypeOK'
  BY <1>1, <1>2, ChunkStep DEF TypeOK
<1>4. ASSUME ~derailed' PROVE AtMessage'
  <2>1. AllUsed
    <3>1. ~derailed /\ ~looping
      BY <1>1, <1>4, ChunkStep
    <3>2. AllUsed \/ InMessage
      BY <3>1 DEF IInv, Position
    <3>3. ~InMessage
      BY <1>1, ChunkStep, Size DEF InMessage, None
    <3> QED
      BY <3>2, <3>3
  <2>2. PICK k \in 1 .. Total + 1 : fed = off[k] /\ messages = Pieces(k - 1)
    BY <2>1 DEF AllUsed
  <2>3. k \in 1 .. Total
    BY <1>1, <2>2, ChunkStep, Stream
  <2>4. Word(fed) = off[k + 1] - off[k]
    BY <1>1, <2>2, <2>3, ChunkStep, WordAt
  <2>5. fed' - buf' >= Header
    BY <1>1, ChunkStep
  <2>6. buf' = off'[k] /\ size' = off'[k + 1] - off'[k] /\ messages' = Pieces(k - 1)' /\ k \in 1 .. Total'
    BY <1>1, <2>2, <2>3, <2>4, ChunkStep
  <2> QED
    BY <2>5, <2>6 DEF AtMessage
<1> QED
  BY <1>1, <1>3, <1>4, ChunkStep DEF IInv, Position

LEMMA MoreKeeps == ASSUME IInv, NEW n \in 1 .. End, FeedMore(n)
                   PROVE  IInv'
<1>1. /\ TypeOK /\ Chunk(n) /\ cur # None /\ cur' = cur
      /\ curSize' = IF curSize = 0 /\ ~(curSize = 0 /\ fed + n - cur < Header) THEN Word(cur) ELSE curSize
      /\ buf' = IF curSize = 0 /\ fed + n - cur < Header THEN buf ELSE cur
      /\ size' = IF curSize = 0 /\ fed + n - cur < Header THEN size ELSE curSize'
      /\ looping' = ~(curSize = 0 /\ fed + n - cur < Header)
  BY DEF IInv, FeedMore
<1>2. /\ off \in Streams /\ cur \in 0 .. End /\ curSize \in Nat
      /\ buf \in 0 .. End /\ size \in Nat
  BY <1>1 DEF TypeOK
<1>3. Word(cur) \in Nat
  BY <1>2, WordNat
<1>4. curSize' \in Nat
  BY <1>1, <1>2, <1>3
<1>5. size' \in Nat /\ buf' \in 0 .. End /\ looping' \in BOOLEAN /\ cur' \in 0 .. End
  BY <1>1, <1>2, <1>4
<1>6. TypeOK'
  BY <1>1, <1>4, <1>5, ChunkStep DEF TypeOK
<1>7. ASSUME ~derailed' PROVE AtMessage' /\ looping'
  <2>1. InMessage
    <3>1. ~derailed /\ ~looping
      BY <1>1, <1>7, ChunkStep
    <3>2. AllUsed \/ InMessage
      BY <3>1 DEF IInv, Position
    <3> QED
      BY <1>1, <3>2 DEF AllUsed
  <2>2. PICK k \in 1 .. Total : /\ cur = off[k] /\ curSize = off[k + 1] - off[k]
                               /\ fed - cur >= Header /\ messages = Pieces(k - 1)
    BY <2>1 DEF InMessage
  <2>3. curSize # 0
    BY <1>2, <2>2, Size, HeaderAssumption
  <2>4. buf' = cur /\ size' = curSize /\ looping'
    BY <1>1, <2>3
  <2>5. fed' - buf' >= Header
    <3>1. fed' = fed + n /\ n \in Nat /\ fed \in Nat /\ cur \in Nat
      BY <1>1, <1>2, ChunkStep
    <3> QED
      BY <2>2, <2>4, <3>1, HeaderAssumption
  <2>6. /\ buf' = off'[k] /\ size' = off'[k + 1] - off'[k]
        /\ messages' = Pieces(k - 1)' /\ k \in 1 .. Total'
    BY <1>1, <2>2, <2>4, ChunkStep
  <2> QED
    BY <2>4, <2>5, <2>6 DEF AtMessage
<1> QED
  BY <1>1, <1>6, <1>7, ChunkStep DEF IInv, Position

\* The part of an iteration that no variable of the stream takes part in.
LEMMA LoopStep == ASSUME TypeOK, UNCHANGED <<off, fed, derailed>>
                  PROVE  /\ off' = off /\ fed' = fed /\ derailed' = derailed
                         /\ End' = End /\ Total' = Total
                         /\ off \in Streams /\ End \in Nat /\ fed \in 0 .. End
                         /\ OutsideHeaders => OutsideHeaders'
                         /\ \A m : Pieces(m)' = Pieces(m)
<1>1. off' = off /\ fed' = fed /\ derailed' = derailed
  OBVIOUS
<1>2. off \in Streams /\ End \in Nat /\ fed \in 0 .. End
  <2>1. off \in Streams /\ fed \in 0 .. End
    BY DEF TypeOK
  <2> QED
    BY <2>1, Stream
<1> QED
  BY <1>1, <1>2 DEF End, Total, OutsideHeaders, Pieces

LEMMA IncompleteKeeps == ASSUME IInv, Incomplete
                         PROVE  IInv'
<1>1. /\ TypeOK /\ looping /\ size > fed - buf /\ cur' = buf /\ curSize' = size
      /\ looping' = FALSE
      /\ off' = off /\ fed' = fed /\ derailed' = derailed
      /\ buf' = buf /\ size' = size /\ messages' = messages
  BY DEF IInv, Incomplete
<1>2. TypeOK'
  BY <1>1, LoopStep DEF TypeOK
<1>3. ASSUME ~derailed' PROVE InMessage' /\ OutsideHeaders'
  <2>1. AtMessage /\ OutsideHeaders
    BY <1>1, <1>3 DEF IInv, Position
  <2>2. PICK k \in 1 .. Total : /\ buf = off[k] /\ size = off[k + 1] - off[k]
                               /\ fed - buf >= Header /\ messages = Pieces(k - 1)
    BY <2>1 DEF AtMessage
  <2>3. fed < off[k + 1]
    BY <1>1, <2>2, LoopStep, Size
  <2> QED
    BY <1>1, <2>1, <2>2, <2>3, LoopStep DEF InMessage
<1> QED
  BY <1>1, <1>2, <1>3 DEF IInv, Position

LEMMA LastKeeps == ASSUME IInv, LastMessage
                   PROVE  IInv'
<1>1. /\ TypeOK /\ looping /\ size = fed - buf /\ cur' = None /\ curSize' = 0
      /\ messages' = Append(messages, <<buf, fed>>)
      /\ looping' = FALSE
      /\ off' = off /\ fed' = fed /\ derailed' = derailed
      /\ buf' = buf /\ size' = size
  BY DEF IInv, LastMessage
<1>2. messages' \in Seq(Nat \X Nat)
  <2>1. messages \in Seq(Nat \X Nat) /\ <<buf, fed>> \in Nat \X Nat
    BY <1>1, LoopStep DEF TypeOK
  <2> QED
    BY <1>1, <2>1
<1>3. TypeOK'
  BY <1>1, <1>2, LoopStep DEF TypeOK
<1>4. ASSUME ~derailed' PROVE AllUsed' /\ OutsideHeaders'
  <2>1. AtMessage /\ OutsideHeaders
    BY <1>1, <1>4 DEF IInv, Position
  <2>2. PICK k \in 1 .. Total : /\ buf = off[k] /\ size = off[k + 1] - off[k]
                               /\ messages = Pieces(k - 1)
    BY <2>1 DEF AtMessage
  <2>3. fed = off[k + 1]
    BY <1>1, <2>2, LoopStep, Size
  <2>4. messages' = Pieces(k)
    BY <1>1, <2>2, <2>3, LoopStep, OnePiece
  <2>5. k + 1 \in 1 .. Total + 1 /\ (k + 1) - 1 = k
    BY <1>1, LoopStep, Stream
  <2>6. fed' = off'[k + 1] /\ messages' = Pieces((k + 1) - 1)' /\ k + 1 \in 1 .. Total' + 1
    BY <1>1, <2>3, <2>4, <2>5, LoopStep
  <2>7. AllUsed'
    BY <1>1, <2>6 DEF AllUsed, None
  <2> QED
    BY <1>1, <2>1, <2>7, LoopStep
<1> QED
  BY <1>1, <1>3, <1>4 DEF IInv, Position

LEMMA MoreFollowsKeeps == ASSUME IInv, MoreFollows
                          PROVE  IInv'
<1> DEFINE rest == buf + size
           short == fed - rest < Header
<1>1. /\ TypeOK /\ looping /\ size < fed - buf
      /\ messages' = Append(messages, <<buf, rest>>)
      /\ buf' = rest
      /\ cur' = IF short THEN rest ELSE cur
      /\ size' = IF short THEN size ELSE Word(rest)
      /\ looping' = ~short
      /\ off' = off /\ fed' = fed /\ derailed' = derailed /\ curSize' = curSize
  BY DEF IInv, MoreFollows
<1>2. /\ buf \in Nat /\ size \in Nat /\ cur \in 0 .. End \cup {None}
      /\ curSize \in Nat /\ derailed \in BOOLEAN /\ messages \in Seq(Nat \X Nat)
  BY <1>1, LoopStep DEF TypeOK
<1>3. rest \in 0 .. End /\ rest \in Nat /\ rest < fed
  BY <1>1, <1>2, LoopStep
<1> HIDE DEF rest
<1>4. Word(rest) \in Nat
  BY <1>1, <1>3, LoopStep, WordNat
<1>5. messages' \in Seq(Nat \X Nat)
  BY <1>1, <1>2, <1>3
<1>6. size' \in Nat /\ buf' \in 0 .. End /\ looping' \in BOOLEAN /\ cur' \in 0 .. End \cup {None}
  BY <1>1, <1>2, <1>3, <1>4
<1>7. TypeOK'
  BY <1>1, <1>2, <1>5, <1>6, LoopStep DEF TypeOK
<1>8. ASSUME ~derailed' PROVE looping' /\ AtMessage' /\ OutsideHeaders'
  <2>1. AtMessage /\ OutsideHeaders
    BY <1>1, <1>8 DEF IInv, Position
  <2>2. PICK k \in 1 .. Total : /\ buf = off[k] /\ size = off[k + 1] - off[k]
                               /\ messages = Pieces(k - 1)
    BY <2>1 DEF AtMessage
  <2>3. rest = off[k + 1]
    <3>1. off[k] \in Nat /\ off[k + 1] \in Nat
      BY <1>1, LoopStep, Size
    <3>2. rest = off[k] + (off[k + 1] - off[k])
      BY <2>2 DEF rest
    <3> QED
      BY <3>1, <3>2
  <2>4. k + 1 \in 1 .. Total /\ (k + 1) - 1 = k
    <3>1. off \in Streams /\ fed <= off[Total + 1] /\ Total \in Nat /\ k \in Nat
      BY <1>1, LoopStep, Stream
    <3>2. fed \in Nat /\ off[Total + 1] \in Nat
      BY <1>1, LoopStep, Stream
    <3>3. k # Total
      BY <1>3, <2>3, <3>1, <3>2
    <3> QED
      BY <3>1, <3>3
  <2>5. ~short
    <3>1. ~(off[k + 1] < fed /\ fed < off[k + 1] + Header)
      BY <2>1, <2>4 DEF OutsideHeaders
    <3>2. fed \in Nat /\ Header \in Nat
      BY <1>1, LoopStep, HeaderAssumption
    <3> QED
      BY <1>3, <2>3, <3>1, <3>2
  <2>6. size' = off[(k + 1) + 1] - off[k + 1]
    BY <1>1, <2>3, <2>4, <2>5, LoopStep, WordAt
  <2>7. fed' - buf' >= Header
    <3>1. fed \in Nat /\ Header \in Nat
      BY <1>1, LoopStep, HeaderAssumption
    <3> QED
      BY <1>1, <1>3, <2>5, <3>1
  <2>8. messages' = Pieces(k)
    BY <1>1, <2>2, <2>3, LoopStep, OnePiece
  <2>9. /\ buf' = off'[k + 1] /\ size' = off'[(k + 1) + 1] - off'[k + 1]
        /\ messages' = Pieces((k + 1) - 1)' /\ k + 1 \in 1 .. Total'
    BY <1>1, <2>3, <2>4, <2>6, <2>8, LoopStep
  <2>10. AtMessage'
    BY <2>7, <2>9 DEF AtMessage
  <2> QED
    BY <1>1, <2>1, <2>5, <2>10, LoopStep
<1> QED
  BY <1>1, <1>7, <1>8 DEF IInv, Position

\* After a throw only the types are left.
LEMMA ThrowKeeps == ASSUME IInv, CallbackThrows
                    PROVE  IInv'
<1>1. /\ TypeOK /\ looping /\ size < fed - buf
      /\ messages' = Append(messages, <<buf, buf + size>>)
      /\ looping' = FALSE /\ derailed' = TRUE
      /\ off' = off /\ fed' = fed /\ cur' = cur /\ curSize' = curSize
      /\ buf' = buf /\ size' = size
  BY DEF IInv, CallbackThrows
<1>2. messages \in Seq(Nat \X Nat) /\ buf \in Nat /\ size \in Nat
  <2>1. buf \in 0 .. End /\ off \in Streams /\ size \in Nat /\ messages \in Seq(Nat \X Nat)
    BY <1>1 DEF TypeOK
  <2> QED
    BY <2>1, Stream
<1>3. messages' \in Seq(Nat \X Nat)
  BY <1>1, <1>2
<1>4. End' = End
  BY <1>1 DEF End
<1>5. TypeOK'
  BY <1>1, <1>3, <1>4 DEF TypeOK
<1> QED
  BY <1>1, <1>5 DEF IInv

THEOREM StepInvariant == IInv /\ [Next]_vars => IInv'
<1> SUFFICES ASSUME IInv, [Next]_vars PROVE IInv'
  OBVIOUS
<1>1. CASE \E n \in 1 .. End : Feed(n)
  <2>1. PICK n \in 1 .. End : FeedShort(n) \/ FeedFirst(n) \/ FeedMore(n)
    BY <1>1 DEF Feed
  <2> QED
    BY <2>1, ShortKeeps, FirstKeeps, MoreKeeps
<1>2. CASE Incomplete
  BY <1>2, IncompleteKeeps
<1>3. CASE LastMessage
  BY <1>3, LastKeeps
<1>4. CASE MoreFollows
  BY <1>4, MoreFollowsKeeps
<1>5. CASE CallbackThrows
  BY <1>5, ThrowKeeps
<1>6. CASE UNCHANGED vars
  BY <1>6 DEF vars, IInv, TypeOK, Position, OutsideHeaders, AtMessage, AllUsed,
              InMessage, Pieces, End, Total
<1> QED
  BY <1>1, <1>2, <1>3, <1>4, <1>5, <1>6 DEF Next

THEOREM Invariance == Spec => []IInv
<1> QED
  BY InitInvariant, StepInvariant, PTL DEF Spec

\* The variables of the reader keep their types: no offset leaves the stream.
THEOREM ReaderTypes == Spec => []TypeOK
<1>1. IInv => TypeOK
  BY DEF IInv
<1> QED
  BY <1>1, Invariance, PTL

\* If the first m messages are those that have arrived whole, giving these
\* to the callback is what Framed asks for.
LEMMA WholeIs == ASSUME off \in Streams, fed \in Nat, NEW k \in 1 .. Total + 1,
                        off[k] <= fed, k <= Total => fed < off[k + 1]
                 PROVE  Whole(fed) = 1 .. k - 1
<1>1. Total \in Nat /\ k \in Nat /\ off[k] \in Nat
  BY Stream
<1>2. ASSUME NEW j \in 1 .. Total PROVE off[j + 1] <= fed <=> j <= k - 1
  <2>1. j \in Nat /\ j + 1 \in 1 .. Total + 1 /\ off[j + 1] \in Nat
    BY <1>1, Stream
  <2>2. CASE j <= k - 1
    <3>1. j + 1 = k \/ j + 1 < k
      BY <1>1, <2>1, <2>2
    <3>2. off[j + 1] <= off[k]
      BY <1>1, <2>1, <3>1, Stream
    <3> QED
      BY <1>1, <2>1, <2>2, <3>2
  <2>3. CASE ~(j <= k - 1)
    <3>1. k <= Total /\ k + 1 \in 1 .. Total + 1 /\ (k + 1 = j + 1 \/ k + 1 < j + 1)
      BY <1>1, <2>1, <2>3
    <3>2. off[k + 1] \in Nat
      BY <3>1, Stream
    <3>3. off[k + 1] <= off[j + 1]
      <4>1. CASE k + 1 = j + 1
        BY <3>2, <4>1
      <4>2. CASE k + 1 < j + 1
        <5>1. off[j + 1] - off[k + 1] >= Header
          BY <2>1, <3>1, <4>2, Stream
        <5> QED
          BY <2>1, <3>2, <5>1, HeaderAssumption
      <4> QED
        BY <3>1, <4>1, <4>2
    <3> QED
      BY <1>1, <2>1, <2>3, <3>1, <3>2, <3>3
  <2> QED
    BY <2>2, <2>3
<1>3. \A j \in 1 .. k - 1 : j \in 1 .. Total
  BY <1>1
<1> QED
  BY <1>1, <1>2, <1>3 DEF Whole

\* Between two chunks the callback has been given exactly the messages that
\* have arrived whole, unless a chunk ended inside a size field or a
\* callback threw with more messages to follow.
THEOREM FramedAlways == Spec => []Framed
<1>1. IInv => Framed
  <2> SUFFICES ASSUME IInv, ~looping, ~derailed PROVE AllWhole
    BY DEF Framed
  <2>1. off \in Streams /\ fed \in Nat /\ fed <= End /\ End = off[Total + 1]
    <3>1. off \in Streams /\ fed \in 0 .. End
      BY DEF IInv, TypeOK
    <3> QED
      BY <3>1, Stream
  <2>2. AllUsed \/ InMessage
    BY DEF IInv, Position
  <2>3. CASE AllUsed
    <3>1. PICK k \in 1 .. Total + 1 : fed = off[k] /\ messages = Pieces(k - 1)
      BY <2>3 DEF AllUsed
    <3>2. k <= Total => fed < off[k + 1]
      <4>1. k \in Nat /\ Total \in Nat
        BY <2>1, Stream
      <4> SUFFICES ASSUME k <= Total PROVE fed < off[k + 1]
        OBVIOUS
      <4>2. k \in 1 .. Total
        BY <4>1
      <4>3. off[k] \in Nat /\ off[k + 1] \in Nat /\ off[k + 1] - off[k] >= Header
        BY <2>1, <4>2, Size
      <4> QED
        BY <3>1, <4>3, HeaderAssumption
    <3>3. Whole(fed) = 1 .. k - 1
      BY <2>1, <3>1, <3>2, WholeIs
    <3> QED
      BY <3>1, <3>3 DEF AllWhole, Pieces
  <2>4. CASE InMessage
    <3>1. PICK k \in 1 .. Total : /\ fed - off[k] >= Header
                                 /\ fed < off[k + 1]
                                 /\ messages = Pieces(k - 1)
      BY <2>4 DEF InMessage
    <3>2. k \in 1 .. Total + 1 /\ off[k] <= fed
      BY <2>1, <3>1, Stream
    <3>3. Whole(fed) = 1 .. k - 1
      BY <2>1, <3>1, <3>2, WholeIs
    <3> QED
      BY <3>1, <3>3 DEF AllWhole, Pieces
  <2> QED
    BY <2>2, <2>3, <2>4
<1> QED
  BY <1>1, Invariance, PTL
-----------------------------------------------------------------------------
(* RpcMessageWriter and RpcMessageReader                                   *)

\* The offset of slice j + 1 of a long message.
At(j) == j * ChunkSize

Long(s) == Bytes[s] >= ChunkSize
To(s) == Other(From[s])
Started(s) == Long(s) /\ state[s] # "idle"
Live(s) == Started(s) /\ conn[s] = epoch
IsSlice(m, s) == m.type = "chunk" /\ m.slice[1] = s
IsPlain(m, s) == m.type = "plain" /\ m.send = s

\* What a reader has put together of s, g slices, ...
Assembled(s, g, c) == /\ c.loaded = At(g)
                      /\ Len(c.buffers) = g
                      /\ \A j \in 1 .. g : c.buffers[j] = <<s, At(j - 1)>>
                      /\ At(g) < Bytes[s]

\* ... and what is on its way of it in q: the others up to offset o, in order.
Flow(q, s, g, o) ==
    /\ \A k \in DOMAIN q : IsSlice(q[k], s) => \E j \in Nat : j >= g /\ At(j) < o /\ q[k].slice = <<s, At(j)>>
    /\ \A j \in Nat : j >= g /\ At(j) < o => \E k \in DOMAIN q : IsSlice(q[k], s) /\ q[k].slice[2] = At(j)
    /\ \A k, l \in DOMAIN q : IsSlice(q[k], s) /\ IsSlice(q[l], s) /\ k < l => q[k].slice[2] < q[l].slice[2]

Absent(q, s) == \A k \in DOMAIN q : ~IsSlice(q[k], s) /\ ~IsPlain(q[k], s)

LEMMA TwoSides ==
  ASSUME NEW side \in Sides
  PROVE  Other(side) \in Sides /\ Other(Other(side)) = side /\ Other(side) # side
BY DEF Sides, Other

\* The constants.
LEMMA Settings ==
  ASSUME NEW s \in Sends
  PROVE  /\ ChunkSize \in Nat \ {0} /\ Bytes[s] \in Nat \ {0} /\ Id[s] \in Nat /\ Id[s] \in Ids
         /\ From[s] \in Sides /\ To(s) \in Sides /\ Other(To(s)) = From[s] /\ To(s) # From[s]
<1>1. From[s] \in Sides /\ ChunkSize \in Nat \ {0} /\ Bytes[s] \in Nat \ {0} /\ Id[s] \in Nat
  BY ChunkAssumption DEF Sides
<1> QED
  BY <1>1, TwoSides DEF To, Ids

LEMMA Multiples ==
  ASSUME NEW j \in Nat
  PROVE  /\ At(j) \in Nat /\ At(0) = 0 /\ j <= At(j) /\ At(j + 1) = At(j) + ChunkSize
         /\ \A k \in Nat : j < k => At(j) + ChunkSize <= At(k)
         /\ \A k \in Nat : At(j) < At(k) => j < k
         /\ \A k \in Nat : At(j) = At(k) => j = k
<1>1. ChunkSize \in Nat \ {0}
  BY ChunkAssumption
<1>2. At(j) \in Nat /\ j <= At(j) /\ At(j + 1) = At(j) + ChunkSize /\ At(0) = 0
  BY <1>1 DEF At
<1>3. ASSUME NEW a \in Nat, NEW b \in Nat, a < b
      PROVE  a * ChunkSize + ChunkSize <= b * ChunkSize
  BY <1>1, <1>3
<1>4. \A k \in Nat : k * ChunkSize \in Nat
  BY <1>1
<1>5. \A k \in Nat : j < k => At(j) + ChunkSize <= At(k)
  BY <1>3 DEF At
<1>6. \A k \in Nat : k < j => At(k) + ChunkSize <= At(j)
  BY <1>3 DEF At
<1>7. \A k \in Nat : At(k) \in Nat
  BY <1>4 DEF At
<1> QED
  BY <1>1, <1>2, <1>5, <1>6, <1>7

LEMMA Division ==
  ASSUME NEW a \in Nat, NEW b \in Nat \ {0}, NEW n \in Nat, b * n <= a, a < b * n + b
  PROVE  a \div b = n
OBVIOUS

LEMMA Product ==
  ASSUME NEW n \in Nat
  PROVE  ChunkSize * n = At(n)
<1>1. ChunkSize \in Nat
  BY ChunkAssumption
<1> QED
  BY <1>1 DEF At

\* A slice is not empty and not longer than a chunk; it ends where the next one starts or with
\* the message.
LEMMA SliceIs ==
  ASSUME NEW s \in Sends, NEW j \in Nat, At(j) < Bytes[s]
  PROVE  LET n == At(j) + SliceLen(<<s, At(j)>>)
         IN  /\ SliceLen(<<s, At(j)>>) \in Nat \ {0}
             /\ n \in Nat /\ At(j) < n /\ n <= Bytes[s] /\ n <= At(j + 1)
             /\ n = Bytes[s] \/ n = At(j + 1)
             /\ n # Bytes[s] => n = At(j + 1) /\ At(j + 1) < Bytes[s]
<1>1. At(j) \in Nat /\ At(j + 1) = At(j) + ChunkSize /\ ChunkSize \in Nat \ {0} /\ Bytes[s] \in Nat \ {0}
  BY Settings, Multiples
<1>2. SliceLen(<<s, At(j)>>) = IF ChunkSize < Bytes[s] - At(j) THEN ChunkSize ELSE Bytes[s] - At(j)
  BY DEF SliceLen, Least
<1> HIDE DEF At
<1> QED
  BY <1>1, <1>2

\* How many slices there are.
LEMMA SlicesAre ==
  ASSUME NEW s \in Sends, Long(s), NEW g \in Nat, At(g) < Bytes[s], Bytes[s] <= At(g + 1)
  PROVE  Slices(s) = [k \in 1 .. g + 1 |-> <<s, At(k - 1)>>]
<1>1. /\ At(g) \in Nat /\ At(g + 1) = At(g) + ChunkSize /\ At((g + 1) + 1) = At(g + 1) + ChunkSize
      /\ ChunkSize \in Nat \ {0} /\ Bytes[s] \in Nat \ {0} /\ g + 1 \in Nat
  <2>1. g + 1 \in Nat
    OBVIOUS
  <2> QED
    BY <2>1, Settings, Multiples
<1>2. ChunkSize * (g + 1) = At(g + 1)
  BY <1>1, Product
<1>3. PICK n : n = g + 1
  OBVIOUS
<1>4. PICK a : a = Bytes[s] + ChunkSize - 1
  OBVIOUS
<1>5. /\ a \in Nat /\ n \in Nat
      /\ ChunkSize * n <= a /\ a < ChunkSize * n + ChunkSize
  <2> HIDE DEF At
  <2> QED
    BY <1>1, <1>2, <1>3, <1>4
<1>6. a \div ChunkSize = n
  BY <1>1, <1>5, Division
<1>7. ~(Bytes[s] < ChunkSize)
  BY <1>1 DEF Long
<1> QED
  BY <1>3, <1>4, <1>6, <1>7 DEF Slices, At

\* The last slice starts at some multiple.
LEMMA LastSlice ==
  ASSUME NEW s \in Sends, Long(s)
  PROVE  \E g \in Nat : At(g) < Bytes[s] /\ Bytes[s] <= At(g + 1)
<1>1. ChunkSize \in Nat \ {0} /\ Bytes[s] \in Nat \ {0}
  BY Settings
<1>2. PICK a : a = Bytes[s] - 1
  OBVIOUS
<1>3. PICK g : g = a \div ChunkSize
  OBVIOUS
<1>4. a \in Nat
  BY <1>1, <1>2
<1>5. g \in Nat /\ ChunkSize * g <= a /\ a < ChunkSize * g + ChunkSize
  BY <1>1, <1>3, <1>4
<1>6. ChunkSize * g = At(g) /\ At(g) \in Nat /\ At(g + 1) = At(g) + ChunkSize
  BY <1>5, Product, Multiples
<1>7. At(g) < Bytes[s] /\ Bytes[s] <= At(g + 1)
  <2> HIDE DEF At
  <2> QED
    BY <1>1, <1>2, <1>5, <1>6
<1> QED
  BY <1>5, <1>7

\* A message is told by its slices.
LEMMA SlicesTell ==
  ASSUME NEW s \in Sends
  PROVE  Slices(s) \in Seq(Sends \X Nat) /\ Slices(s)[1] = <<s, 0>>
<1>1. CASE ~Long(s)
  <2>1. Slices(s) = <<<<s, 0>>>>
    BY <1>1, Settings DEF Slices, Long
  <2> QED
    BY <2>1
<1>2. CASE Long(s)
  <2>1. PICK g \in Nat : At(g) < Bytes[s] /\ Bytes[s] <= At(g + 1)
    BY <1>2, LastSlice
  <2>2. Slices(s) = [k \in 1 .. g + 1 |-> <<s, At(k - 1)>>]
    BY <1>2, <2>1, SlicesAre
  <2>3. \A k \in 1 .. g + 1 : At(k - 1) \in Nat
    BY Multiples
  <2>4. At(1 - 1) = 0
    BY Multiples
  <2>5. [k \in 1 .. g + 1 |-> <<s, At(k - 1)>>] \in [1 .. g + 1 -> Sends \X Nat]
    BY <2>3
  <2>6. Slices(s) \in Seq(Sends \X Nat)
    BY <2>2, <2>5, MappedAt, g + 1 \in Nat
  <2>7. Slices(s)[1] = <<s, At(1 - 1)>>
    BY <2>2
  <2> QED
    BY <2>4, <2>6, <2>7
<1> QED
  BY <1>1, <1>2

\* The messages on the wire.
LEMMA Kinds ==
  ASSUME NEW s \in Sends, NEW c \in ChunkIds, NEW o \in Nat
  PROVE  /\ Plain(s) \in Message /\ Plain(s).type = "plain" /\ Plain(s).send = s
         /\ ChunkOf(s, c, o) \in Message /\ ChunkOf(s, c, o).type = "chunk" /\ ChunkOf(s, c, o).id = Id[s]
         /\ ChunkOf(s, c, o).body = c /\ ChunkOf(s, c, o).slice = <<s, o>>
         /\ ChunkAck(Id[s]) \in Message /\ ChunkAck(Id[s]).type = "ack" /\ ChunkAck(Id[s]).id = Id[s]
         /\ IsPlain(Plain(s), s) /\ IsSlice(ChunkOf(s, c, o), s)
         /\ \A t : ~IsSlice(Plain(s), t) /\ (IsPlain(Plain(s), t) => t = s)
         /\ \A t : ~IsPlain(ChunkOf(s, c, o), t) /\ (IsSlice(ChunkOf(s, c, o), t) => t = s)
         /\ \A t : ~IsPlain(ChunkAck(Id[s]), t) /\ ~IsSlice(ChunkAck(Id[s]), t)
<1>1. Id[s] \in Nat /\ Id[s] \in Ids
  BY Settings
<1>2. Plain(s) \in Message /\ Plain(s).type = "plain" /\ Plain(s).send = s
  BY <1>1 DEF Plain, Message
<1>3. /\ ChunkOf(s, c, o) \in Message /\ ChunkOf(s, c, o).type = "chunk" /\ ChunkOf(s, c, o).id = Id[s]
      /\ ChunkOf(s, c, o).body = c /\ ChunkOf(s, c, o).slice = <<s, o>>
  BY <1>1 DEF ChunkOf, Message
<1>4. ChunkAck(Id[s]) \in Message /\ ChunkAck(Id[s]).type = "ack" /\ ChunkAck(Id[s]).id = Id[s]
  BY <1>1 DEF ChunkAck, Message
<1> QED
  BY <1>2, <1>3, <1>4 DEF IsPlain, IsSlice

-----------------------------------------------------------------------------
(* What is on its way of one message, when the wire changes.               *)

\* Something else is written.
LEMMA FlowAppendOther ==
  ASSUME NEW q \in Seq(Message), NEW m \in Message, NEW s \in Sends, NEW g, NEW o, ~IsSlice(m, s), Flow(q, s, g, o)
  PROVE  Flow(Append(q, m), s, g, o)
<1> DEFINE r == Append(q, m)
<1>1. /\ DOMAIN q = 1 .. Len(q) /\ DOMAIN r = 1 .. Len(q) + 1 /\ Len(q) \in Nat
      /\ \A k \in 1 .. Len(q) : r[k] = q[k]
      /\ r[Len(q) + 1] = m
  BY AppendProperties
<1> HIDE DEF r
<1>2. \A k \in DOMAIN r : IsSlice(r[k], s) => k \in DOMAIN q /\ r[k] = q[k]
  BY <1>1
<1>3. \A k \in DOMAIN q : k \in DOMAIN r /\ r[k] = q[k]
  BY <1>1
<1> QED
  BY <1>2, <1>3, Zenon DEF Flow, r

LEMMA AbsentAppend ==
  ASSUME NEW q \in Seq(Message), NEW m \in Message, NEW s \in Sends, ~IsSlice(m, s), ~IsPlain(m, s), Absent(q, s)
  PROVE  Absent(Append(q, m), s)
<1> DEFINE r == Append(q, m)
<1>1. /\ DOMAIN q = 1 .. Len(q) /\ DOMAIN r = 1 .. Len(q) + 1 /\ Len(q) \in Nat
      /\ \A k \in 1 .. Len(q) : r[k] = q[k]
      /\ r[Len(q) + 1] = m
  BY AppendProperties
<1> HIDE DEF r
<1>2. \A k \in DOMAIN r : (k \in DOMAIN q /\ r[k] = q[k]) \/ r[k] = m
  BY <1>1
<1> QED
  BY <1>2, Zenon DEF Absent, r

\* Something else arrives.
LEMMA FlowTailOther ==
  ASSUME NEW q \in Seq(Message), q # <<>>, NEW s \in Sends, NEW g, NEW o, ~IsSlice(q[1], s), Flow(q, s, g, o)
  PROVE  Flow(Tail(q), s, g, o)
<1> DEFINE r == Tail(q)
<1>1. /\ DOMAIN q = 1 .. Len(q) /\ DOMAIN r = 1 .. Len(q) - 1 /\ Len(q) \in Nat \ {0}
      /\ \A k \in 1 .. Len(q) - 1 : r[k] = q[k + 1]
  BY TailAt
<1> HIDE DEF r
<1>2. \A k \in DOMAIN r : k \in Int /\ k + 1 \in DOMAIN q /\ r[k] = q[k + 1]
  BY <1>1
<1>3. \A k \in DOMAIN q : IsSlice(q[k], s) => k - 1 \in DOMAIN r /\ r[k - 1] = q[k]
  <2> TAKE k \in DOMAIN q
  <2>1. CASE k = 1
    BY <2>1
  <2>2. CASE k # 1
    <3>1. k - 1 \in 1 .. Len(q) - 1 /\ (k - 1) + 1 = k
      BY <1>1, <2>2
    <3> QED
      BY <1>1, <3>1
  <2> QED
    BY <2>1, <2>2
<1>4. \A k \in DOMAIN r : IsSlice(r[k], s) => \E j \in Nat : j >= g /\ At(j) < o /\ r[k].slice = <<s, At(j)>>
  BY <1>2, Zenon DEF Flow
<1>5. \A j \in Nat : j >= g /\ At(j) < o => \E k \in DOMAIN r : IsSlice(r[k], s) /\ r[k].slice[2] = At(j)
  <2> SUFFICES ASSUME NEW j \in Nat, j >= g, At(j) < o
               PROVE  \E k \in DOMAIN r : IsSlice(r[k], s) /\ r[k].slice[2] = At(j)
    OBVIOUS
  <2>1. PICK k \in DOMAIN q : IsSlice(q[k], s) /\ q[k].slice[2] = At(j)
    BY DEF Flow
  <2>2. k - 1 \in DOMAIN r /\ r[k - 1] = q[k]
    BY <1>3, <2>1
  <2> QED
    BY <2>1, <2>2, Zenon
<1>6. ASSUME NEW k \in DOMAIN r, NEW l \in DOMAIN r, IsSlice(r[k], s), IsSlice(r[l], s), k < l
      PROVE  r[k].slice[2] < r[l].slice[2]
  <2>1. /\ k + 1 \in DOMAIN q /\ r[k] = q[k + 1] /\ l + 1 \in DOMAIN q /\ r[l] = q[l + 1]
        /\ k + 1 < l + 1
    BY <1>2, <1>6
  <2>2. IsSlice(q[k + 1], s) /\ IsSlice(q[l + 1], s)
    BY <1>6, <2>1, Zenon
  <2>3. q[k + 1].slice[2] < q[l + 1].slice[2]
    BY <2>1, <2>2, Zenon DEF Flow
  <2> QED
    BY <2>1, <2>3, Zenon
<1> QED
  BY <1>4, <1>5, <1>6 DEF Flow, r

LEMMA AbsentTail ==
  ASSUME NEW q \in Seq(Message), q # <<>>, NEW s, Absent(q, s)
  PROVE  Absent(Tail(q), s)
<1>1. \A k \in DOMAIN Tail(q) : k + 1 \in DOMAIN q /\ Tail(q)[k] = q[k + 1]
  BY TailAt
<1> QED
  BY <1>1, Zenon DEF Absent

\* The next slice is written.
LEMMA FlowAppendNext ==
  ASSUME NEW q \in Seq(Message), NEW m \in Message, NEW s \in Sends, NEW g \in Nat, NEW j \in Nat, j >= g,
         NEW o \in Nat, IsSlice(m, s), m.slice = <<s, At(j)>>, At(j) < o, o <= At(j + 1), Flow(q, s, g, At(j))
  PROVE  Flow(Append(q, m), s, g, o)
<1> DEFINE r == Append(q, m)
<1>1. /\ DOMAIN q = 1 .. Len(q) /\ DOMAIN r = 1 .. Len(q) + 1 /\ Len(q) \in Nat
      /\ \A k \in 1 .. Len(q) : r[k] = q[k]
      /\ r[Len(q) + 1] = m
  BY AppendProperties
<1> HIDE DEF r
<1>2. \A k \in DOMAIN r : (k \in DOMAIN q /\ r[k] = q[k]) \/ (k = Len(q) + 1 /\ r[k] = m)
  BY <1>1
<1>3. \A k \in DOMAIN q : k \in DOMAIN r /\ r[k] = q[k]
  BY <1>1
<1>4. At(j) \in Nat /\ \A i \in Nat : At(i) \in Nat /\ (At(i) < o => i = j \/ At(i) < At(j))
  <2>1. At(j) \in Nat /\ \A i \in Nat : At(i) \in Nat
    BY Multiples
  <2> SUFFICES ASSUME NEW i \in Nat, At(i) < o PROVE i = j \/ At(i) < At(j)
    BY <2>1
  <2>2. At(i) < At(j + 1)
    <3>1. At(j + 1) \in Nat
      BY Multiples, j + 1 \in Nat
    <3> QED
      BY <2>1, <3>1
  <2>3. i < j + 1
    BY <2>2, Multiples, j + 1 \in Nat
  <2>4. i < j => At(i) + ChunkSize <= At(j)
    BY Multiples
  <2>5. ChunkSize \in Nat \ {0}
    BY ChunkAssumption
  <2> HIDE DEF At
  <2> QED
    BY <2>1, <2>3, <2>4, <2>5
<1>5. \A k \in DOMAIN q : IsSlice(q[k], s) =>
          \E i \in Nat : i >= g /\ At(i) < At(j) /\ At(i) < o /\ q[k].slice = <<s, At(i)>>
  <2> SUFFICES ASSUME NEW k \in DOMAIN q, IsSlice(q[k], s)
               PROVE  \E i \in Nat : i >= g /\ At(i) < At(j) /\ At(i) < o /\ q[k].slice = <<s, At(i)>>
    OBVIOUS
  <2>1. PICK i \in Nat : i >= g /\ At(i) < At(j) /\ q[k].slice = <<s, At(i)>>
    BY DEF Flow
  <2>2. At(i) < o
    <3> HIDE DEF At
    <3> QED
      BY <1>4, <2>1
  <2> QED
    BY <2>1, <2>2
<1>6. ASSUME NEW k \in DOMAIN r, IsSlice(r[k], s)
      PROVE  \E i \in Nat : i >= g /\ At(i) < o /\ r[k].slice = <<s, At(i)>>
  BY <1>2, <1>5, <1>6
<1>7. ASSUME NEW i \in Nat, i >= g, At(i) < o
      PROVE  \E k \in DOMAIN r : IsSlice(r[k], s) /\ r[k].slice[2] = At(i)
  <2>1. CASE i = j
    <3>1. Len(q) + 1 \in DOMAIN r /\ m.slice[2] = At(j)
      BY <1>1
    <3> QED
      BY <1>1, <2>1, <3>1, Zenon
  <2>2. CASE At(i) < At(j)
    <3>1. PICK k \in DOMAIN q : IsSlice(q[k], s) /\ q[k].slice[2] = At(i)
      BY <1>7, <2>2 DEF Flow
    <3> QED
      BY <1>3, <3>1, Zenon
  <2> QED
    BY <1>4, <1>7, <2>1, <2>2
<1>8. ASSUME NEW k \in DOMAIN r, NEW l \in DOMAIN r, IsSlice(r[k], s), IsSlice(r[l], s), k < l
      PROVE  r[k].slice[2] < r[l].slice[2]
  <2>1. k \in DOMAIN q /\ r[k] = q[k]
    BY <1>1, <1>2, <1>8
  <2>2. CASE l \in DOMAIN q /\ r[l] = q[l]
    <3>1. IsSlice(q[k], s) /\ IsSlice(q[l], s)
      BY <1>8, <2>1, <2>2, Zenon
    <3>2. q[k].slice[2] < q[l].slice[2]
      BY <1>8, <2>1, <2>2, <3>1, Zenon DEF Flow
    <3> QED
      BY <2>1, <2>2, <3>2, Zenon
  <2>3. CASE r[l] = m
    <3>1. IsSlice(q[k], s)
      BY <1>8, <2>1, Zenon
    <3>2. PICK i \in Nat : At(i) < At(j) /\ q[k].slice = <<s, At(i)>>
      BY <1>5, <2>1, <3>1
    <3>3. r[k].slice[2] = At(i) /\ r[l].slice[2] = At(j)
      BY <2>1, <2>3, <3>2
    <3> HIDE DEF At
    <3> QED
      BY <3>2, <3>3
  <2> QED
    BY <1>2, <2>2, <2>3
<1> QED
  BY <1>6, <1>7, <1>8 DEF Flow, r

\* The first slice of s on the wire is the one that is missing next.
LEMMA FlowTailNext ==
  ASSUME NEW q \in Seq(Message), q # <<>>, NEW s \in Sends, NEW g \in Nat, NEW o \in Nat,
         IsSlice(q[1], s), Flow(q, s, g, o)
  PROVE  q[1].slice = <<s, At(g)>> /\ At(g) < o /\ Flow(Tail(q), s, g + 1, o)
<1> DEFINE r == Tail(q)
<1>1. /\ DOMAIN q = 1 .. Len(q) /\ DOMAIN r = 1 .. Len(q) - 1 /\ Len(q) \in Nat \ {0}
      /\ \A k \in 1 .. Len(q) - 1 : r[k] = q[k + 1]
  BY TailAt
<1>2. 1 \in DOMAIN q
  BY <1>1
<1> HIDE DEF r
<1>3. PICK i \in Nat : i >= g /\ At(i) < o /\ q[1].slice = <<s, At(i)>>
  BY <1>2 DEF Flow
<1>4. \A j \in Nat : At(j) \in Nat
  BY Multiples
<1>5. At(g) < o /\ At(g) <= At(i)
  <2>1. g = i \/ At(g) + ChunkSize <= At(i)
    BY <1>3, Multiples
  <2>2. ChunkSize \in Nat /\ At(g) \in Nat /\ At(i) \in Nat
    BY <1>4, ChunkAssumption
  <2>3. At(i) < o
    BY <1>3
  <2> HIDE DEF At
  <2>4. CASE g = i
    BY <2>2, <2>3, <2>4
  <2>5. CASE At(g) + ChunkSize <= At(i)
    BY <2>2, <2>3, <2>5
  <2> QED
    BY <2>1, <2>4, <2>5
<1>6. PICK k \in DOMAIN q : IsSlice(q[k], s) /\ q[k].slice[2] = At(g)
  BY <1>5 DEF Flow
<1>7. k = 1
  <2> SUFFICES ASSUME k # 1 PROVE FALSE
    OBVIOUS
  <2>1. 1 < k
    BY <1>1
  <2>2. q[1].slice[2] < q[k].slice[2]
    BY <1>2, <1>6, <2>1 DEF Flow
  <2>3. q[1].slice[2] = At(i)
    BY <1>3
  <2> HIDE DEF At
  <2> QED
    BY <1>4, <1>5, <1>6, <2>2, <2>3
<1>8. i = g
  <2>1. At(i) = At(g)
    BY <1>3, <1>6, <1>7
  <2> QED
    BY <2>1, Multiples
<1>9. ASSUME NEW l \in DOMAIN r
      PROVE  l \in Int /\ l + 1 \in DOMAIN q /\ 1 < l + 1 /\ r[l] = q[l + 1]
  BY <1>1
<1>10. ASSUME NEW l \in DOMAIN r, IsSlice(r[l], s)
       PROVE  \E j \in Nat : j >= g + 1 /\ At(j) < o /\ r[l].slice = <<s, At(j)>>
  <2>1. l + 1 \in DOMAIN q /\ 1 < l + 1 /\ r[l] = q[l + 1] /\ IsSlice(q[l + 1], s)
    BY <1>9, <1>10
  <2>2. PICK j \in Nat : j >= g /\ At(j) < o /\ q[l + 1].slice = <<s, At(j)>>
    BY <2>1 DEF Flow
  <2>3. q[1].slice[2] < q[l + 1].slice[2]
    BY <1>2, <2>1 DEF Flow
  <2>4. At(g) < At(j)
    BY <1>3, <1>8, <2>2, <2>3
  <2>5. g < j
    BY <2>4, Multiples
  <2> QED
    BY <2>1, <2>2, <2>5
<1>11. ASSUME NEW j \in Nat, j >= g + 1, At(j) < o
       PROVE  \E l \in DOMAIN r : IsSlice(r[l], s) /\ r[l].slice[2] = At(j)
  <2>1. PICK l \in DOMAIN q : IsSlice(q[l], s) /\ q[l].slice[2] = At(j)
    BY <1>11 DEF Flow
  <2>2. l # 1
    <3> SUFFICES ASSUME l = 1 PROVE FALSE
      OBVIOUS
    <3>1. At(j) = At(g)
      BY <1>3, <1>8, <2>1
    <3>2. j = g
      BY <3>1, Multiples
    <3> QED
      BY <1>11, <3>2
  <2>3. l - 1 \in DOMAIN r /\ r[l - 1] = q[l]
    <3>1. l - 1 \in 1 .. Len(q) - 1 /\ (l - 1) + 1 = l
      BY <1>1, <2>2
    <3> QED
      BY <1>1, <3>1
  <2> QED
    BY <2>1, <2>3, Zenon
<1>12. ASSUME NEW a \in DOMAIN r, NEW b \in DOMAIN r, IsSlice(r[a], s), IsSlice(r[b], s), a < b
       PROVE  r[a].slice[2] < r[b].slice[2]
  <2>1. /\ a + 1 \in DOMAIN q /\ r[a] = q[a + 1] /\ b + 1 \in DOMAIN q /\ r[b] = q[b + 1]
        /\ a + 1 < b + 1
    BY <1>9, <1>12
  <2>2. IsSlice(q[a + 1], s) /\ IsSlice(q[b + 1], s)
    BY <1>12, <2>1, Zenon
  <2>3. q[a + 1].slice[2] < q[b + 1].slice[2]
    BY <2>1, <2>2, Zenon DEF Flow
  <2> QED
    BY <2>1, <2>3, Zenon
<1>13. q[1].slice = <<s, At(g)>>
  BY <1>3, <1>8
<1> QED
  BY <1>5, <1>10, <1>11, <1>12, <1>13 DEF Flow, r

\* When everything has been put together nothing is on its way any more.
LEMMA FlowEnds ==
  ASSUME NEW q \in Seq(Message), NEW s \in Sends, NEW g \in Nat, NEW o \in Nat, o <= At(g), Flow(q, s, g, o)
  PROVE  \A k \in DOMAIN q : ~IsSlice(q[k], s)
<1> SUFFICES ASSUME NEW k \in DOMAIN q, IsSlice(q[k], s) PROVE FALSE
  OBVIOUS
<1>1. PICK j \in Nat : j >= g /\ At(j) < o
  BY DEF Flow
<1>2. g = j \/ At(g) + ChunkSize <= At(j)
  BY <1>1, Multiples
<1>3. At(j) \in Nat /\ At(g) \in Nat /\ ChunkSize \in Nat
  BY Multiples, ChunkAssumption
<1> HIDE DEF At
<1> QED
  BY <1>1, <1>2, <1>3

-----------------------------------------------------------------------------
(* The invariant                                                           *)

Intact(side) == side = "server" \/ ~torn
Begun(side) == {s \in Sends : From[s] = side /\ Started(s)}

\* A writer numbers its long messages, and there are not more of them than calls.
Numbered == /\ \A side \in Sides : chunkId[side] <= Before[side] + Cardinality(Begun(side))
            /\ \A s \in Sends : Live(s) => chunk[s] < chunkId[From[s]]
            /\ \A s, t \in Sends : Live(s) /\ Live(t) /\ From[s] = From[t] /\ chunk[s] = chunk[t] => s = t

Offsets == \A s \in Sends :
    /\ offset[s] = Bytes[s] \/ \E j \in Nat : offset[s] = At(j)
    /\ Started(s) => offset[s] > 0
    /\ state[s] = "idle" => offset[s] = 0
    /\ state[s] \in {"waiting", "acked"} => Long(s)

\* What can be on its way to a side: only slices of messages of this connection.
OnWire(side, m) ==
    \/ \E s \in Sends : m = Plain(s) /\ ~Long(s) /\ To(s) = side /\ state[s] # "idle"
    \/ \E s \in Sends, o \in Nat : m = ChunkOf(s, chunk[s], o) /\ Live(s) /\ To(s) = side /\ o < Bytes[s]
    \/ \E s \in Sends : m = ChunkAck(Id[s]) /\ Long(s) /\ From[s] = side

Once(q) == \A s \in Sends : \A k, l \in DOMAIN q : IsPlain(q[k], s) /\ IsPlain(q[l], s) => k = l

Sent == \A side \in Sides : /\ \A m : (\E k \in DOMAIN wire[side] : wire[side][k] = m) => OnWire(side, m)
                            /\ Once(wire[side])

WireInv == ChunkTypeOK /\ Numbered /\ Offsets /\ Sent

\* Nothing of s is on its way, and nothing will be.
Over(s) == state[s] # "idle" /\ Absent(wire[To(s)], s) /\ (Live(s) => offset[s] = Bytes[s])

\* The reader has all of a message, or the first g slices and the others are to come.
CollectingOf(s) == \/ Over(s) /\ chunks[To(s)][chunk[s]] = Nothing
                   \/ \E g \in Nat : /\ Assembled(s, g, chunks[To(s)][chunk[s]])
                                     /\ Flow(wire[To(s)], s, g, offset[s])
                                     /\ At(g) <= offset[s]
Collecting == \A s \in Sends : Live(s) /\ Intact(To(s)) => CollectingOf(s)

UsedBy(side, c) == \E s \in Sends : Live(s) /\ To(s) = side /\ chunk[s] = c
Free == \A side \in Sides : Intact(side) => \A c \in Ids : ~UsedBy(side, c) => chunks[side][c] = Nothing

Whole1(side) == /\ \A k \in DOMAIN received[side] :
                      \E s \in Sends : To(s) = side /\ received[side][k] = Slices(s) /\ Over(s)
                /\ Distinct(received[side])
Given == \A side \in Sides : Intact(side) => Whole1(side)

ReaderInv == WireInv /\ Collecting /\ Free /\ Given

-----------------------------------------------------------------------------
(* The steps, variable by variable                                         *)

States == {"idle", "waiting", "acked", "done"}

\* A slice is written: the first one of s under a new number, or the next one.
Writes(s, c, j) ==
    /\ Long(s) /\ offset[s] = At(j) /\ At(j) < Bytes[s]
    /\ state' \in [Sends -> States] /\ state'[s] = "waiting"
    /\ offset' \in [Sends -> Nat] /\ offset'[s] = At(j) + SliceLen(<<s, At(j)>>)
    /\ chunk' \in [Sends -> ChunkIds] /\ chunk'[s] = c
    /\ conn' \in [Sends -> Nat] /\ conn'[s] = epoch
    /\ \A t \in Sends \ {s} : state'[t] = state[t] /\ offset'[t] = offset[t] /\ chunk'[t] = chunk[t] /\ conn'[t] = conn[t]
    /\ wire' \in [Sides -> Seq(Message)]
    /\ wire'[To(s)] = Append(wire[To(s)], ChunkOf(s, c, At(j)))
    /\ wire'[From[s]] = wire[From[s]]
    /\ chunks' = chunks /\ received' = received /\ epoch' = epoch /\ torn' = torn
    /\ \/ /\ state[s] = "idle" /\ c = chunkId[From[s]]
          /\ chunkId' = [chunkId EXCEPT ![From[s]] = @ + 1]
       \/ state[s] = "acked" /\ Live(s) /\ c = chunk[s] /\ chunkId' = chunkId

LEMMA WireTyped ==
  ASSUME ChunkTypeOK
  PROVE  /\ state \in [Sends -> States] /\ offset \in [Sends -> Nat] /\ chunk \in [Sends -> ChunkIds]
         /\ conn \in [Sends -> Nat] /\ chunkId \in [Sides -> ChunkIds]
         /\ \A s \in Sends : offset[s] <= Bytes[s] /\ conn[s] <= epoch
         /\ wire \in [Sides -> Seq(Message)] /\ \A side \in Sides : wire[side] \in Seq(Message)
         /\ epoch \in Nat
BY ChunkAssumption DEF ChunkTypeOK, States

\* One end is written to.
LEMMA WireWrite ==
  ASSUME ChunkTypeOK, NEW side \in Sides, NEW m \in Message, wire' = [wire EXCEPT ![side] = Append(@, m)]
  PROVE  /\ wire' \in [Sides -> Seq(Message)] /\ wire'[side] = Append(wire[side], m)
         /\ wire'[Other(side)] = wire[Other(side)]
<1>1. Append(wire[side], m) \in Seq(Message)
  BY WireTyped
<1>2. Other(side) # side /\ Other(side) \in Sides
  BY TwoSides
<1> QED
  BY <1>1, <1>2, WireTyped

LEMMA Writing ==
  ASSUME WireInv, NEW s \in Sends, WriteLong(s) \/ NextSlice(s)
  PROVE  \E c \in ChunkIds, j \in Nat : Writes(s, c, j)
<1>1. ChunkTypeOK /\ Offsets
  BY DEF WireInv
<1>2. At(0) = 0 /\ 0 \in Nat
  BY Multiples
<1>3. PICK c \in ChunkIds, j \in Nat :
          /\ Long(s) /\ offset[s] = At(j) /\ At(j) < Bytes[s]
          /\ WriteSlice(s, c, At(j))
          /\ chunk' \in [Sends -> ChunkIds] /\ chunk'[s] = c
          /\ conn' \in [Sends -> Nat] /\ conn'[s] = epoch
          /\ \A t \in Sends \ {s} : chunk'[t] = chunk[t] /\ conn'[t] = conn[t]
          /\ chunks' = chunks /\ received' = received /\ epoch' = epoch /\ torn' = torn
          /\ \/ /\ state[s] = "idle" /\ c = chunkId[From[s]]
                /\ chunkId' = [chunkId EXCEPT ![From[s]] = @ + 1]
             \/ state[s] = "acked" /\ Live(s) /\ c = chunk[s] /\ chunkId' = chunkId
  <2>1. CASE WriteLong(s)
    <3>1. PICK c : c = chunkId[From[s]]
      OBVIOUS
    <3>2. c \in ChunkIds /\ Bytes[s] \in Nat \ {0}
      BY <1>1, <3>1, WireTyped, Settings
    <3>3. Long(s) /\ state[s] = "idle" /\ offset[s] = At(0) /\ At(0) < Bytes[s]
      BY <1>1, <1>2, <2>1, <3>2 DEF WriteLong, Long, Offsets
    <3>4. /\ WriteSlice(s, c, At(0)) /\ chunk' = [chunk EXCEPT ![s] = c] /\ conn' = [conn EXCEPT ![s] = epoch]
          /\ chunks' = chunks /\ received' = received /\ epoch' = epoch /\ torn' = torn
          /\ chunkId' = [chunkId EXCEPT ![From[s]] = @ + 1]
      BY <1>2, <2>1, <3>1 DEF WriteLong
    <3>5. /\ chunk' \in [Sends -> ChunkIds] /\ chunk'[s] = c
          /\ conn' \in [Sends -> Nat] /\ conn'[s] = epoch
          /\ \A t \in Sends \ {s} : chunk'[t] = chunk[t] /\ conn'[t] = conn[t]
      BY <1>1, <3>2, <3>4, WireTyped
    <3> QED
      BY <1>2, <3>1, <3>2, <3>3, <3>4, <3>5
  <2>2. CASE NextSlice(s)
    <3>1. PICK c : c = chunk[s]
      OBVIOUS
    <3>2. c \in ChunkIds /\ Bytes[s] \in Nat \ {0}
      BY <1>1, <3>1, WireTyped, Settings
    <3>3. state[s] = "acked" /\ offset[s] < Bytes[s] /\ conn[s] = epoch
      BY <2>2 DEF NextSlice, Acked
    <3>4. Long(s) /\ Live(s)
      BY <1>1, <3>3 DEF Offsets, Live, Started
    <3>5. offset[s] \in Nat
      BY <1>1, WireTyped
    <3>6. PICK j \in Nat : offset[s] = At(j)
      <4>1. offset[s] # Bytes[s]
        BY <3>2, <3>3, <3>5
      <4> QED
        BY <1>1, <4>1 DEF Offsets
    <3>7. /\ WriteSlice(s, c, At(j)) /\ chunk' = chunk /\ conn' = conn
          /\ chunks' = chunks /\ received' = received /\ epoch' = epoch /\ torn' = torn
          /\ chunkId' = chunkId
      BY <2>2, <3>1, <3>6 DEF NextSlice
    <3>8. /\ chunk' \in [Sends -> ChunkIds] /\ chunk'[s] = c
          /\ conn' \in [Sends -> Nat] /\ conn'[s] = epoch
          /\ \A t \in Sends \ {s} : chunk'[t] = chunk[t] /\ conn'[t] = conn[t]
      BY <1>1, <3>1, <3>3, <3>7, WireTyped
    <3>9. At(j) < Bytes[s]
      BY <3>3, <3>6
    <3> QED
      BY <3>1, <3>2, <3>3, <3>4, <3>6, <3>7, <3>8, <3>9
  <2> QED
    BY <2>1, <2>2
<1>4. SliceLen(<<s, At(j)>>) \in Nat /\ At(j) \in Nat
  BY <1>3, SliceIs, Multiples
<1>5. PICK n : n = At(j) + SliceLen(<<s, At(j)>>)
  OBVIOUS
<1>6. state' = [state EXCEPT ![s] = "waiting"] /\ offset' = [offset EXCEPT ![s] = n]
  BY <1>3, <1>5 DEF WriteSlice
<1>7. n \in Nat
  BY <1>4, <1>5
<1>8. /\ state' \in [Sends -> States] /\ state'[s] = "waiting"
      /\ offset' \in [Sends -> Nat] /\ offset'[s] = n
      /\ \A t \in Sends \ {s} : state'[t] = state[t] /\ offset'[t] = offset[t]
  BY <1>1, <1>6, <1>7, WireTyped DEF States
<1>9. PICK m : m = ChunkOf(s, c, At(j))
  OBVIOUS
<1>10. m \in Message
  BY <1>4, <1>9, Kinds
<1>11. wire' = [wire EXCEPT ![To(s)] = Append(@, m)]
  BY <1>3, <1>9 DEF WriteSlice, To
<1>12. /\ wire' \in [Sides -> Seq(Message)] /\ wire'[To(s)] = Append(wire[To(s)], m)
       /\ wire'[From[s]] = wire[From[s]]
  <2>1. To(s) \in Sides /\ Other(To(s)) = From[s]
    BY Settings
  <2> QED
    BY <1>1, <1>10, <1>11, <2>1, WireWrite
<1>13. Writes(s, c, j)
  BY <1>3, <1>5, <1>8, <1>9, <1>12, Zenon DEF Writes
<1> QED
  BY <1>13

\* A slice arrives.
Reads(side, s, o, got) ==
    /\ To(s) = side /\ Live(s) /\ o < Bytes[s]
    /\ wire[side] # <<>> /\ IsSlice(wire[side][1], s) /\ wire[side][1].slice = <<s, o>>
    /\ got.loaded = chunks[side][chunk[s]].loaded + SliceLen(<<s, o>>)
    /\ got.buffers = Append(chunks[side][chunk[s]].buffers, <<s, o>>)
    /\ wire' \in [Sides -> Seq(Message)]
    /\ wire'[side] = Tail(wire[side])
    /\ wire'[From[s]] = Append(wire[From[s]], ChunkAck(Id[s]))
    /\ state' = state /\ offset' = offset /\ chunk' = chunk /\ conn' = conn /\ chunkId' = chunkId
    /\ epoch' = epoch /\ torn' = torn
    /\ chunks' \in [Sides -> [Ids -> Collected]]
    /\ \A side2 \in Sides, c \in Ids : side2 # side \/ c # chunk[s] => chunks'[side2][c] = chunks[side2][c]
    /\ received' \in [Sides -> Seq(Seq(Sends \X Nat))]
    /\ received'[From[s]] = received[From[s]]
    /\ \/ got.loaded # Bytes[s] /\ chunks'[side][chunk[s]] = got /\ received'[side] = received[side]
       \/ /\ got.loaded = Bytes[s] /\ chunks'[side][chunk[s]] = Nothing
          /\ received'[side] = Append(received[side], got.buffers)

\* One end is read from, and the other may be answered.
LEMMA WireRead ==
  ASSUME ChunkTypeOK, NEW side \in Sides, wire[side] # <<>>
  PROVE  /\ wire[side][1] \in Message /\ Head(wire[side]) = wire[side][1] /\ 1 \in DOMAIN wire[side]
         /\ wire' = [wire EXCEPT ![side] = Tail(@)] =>
              /\ wire' \in [Sides -> Seq(Message)] /\ wire'[side] = Tail(wire[side])
              /\ wire'[Other(side)] = wire[Other(side)]
         /\ \A m \in Message : wire' = [wire EXCEPT ![side] = Tail(@), ![Other(side)] = Append(@, m)] =>
              /\ wire' \in [Sides -> Seq(Message)] /\ wire'[side] = Tail(wire[side])
              /\ wire'[Other(side)] = Append(wire[Other(side)], m)
<1>1. /\ Tail(wire[side]) \in Seq(Message) /\ Head(wire[side]) = wire[side][1] /\ wire[side][1] \in Message
      /\ DOMAIN wire[side] = 1 .. Len(wire[side]) /\ Len(wire[side]) \in Nat \ {0}
  BY WireTyped, TailAt
<1>2. Other(side) # side /\ Other(side) \in Sides
  BY TwoSides
<1>3. \A m \in Message : Append(wire[Other(side)], m) \in Seq(Message)
  BY <1>2, WireTyped
<1>4. 1 \in DOMAIN wire[side]
  BY <1>1
<1>5. wire' = [wire EXCEPT ![side] = Tail(@)] =>
              /\ wire' \in [Sides -> Seq(Message)] /\ wire'[side] = Tail(wire[side])
              /\ wire'[Other(side)] = wire[Other(side)]
  BY <1>1, <1>2, WireTyped
<1>6. ASSUME NEW m \in Message, wire' = [wire EXCEPT ![side] = Tail(@), ![Other(side)] = Append(@, m)]
      PROVE  /\ wire' \in [Sides -> Seq(Message)] /\ wire'[side] = Tail(wire[side])
             /\ wire'[Other(side)] = Append(wire[Other(side)], m)
  <2>1. PICK r : r = Append(wire[Other(side)], m)
    OBVIOUS
  <2>2. r \in Seq(Message)
    BY <1>3, <1>6, <2>1
  <2>3. wire' = [wire EXCEPT ![side] = Tail(wire[side]), ![Other(side)] = r]
    BY <1>2, <1>6, <2>1
  <2> QED
    BY <1>1, <1>2, <2>1, <2>2, <2>3, WireTyped
<1> QED
  BY <1>1, <1>4, <1>5, <1>6

\* What arrives as a slice is the slice of a message of this connection.
LEMMA HeadSlice ==
  ASSUME WireInv, NEW side \in Sides, wire[side] # <<>>, Head(wire[side]).type = "chunk"
  PROVE  \E s \in Sends, o \in Nat :
            /\ To(s) = side /\ Live(s) /\ o < Bytes[s] /\ IsSlice(wire[side][1], s)
            /\ Head(wire[side]) = ChunkOf(s, chunk[s], o) /\ wire[side][1] = ChunkOf(s, chunk[s], o)
<1>1. ChunkTypeOK /\ Sent
  BY DEF WireInv
<1>2. Head(wire[side]) = wire[side][1] /\ 1 \in DOMAIN wire[side]
  BY <1>1, WireRead
<1>3. OnWire(side, wire[side][1])
  BY <1>1, <1>2 DEF Sent
<1>4. PICK m : m = wire[side][1]
  OBVIOUS
<1>5. m.type = "chunk" /\ OnWire(side, m)
  BY <1>2, <1>3, <1>4
<1>6. \A s \in Sends : chunk[s] \in ChunkIds
  BY <1>1, WireTyped
<1>7. \A s \in Sends : m # Plain(s) /\ m # ChunkAck(Id[s])
  BY <1>5 DEF Plain, ChunkAck
<1>8. PICK s \in Sends, o \in Nat : m = ChunkOf(s, chunk[s], o) /\ Live(s) /\ To(s) = side /\ o < Bytes[s]
  BY <1>5, <1>7, Zenon DEF OnWire
<1>9. IsSlice(m, s)
  BY <1>6, <1>8, Kinds
<1> QED
  BY <1>2, <1>4, <1>8, <1>9

LEMMA Reading ==
  ASSUME WireInv, NEW side \in Sides, GotChunk(side) \/ GotLastChunk(side)
  PROVE  \E s \in Sends, o \in Nat, got \in Collected : Reads(side, s, o, got)
<1>1. ChunkTypeOK
  BY DEF WireInv
<1>2. wire[side] # <<>> /\ Head(wire[side]).type = "chunk"
  BY DEF GotChunk, GotLastChunk, Arrives
<1>3. PICK s \in Sends, o \in Nat :
            /\ To(s) = side /\ Live(s) /\ o < Bytes[s] /\ IsSlice(wire[side][1], s)
            /\ Head(wire[side]) = ChunkOf(s, chunk[s], o) /\ wire[side][1] = ChunkOf(s, chunk[s], o)
  BY <1>2, HeadSlice
<1>4. PICK m : m = Head(wire[side])
  OBVIOUS
<1>5. PICK c : c = chunk[s]
  OBVIOUS
<1>6. c \in ChunkIds /\ c \in Ids
  BY <1>1, <1>5, WireTyped DEF Ids
<1>7. m.id = Id[s] /\ m.body = c /\ m.slice = <<s, o>> /\ m.slice[1] = s
  <2>1. m = ChunkOf(s, c, o)
    BY <1>3, <1>4, <1>5
  <2> QED
    BY <1>6, <2>1, Kinds
<1>8. PICK e : e = chunks[side][c]
  OBVIOUS
<1>9. chunks \in [Sides -> [Ids -> Collected]] /\ received \in [Sides -> Seq(Seq(Sends \X Nat))]
  BY <1>1 DEF ChunkTypeOK
<1>10. e \in Collected
  BY <1>6, <1>8, <1>9
<1>11. e.loaded \in Nat /\ e.buffers \in Seq(Sends \X Nat)
  BY <1>10 DEF Collected
<1>12. SliceLen(<<s, o>>) \in Nat
  <2>1. Bytes[s] \in Nat /\ ChunkSize \in Nat
    BY Settings
  <2>2. SliceLen(<<s, o>>) = IF ChunkSize < Bytes[s] - o THEN ChunkSize ELSE Bytes[s] - o
    BY DEF SliceLen, Least
  <2> QED
    BY <1>3, <2>1, <2>2
<1>13. PICK l, b : l = e.loaded + SliceLen(<<s, o>>) /\ b = Append(e.buffers, <<s, o>>)
  OBVIOUS
<1>14. l \in Nat /\ b \in Seq(Sends \X Nat)
  BY <1>11, <1>12, <1>13
<1>15. PICK got : got = [loaded |-> l, buffers |-> b]
  OBVIOUS
<1>16. got \in Collected /\ got.loaded = l /\ got.buffers = b
  BY <1>14, <1>15 DEF Collected
<1>17. Nothing \in Collected
  BY DEF Nothing, Collected
<1>18. [loaded |-> chunks[side][Key(m)].loaded + SliceLen(m.slice),
        buffers |-> Append(chunks[side][Key(m)].buffers, m.slice)] = got
  BY <1>5, <1>7, <1>8, <1>13, <1>15 DEF Key
<1>19. ChunkAck(Id[s]) \in Message
  BY <1>6, Kinds
<1>20. Other(side) = From[s] /\ From[s] \in Sides /\ side # From[s]
  BY <1>3, Settings
<1>21. /\ state' = state /\ offset' = offset /\ chunk' = chunk /\ conn' = conn /\ chunkId' = chunkId
       /\ epoch' = epoch /\ torn' = torn
  BY DEF GotChunk, GotLastChunk, writers
<1>22. wire' = [wire EXCEPT ![side] = Tail(@), ![Other(side)] = Append(@, ChunkAck(m.id))]
  BY <1>4 DEF GotChunk, GotLastChunk
<1>23. /\ wire' \in [Sides -> Seq(Message)] /\ wire'[side] = Tail(wire[side])
       /\ wire'[From[s]] = Append(wire[From[s]], ChunkAck(Id[s]))
  BY <1>1, <1>2, <1>7, <1>19, <1>20, <1>22, WireRead
<1>26. /\ To(s) = side /\ Live(s) /\ o < Bytes[s]
       /\ wire[side] # <<>> /\ IsSlice(wire[side][1], s) /\ wire[side][1].slice = <<s, o>>
  <2>1. wire[side][1] = m
    BY <1>3, <1>4
  <2> QED
    BY <1>2, <1>3, <1>7, <2>1
<1>27. /\ got.loaded = chunks[side][chunk[s]].loaded + SliceLen(<<s, o>>)
       /\ got.buffers = Append(chunks[side][chunk[s]].buffers, <<s, o>>)
  BY <1>5, <1>8, <1>13, <1>16
<1>24. ASSUME GotChunk(side) PROVE Reads(side, s, o, got)
  <2>1. got.loaded # Bytes[s] /\ chunks' = [chunks EXCEPT ![side][c] = got] /\ received' = received
    BY <1>4, <1>7, <1>18, <1>24 DEF GotChunk, Key
  <2>2. /\ chunks' \in [Sides -> [Ids -> Collected]] /\ chunks'[side][c] = got
        /\ \A side2 \in Sides, d \in Ids : side2 # side \/ d # c => chunks'[side2][d] = chunks[side2][d]
    BY <1>6, <1>9, <1>16, <2>1
  <2>3. /\ received' \in [Sides -> Seq(Seq(Sends \X Nat))]
        /\ received'[From[s]] = received[From[s]] /\ received'[side] = received[side]
    BY <1>9, <2>1
  <2>7. /\ chunks' \in [Sides -> [Ids -> Collected]] /\ chunks'[side][chunk[s]] = got
        /\ \A side2 \in Sides, d \in Ids : side2 # side \/ d # chunk[s] => chunks'[side2][d] = chunks[side2][d]
    BY <1>5, <2>2
  <2>8. got.loaded # Bytes[s]
    BY <2>1
  <2> QED
    BY <1>21, <1>23, <1>26, <1>27, <2>3, <2>7, <2>8, Zenon DEF Reads
<1>25. ASSUME GotLastChunk(side) PROVE Reads(side, s, o, got)
  <2>1. /\ got.loaded = Bytes[s] /\ chunks' = [chunks EXCEPT ![side][c] = Nothing]
        /\ received' = [received EXCEPT ![side] = Append(@, got.buffers)]
    BY <1>4, <1>7, <1>18, <1>25 DEF GotLastChunk, Key
  <2>2. /\ chunks' \in [Sides -> [Ids -> Collected]] /\ chunks'[side][c] = Nothing
        /\ \A side2 \in Sides, d \in Ids : side2 # side \/ d # c => chunks'[side2][d] = chunks[side2][d]
    BY <1>6, <1>9, <1>17, <2>1
  <2>3. PICK r : r = Append(received[side], b)
    OBVIOUS
  <2>4. r \in Seq(Seq(Sends \X Nat))
    BY <1>9, <1>14, <2>3
  <2>5. received' = [received EXCEPT ![side] = r]
    BY <1>16, <2>1, <2>3
  <2>6. /\ received' \in [Sides -> Seq(Seq(Sends \X Nat))] /\ received'[side] = Append(received[side], got.buffers)
        /\ received'[From[s]] = received[From[s]]
    BY <1>9, <1>16, <1>20, <2>3, <2>4, <2>5
  <2>7. /\ chunks' \in [Sides -> [Ids -> Collected]] /\ chunks'[side][chunk[s]] = Nothing
        /\ \A side2 \in Sides, d \in Ids : side2 # side \/ d # chunk[s] => chunks'[side2][d] = chunks[side2][d]
    BY <1>5, <2>2
  <2>8. got.loaded = Bytes[s]
    BY <2>1
  <2> QED
    BY <1>21, <1>23, <1>26, <1>27, <2>6, <2>7, <2>8, Zenon DEF Reads
<1> QED
  BY <1>16, <1>24, <1>25

\* Nothing that matters to a reader is written: an acknowledgement arrives, writeFull() goes on
\* or returns on a connection that is gone or done with.
Quiet ==
    /\ chunk' = chunk /\ conn' = conn /\ chunkId' = chunkId /\ chunks' = chunks /\ received' = received
    /\ epoch' = epoch /\ torn' = torn
    /\ state' \in [Sends -> States] /\ offset' \in [Sends -> Nat]
    /\ \A t \in Sends : /\ state'[t] = "idle" <=> state[t] = "idle"
                        /\ state'[t] \in {"waiting", "acked"} => state[t] \in {"waiting", "acked"}
    /\ \A t \in Sends : offset'[t] = offset[t] \/ (~Live(t) /\ state[t] # "idle")
    /\ \A t \in Sends : \/ offset'[t] = offset[t]
                        \/ \E j \in Nat : At(j) < Bytes[t] /\ offset'[t] = At(j) + SliceLen(<<t, At(j)>>)
    /\ wire' \in [Sides -> Seq(Message)]
    /\ \A side \in Sides : \/ wire'[side] = wire[side]
                           \/ /\ wire[side] # <<>> /\ wire'[side] = Tail(wire[side])
                              /\ \A t : ~IsSlice(wire[side][1], t) /\ ~IsPlain(wire[side][1], t)

LEMMA QuietSteps ==
  ASSUME WireInv, \/ \E s \in Sends : Return(s) \/ NextSliceLost(s)
                  \/ \E side \in Sides : GotAck(side)
                  \/ UNCHANGED chunkVars
  PROVE  Quiet
<1>1. ChunkTypeOK /\ Offsets
  BY DEF WireInv
<1>2. ASSUME NEW s \in Sends, Return(s) PROVE Quiet
  <2>1. /\ chunk' = chunk /\ conn' = conn /\ chunkId' = chunkId /\ chunks' = chunks /\ received' = received
        /\ epoch' = epoch /\ torn' = torn /\ wire' = wire /\ offset' = offset
        /\ state[s] = "acked" /\ state' = [state EXCEPT ![s] = "done"]
    BY <1>2 DEF Return, Acked
  <2>2. /\ state' \in [Sends -> States]
        /\ \A t \in Sends : /\ state'[t] = "idle" <=> state[t] = "idle"
                            /\ state'[t] \in {"waiting", "acked"} => state[t] \in {"waiting", "acked"}
    BY <1>1, <2>1, WireTyped DEF States
  <2> QED
    BY <1>1, <2>1, <2>2, WireTyped, Zenon DEF Quiet
<1>3. ASSUME NEW s \in Sends, NextSliceLost(s) PROVE Quiet
  <2>1. PICK n : n = offset[s] + SliceLen(<<s, offset[s]>>)
    OBVIOUS
  <2>2. /\ chunk' = chunk /\ conn' = conn /\ chunkId' = chunkId /\ chunks' = chunks /\ received' = received
        /\ epoch' = epoch /\ torn' = torn /\ wire' = wire
        /\ state[s] = "acked" /\ state' = [state EXCEPT ![s] = "waiting"]
        /\ offset' = [offset EXCEPT ![s] = n] /\ offset[s] < Bytes[s] /\ conn[s] # epoch
    BY <1>3, <2>1 DEF NextSliceLost
  <2>3. Bytes[s] \in Nat /\ offset[s] \in Nat
    BY <1>1, Settings, WireTyped
  <2>4. PICK j \in Nat : offset[s] = At(j)
    <3>1. offset[s] # Bytes[s]
      BY <2>2, <2>3
    <3> QED
      BY <1>1, <3>1 DEF Offsets
  <2>5. At(j) < Bytes[s] /\ n = At(j) + SliceLen(<<s, At(j)>>)
    BY <2>1, <2>2, <2>4
  <2>6. n \in Nat
    BY <2>5, SliceIs
  <2>7. /\ state' \in [Sends -> States]
        /\ \A t \in Sends : /\ state'[t] = "idle" <=> state[t] = "idle"
                            /\ state'[t] \in {"waiting", "acked"} => state[t] \in {"waiting", "acked"}
    BY <1>1, <2>2, WireTyped DEF States
  <2>8. offset' \in [Sends -> Nat] /\ offset'[s] = n /\ \A t \in Sends \ {s} : offset'[t] = offset[t]
    BY <1>1, <2>2, <2>6, WireTyped
  <2>9. ~Live(s) /\ state[s] # "idle"
    BY <2>2 DEF Live
  <2>10. \A t \in Sends : offset'[t] = offset[t] \/ (~Live(t) /\ state[t] # "idle")
    BY <2>8, <2>9
  <2>11. \A t \in Sends : \/ offset'[t] = offset[t]
                          \/ \E i \in Nat : At(i) < Bytes[t] /\ offset'[t] = At(i) + SliceLen(<<t, At(i)>>)
    BY <2>5, <2>8
  <2> QED
    BY <1>1, <2>2, <2>7, <2>8, <2>10, <2>11, WireTyped, Zenon DEF Quiet
<1>4. ASSUME NEW side \in Sides, GotAck(side) PROVE Quiet
  <2>1. wire[side] # <<>> /\ Head(wire[side]).type = "ack"
    BY <1>4 DEF GotAck, Arrives
  <2>2. PICK m : m = wire[side][1]
    OBVIOUS
  <2>3. m = Head(wire[side]) /\ m \in Message /\ m.type = "ack"
    BY <1>1, <2>1, <2>2, WireRead
  <2>4. m.id \in Ids
    BY <2>3 DEF Message
  <2>5. PICK s : s = acks[side][m.id]
    OBVIOUS
  <2>6. s = NoSend \/ s \in Sends
    BY <1>1, <2>4, <2>5 DEF ChunkTypeOK
  <2>7. /\ chunk' = chunk /\ conn' = conn /\ chunkId' = chunkId /\ chunks' = chunks /\ received' = received
        /\ epoch' = epoch /\ torn' = torn /\ offset' = offset
        /\ wire' = [wire EXCEPT ![side] = Tail(@)]
        /\ state' = IF s # NoSend /\ state[s] = "waiting" THEN [state EXCEPT ![s] = "acked"] ELSE state
    BY <1>4, <2>3, <2>5 DEF GotAck
  <2>8. \A t : ~IsSlice(m, t) /\ ~IsPlain(m, t)
    BY <2>3 DEF IsSlice, IsPlain
  <2>9. /\ wire' \in [Sides -> Seq(Message)] /\ wire'[side] = Tail(wire[side])
        /\ wire'[Other(side)] = wire[Other(side)]
    BY <1>1, <2>1, <2>7, WireRead
  <2>10. \A x \in Sides : x = side \/ x = Other(side)
    BY DEF Sides, Other
  <2>11. /\ state' \in [Sends -> States]
         /\ \A t \in Sends : /\ state'[t] = "idle" <=> state[t] = "idle"
                             /\ state'[t] \in {"waiting", "acked"} => state[t] \in {"waiting", "acked"}
    BY <1>1, <2>6, <2>7, WireTyped DEF States
  <2> QED
    BY <1>1, <2>1, <2>2, <2>7, <2>8, <2>9, <2>10, <2>11, WireTyped, Zenon DEF Quiet
<1>5. ASSUME UNCHANGED chunkVars PROVE Quiet
  <2>1. /\ chunk' = chunk /\ conn' = conn /\ chunkId' = chunkId /\ chunks' = chunks /\ received' = received
        /\ epoch' = epoch /\ torn' = torn /\ offset' = offset /\ wire' = wire /\ state' = state
    BY <1>5 DEF chunkVars
  <2> QED
    BY <1>1, <2>1, WireTyped, Zenon DEF Quiet
<1> QED
  BY <1>2, <1>3, <1>4, <1>5

\* A short message is written.
WritesShort(s) ==
    /\ ~Long(s) /\ state[s] = "idle"
    /\ state' \in [Sends -> States] /\ state'[s] = "done"
    /\ conn' \in [Sends -> Nat] /\ conn'[s] = epoch
    /\ \A t \in Sends \ {s} : state'[t] = state[t] /\ conn'[t] = conn[t]
    /\ wire' \in [Sides -> Seq(Message)]
    /\ wire'[To(s)] = Append(wire[To(s)], Plain(s))
    /\ wire'[From[s]] = wire[From[s]]
    /\ offset' = offset /\ chunk' = chunk /\ chunkId' = chunkId /\ chunks' = chunks /\ received' = received
    /\ epoch' = epoch /\ torn' = torn

LEMMA WritingShort ==
  ASSUME WireInv, NEW s \in Sends, WriteShort(s)
  PROVE  WritesShort(s)
<1>1. ChunkTypeOK
  BY DEF WireInv
<1>2. PICK m : m = Plain(s)
  OBVIOUS
<1>3. m \in Message
  <2>1. 0 \in ChunkIds
    BY FS_CardinalityType, ChunkAssumption DEF ChunkIds
  <2> QED
    BY <1>2, <2>1, Kinds
<1>4. /\ state[s] = "idle" /\ Bytes[s] < ChunkSize
      /\ wire' = [wire EXCEPT ![To(s)] = Append(@, m)]
      /\ state' = [state EXCEPT ![s] = "done"] /\ conn' = [conn EXCEPT ![s] = epoch]
      /\ offset' = offset /\ chunk' = chunk /\ chunkId' = chunkId /\ chunks' = chunks /\ received' = received
      /\ epoch' = epoch /\ torn' = torn
  BY <1>2 DEF WriteShort, To
<1>5. ~Long(s)
  BY <1>4, Settings DEF Long
<1>6. /\ wire' \in [Sides -> Seq(Message)] /\ wire'[To(s)] = Append(wire[To(s)], m)
      /\ wire'[From[s]] = wire[From[s]]
  <2>1. To(s) \in Sides /\ Other(To(s)) = From[s]
    BY Settings
  <2> QED
    BY <1>1, <1>3, <1>4, <2>1, WireWrite
<1>7. /\ state' \in [Sends -> States] /\ state'[s] = "done"
      /\ conn' \in [Sends -> Nat] /\ conn'[s] = epoch
      /\ \A t \in Sends \ {s} : state'[t] = state[t] /\ conn'[t] = conn[t]
  BY <1>1, <1>4, WireTyped DEF States
<1> QED
  BY <1>2, <1>4, <1>5, <1>6, <1>7, Zenon DEF WritesShort

\* A short message arrives.
ReadsShort(side, s) ==
    /\ ~Long(s) /\ To(s) = side /\ state[s] # "idle"
    /\ wire[side] # <<>> /\ IsPlain(wire[side][1], s) /\ \A t : ~IsSlice(wire[side][1], t)
    /\ wire' \in [Sides -> Seq(Message)]
    /\ wire'[side] = Tail(wire[side]) /\ wire'[From[s]] = wire[From[s]]
    /\ received' \in [Sides -> Seq(Seq(Sends \X Nat))]
    /\ received'[side] = Append(received[side], <<<<s, 0>>>>)
    /\ received'[From[s]] = received[From[s]]
    /\ state' = state /\ offset' = offset /\ chunk' = chunk /\ conn' = conn /\ chunkId' = chunkId
    /\ chunks' = chunks /\ epoch' = epoch /\ torn' = torn

LEMMA ReadingShort ==
  ASSUME WireInv, NEW side \in Sides, GotPlain(side)
  PROVE  \E s \in Sends : ReadsShort(side, s)
<1>1. ChunkTypeOK /\ Sent
  BY DEF WireInv
<1>2. wire[side] # <<>> /\ Head(wire[side]).type = "plain"
  BY DEF GotPlain, Arrives
<1>3. PICK m : m = wire[side][1]
  OBVIOUS
<1>4. m = Head(wire[side]) /\ m \in Message /\ m.type = "plain" /\ 1 \in DOMAIN wire[side]
  BY <1>1, <1>2, <1>3, WireRead
<1>5. OnWire(side, m)
  BY <1>1, <1>3, <1>4 DEF Sent
<1>6. \A s \in Sends : m # ChunkAck(Id[s]) /\ \A o : m # ChunkOf(s, chunk[s], o)
  BY <1>4 DEF ChunkOf, ChunkAck
<1>7. PICK s \in Sends : m = Plain(s) /\ ~Long(s) /\ To(s) = side /\ state[s] # "idle"
  BY <1>5, <1>6, Zenon DEF OnWire
<1>8. m.send = s /\ IsPlain(m, s) /\ \A t : ~IsSlice(m, t)
  BY <1>4, <1>7 DEF Plain, IsPlain, IsSlice
<1>9. /\ wire' = [wire EXCEPT ![side] = Tail(@)]
      /\ received' = [received EXCEPT ![side] = Append(@, <<<<s, 0>>>>)]
      /\ state' = state /\ offset' = offset /\ chunk' = chunk /\ conn' = conn /\ chunkId' = chunkId
      /\ chunks' = chunks /\ epoch' = epoch /\ torn' = torn
  BY <1>4, <1>8 DEF GotPlain, writers
<1>10. Other(side) = From[s] /\ From[s] \in Sides /\ side # From[s]
  BY <1>7, Settings
<1>11. wire' \in [Sides -> Seq(Message)] /\ wire'[side] = Tail(wire[side]) /\ wire'[From[s]] = wire[From[s]]
  BY <1>1, <1>2, <1>9, <1>10, WireRead
<1>12. PICK b : b = <<<<s, 0>>>>
  OBVIOUS
<1>13. b \in Seq(Sends \X Nat)
  BY <1>12
<1>14. /\ received' \in [Sides -> Seq(Seq(Sends \X Nat))]
       /\ received'[side] = Append(received[side], b)
       /\ received'[From[s]] = received[From[s]]
  <2>1. received \in [Sides -> Seq(Seq(Sends \X Nat))]
    BY <1>1 DEF ChunkTypeOK
  <2>2. PICK r : r = Append(received[side], b)
    OBVIOUS
  <2>3. r \in Seq(Seq(Sends \X Nat))
    BY <1>13, <2>1, <2>2
  <2>4. received' = [received EXCEPT ![side] = r]
    BY <1>9, <1>12, <2>2
  <2> QED
    BY <1>10, <2>1, <2>2, <2>3, <2>4
<1>15. ReadsShort(side, s)
  BY <1>2, <1>3, <1>7, <1>8, <1>9, <1>11, <1>12, <1>14, Zenon DEF ReadsShort
<1> QED
  BY <1>15

-----------------------------------------------------------------------------
(* The writers and the wires                                               *)

LEMMA OnceAppend ==
  ASSUME NEW q \in Seq(Message), NEW m \in Message, Once(q),
         \A t \in Sends : IsPlain(m, t) => \A k \in DOMAIN q : ~IsPlain(q[k], t)
  PROVE  Once(Append(q, m))
<1> DEFINE r == Append(q, m)
<1>1. /\ DOMAIN q = 1 .. Len(q) /\ DOMAIN r = 1 .. Len(q) + 1 /\ Len(q) \in Nat
      /\ \A k \in 1 .. Len(q) : r[k] = q[k]
      /\ r[Len(q) + 1] = m
  BY AppendProperties
<1> HIDE DEF r
<1>2. \A k \in DOMAIN r : (k \in DOMAIN q /\ r[k] = q[k]) \/ (k = Len(q) + 1 /\ r[k] = m)
  BY <1>1
<1> SUFFICES ASSUME NEW t \in Sends, NEW k \in DOMAIN r, NEW l \in DOMAIN r, IsPlain(r[k], t), IsPlain(r[l], t)
             PROVE  k = l
  BY Zenon DEF Once, r
<1>3. CASE k \in DOMAIN q /\ r[k] = q[k] /\ l \in DOMAIN q /\ r[l] = q[l]
  BY <1>3, Zenon DEF Once
<1>4. CASE k = Len(q) + 1 /\ r[k] = m /\ l \in DOMAIN q /\ r[l] = q[l]
  BY <1>4, Zenon
<1>5. CASE l = Len(q) + 1 /\ r[l] = m /\ k \in DOMAIN q /\ r[k] = q[k]
  BY <1>5, Zenon
<1> QED
  BY <1>2, <1>3, <1>4, <1>5, Zenon

LEMMA OnceTail ==
  ASSUME NEW q \in Seq(Message), q # <<>>, Once(q)
  PROVE  Once(Tail(q)) /\ \A t \in Sends : IsPlain(q[1], t) => \A k \in DOMAIN Tail(q) : ~IsPlain(Tail(q)[k], t)
<1> DEFINE r == Tail(q)
<1>1. /\ DOMAIN q = 1 .. Len(q) /\ DOMAIN r = 1 .. Len(q) - 1 /\ Len(q) \in Nat \ {0}
      /\ \A k \in 1 .. Len(q) - 1 : r[k] = q[k + 1]
  BY TailAt
<1> HIDE DEF r
<1>2. \A k \in DOMAIN r : k \in Int /\ k + 1 \in DOMAIN q /\ r[k] = q[k + 1] /\ k + 1 # 1 /\ 1 \in DOMAIN q
  BY <1>1
<1>3. ASSUME NEW t \in Sends, NEW k \in DOMAIN r, NEW l \in DOMAIN r, IsPlain(r[k], t), IsPlain(r[l], t)
      PROVE  k = l
  <2>1. k + 1 = l + 1
    BY <1>2, <1>3, Zenon DEF Once
  <2> QED
    BY <1>2, <2>1
<1>4. ASSUME NEW t \in Sends, IsPlain(q[1], t), NEW k \in DOMAIN r, IsPlain(r[k], t)
      PROVE  FALSE
  <2>1. k + 1 = 1
    BY <1>2, <1>4, Zenon DEF Once
  <2> QED
    BY <1>2, <2>1
<1> QED
  BY <1>3, <1>4, Zenon DEF Once, r

LEMMA OnWireStays ==
  ASSUME \A t \in Sends : state[t] # "idle" => state'[t] # "idle",
         \A t \in Sends : Live(t) => Live(t)' /\ chunk'[t] = chunk[t],
         NEW side, NEW m, OnWire(side, m)
  PROVE  OnWire(side, m)'
<1>1. CASE \E s \in Sends : m = Plain(s) /\ ~Long(s) /\ To(s) = side /\ state[s] # "idle"
  <2>1. PICK s \in Sends : m = Plain(s) /\ ~Long(s) /\ To(s) = side /\ state[s] # "idle"
    BY <1>1
  <2> QED
    BY <2>1, Zenon DEF OnWire, Plain, Long, To, Other
<1>2. CASE \E s \in Sends, o \in Nat : m = ChunkOf(s, chunk[s], o) /\ Live(s) /\ To(s) = side /\ o < Bytes[s]
  <2>1. PICK s \in Sends, o \in Nat : m = ChunkOf(s, chunk[s], o) /\ Live(s) /\ To(s) = side /\ o < Bytes[s]
    BY <1>2
  <2>2. Live(s)' /\ m = ChunkOf(s, chunk'[s], o)
    BY <2>1, Zenon
  <2> QED
    BY <2>1, <2>2, Zenon DEF OnWire, ChunkOf, To, Other
<1>3. CASE \E s \in Sends : m = ChunkAck(Id[s]) /\ Long(s) /\ From[s] = side
  BY <1>3, Zenon DEF OnWire, ChunkAck, Long
<1> QED
  BY <1>1, <1>2, <1>3, Zenon DEF OnWire

\* A wire keeps its messages, loses the first one, or gets one more.
WireStep(side) ==
    \/ wire'[side] = wire[side]
    \/ wire[side] # <<>> /\ wire'[side] = Tail(wire[side])
    \/ \E m \in Message : /\ wire'[side] = Append(wire[side], m) /\ OnWire(side, m)'
                          /\ \A t \in Sends : IsPlain(m, t) => \A k \in DOMAIN wire[side] : ~IsPlain(wire[side][k], t)

LEMMA SentFrame ==
  ASSUME WireInv,
         \A t \in Sends : state[t] # "idle" => state'[t] # "idle",
         \A t \in Sends : Live(t) => Live(t)' /\ chunk'[t] = chunk[t],
         \A side \in Sides : WireStep(side)
  PROVE  Sent'
<1>1. ChunkTypeOK /\ Sent
  BY DEF WireInv
<1>2. ASSUME NEW side \in Sides
      PROVE  Once(wire'[side]) /\ \A k \in DOMAIN wire'[side] : (\E l \in DOMAIN wire[side] : wire'[side][k] = wire[side][l])
                                                                \/ \E m : wire'[side][k] = m /\ OnWire(side, m)'
  <2>1. PICK q : q = wire[side]
    OBVIOUS
  <2>2. PICK r : r = wire'[side]
    OBVIOUS
  <2>3. q \in Seq(Message) /\ Once(q)
    BY <1>1, <2>1, WireTyped DEF Sent
  <2>4. Once(r) /\ \A k \in DOMAIN r : (\E l \in DOMAIN q : r[k] = q[l]) \/ \E m : r[k] = m /\ OnWire(side, m)'
    <3>1. CASE r = q
      BY <2>3, <3>1, Zenon
    <3>2. CASE q # <<>> /\ r = Tail(q)
      <4>1. \A k \in DOMAIN r : k + 1 \in DOMAIN q /\ r[k] = q[k + 1]
        BY <2>3, <3>2, TailAt
      <4>2. Once(r)
        BY <2>3, <3>2, OnceTail
      <4> QED
        BY <4>1, <4>2, Zenon
    <3>3. CASE \E m \in Message : /\ r = Append(q, m) /\ OnWire(side, m)'
                                  /\ \A t \in Sends : IsPlain(m, t) => \A k \in DOMAIN q : ~IsPlain(q[k], t)
      <4>1. PICK m \in Message : /\ r = Append(q, m) /\ OnWire(side, m)'
                                 /\ \A t \in Sends : IsPlain(m, t) => \A k \in DOMAIN q : ~IsPlain(q[k], t)
        BY <3>3
      <4>2. \A k \in DOMAIN r : (k \in DOMAIN q /\ r[k] = q[k]) \/ r[k] = m
        BY <2>3, <4>1, AppendProperties
      <4>3. Once(r)
        BY <2>3, <4>1, OnceAppend
      <4> QED
        BY <4>1, <4>2, <4>3, Zenon
    <3>4. WireStep(side)
      OBVIOUS
    <3> QED
      BY <2>1, <2>2, <3>1, <3>2, <3>3, <3>4, Zenon DEF WireStep
  <2> QED
    BY <2>1, <2>2, <2>4, Zenon
<1>3. ASSUME NEW side \in Sides, NEW m, \E k \in DOMAIN wire'[side] : wire'[side][k] = m
      PROVE  OnWire(side, m)'
  <2>1. CASE \E l \in DOMAIN wire[side] : wire[side][l] = m
    <3>1. OnWire(side, m)
      BY <1>1, <2>1, Zenon DEF Sent
    <3> QED
      BY <3>1, OnWireStays
  <2>2. CASE ~ \E l \in DOMAIN wire[side] : wire[side][l] = m
    BY <1>2, <1>3, <2>2, Zenon
  <2> QED
    BY <2>1, <2>2
<1> QED
  BY <1>2, <1>3, Zenon DEF Sent, Once, IsPlain

LEMMA NumberedFrame ==
  ASSUME Numbered, chunkId' = chunkId,
         \A t \in Sends : (Started(t)' <=> Started(t)) /\ (Live(t)' <=> Live(t)) /\ (Live(t) => chunk'[t] = chunk[t])
  PROVE  Numbered'
<1>1. \A side \in Sides : Begun(side)' = Begun(side)
  BY DEF Begun
<1>2. \A side \in Sides : chunkId'[side] <= Before[side] + Cardinality(Begun(side)')
  BY <1>1 DEF Numbered
<1>3. \A s \in Sends : Live(s)' => chunk'[s] < chunkId'[From[s]]
  BY DEF Numbered
<1>4. \A s, t \in Sends : Live(s)' /\ Live(t)' /\ From[s] = From[t] /\ chunk'[s] = chunk'[t] => s = t
  BY Zenon DEF Numbered
<1> QED
  BY <1>2, <1>3, <1>4 DEF Numbered

\* There are enough numbers.
LEMMA NumbersFit ==
  ASSUME NEW side \in Sides, NEW n \in Nat, NEW B \in SUBSET Sends, n <= Before[side] + Cardinality(B)
  PROVE  n \in ChunkIds
<1>1. IsFiniteSet(Sends)
  BY ChunkAssumption
<1>2. Cardinality(B) \in Nat /\ Cardinality(Sends) \in Nat /\ Cardinality(B) <= Cardinality(Sends)
  BY <1>1, FS_Subset, FS_CardinalityType
<1>3. Before["client"] \in Nat /\ Before["server"] \in Nat /\ (side = "client" \/ side = "server")
  BY ChunkAssumption DEF Sides
<1> QED
  BY <1>2, <1>3 DEF ChunkIds

\* What is registered are calls.
LEMMA AcksTyped ==
  ASSUME ChunkTypeOK, [ChunkNext]_chunkVars
  PROVE  acks' \in [Sides -> [Ids -> Sends \cup {NoSend}]]
<1>1. acks \in [Sides -> [Ids -> Sends \cup {NoSend}]]
  BY DEF ChunkTypeOK
<1>2. ASSUME NEW side \in Sides, NEW i, NEW s \in Sends \cup {NoSend}, acks' = [acks EXCEPT ![side][i] = s]
      PROVE  acks' \in [Sides -> [Ids -> Sends \cup {NoSend}]]
  <2>1. PICK f : f = [acks[side] EXCEPT ![i] = s]
    OBVIOUS
  <2>2. f \in [Ids -> Sends \cup {NoSend}]
    BY <1>1, <2>1
  <2>3. acks' = [acks EXCEPT ![side] = f]
    BY <1>2, <2>1
  <2> QED
    BY <1>1, <2>2, <2>3
<1>3. \A s \in Sends : From[s] \in Sides
  BY Settings
<1>4. ASSUME NEW s \in Sends, Step(s)
      PROVE  acks' \in [Sides -> [Ids -> Sends \cup {NoSend}]]
  <2>1. \/ acks' = acks
        \/ acks' = [acks EXCEPT ![From[s]][Id[s]] = s]
        \/ acks' = [acks EXCEPT !["client"][Id[s]] = s]
    BY <1>4 DEF Step, WriteShort, WriteLong, NextSlice, Return, NextSliceLost, WriteSlice
  <2> QED
    BY <1>1, <1>2, <1>3, <2>1 DEF Sides
<1>5. ASSUME NEW side \in Sides, Got(side)
      PROVE  acks' \in [Sides -> [Ids -> Sends \cup {NoSend}]]
  <2>1. acks' = acks \/ \E i : acks' = [acks EXCEPT ![side][i] = NoSend]
    BY <1>5 DEF Got, GotPlain, GotAck, GotChunk, GotLastChunk
  <2> QED
    BY <1>1, <1>2, <2>1
<1>6. CASE Reconnect
  <2>1. acks' = [acks EXCEPT !["server"] = [i \in Ids |-> NoSend]]
    BY <1>6 DEF Reconnect
  <2> QED
    BY <1>1, <2>1
<1>7. CASE UNCHANGED chunkVars
  BY <1>1, <1>7 DEF chunkVars
<1> QED
  BY <1>4, <1>5, <1>6, <1>7 DEF ChunkNext

\* The step of an offset.
LEMMA OffsetStep ==
  ASSUME NEW s \in Sends, NEW j \in Nat, At(j) < Bytes[s], NEW n, n = At(j) + SliceLen(<<s, At(j)>>)
  PROVE  n \in Nat /\ n > 0 /\ n <= Bytes[s] /\ (n = Bytes[s] \/ \E i \in Nat : n = At(i))
<1>1. At(j) \in Nat /\ n \in Nat /\ At(j) < n /\ n <= Bytes[s] /\ (n = Bytes[s] \/ n = At(j + 1))
  BY SliceIs, Multiples
<1>2. n > 0
  <2> HIDE DEF At
  <2> QED
    BY <1>1
<1> QED
  BY <1>1, <1>2, j + 1 \in Nat

\* The reader of one side is replaced, or keeps what it has.
LEMMA ReadersTyped ==
  ASSUME ChunkTypeOK
  PROVE  /\ chunks \in [Sides -> [Ids -> Collected]] /\ received \in [Sides -> Seq(Seq(Sends \X Nat))]
         /\ epoch \in 0 .. MaxBreaks /\ torn \in BOOLEAN
BY DEF ChunkTypeOK

LEMMA WireQuiet ==
  ASSUME WireInv, Quiet, [ChunkNext]_chunkVars
  PROVE  WireInv'
<1>1. ChunkTypeOK /\ Numbered /\ Offsets
  BY DEF WireInv
<1>2. /\ chunk' = chunk /\ conn' = conn /\ chunkId' = chunkId /\ chunks' = chunks /\ received' = received
      /\ epoch' = epoch /\ torn' = torn
      /\ state' \in [Sends -> States] /\ offset' \in [Sends -> Nat] /\ wire' \in [Sides -> Seq(Message)]
  BY DEF Quiet
<1>3. \A t \in Sends : /\ state'[t] = "idle" <=> state[t] = "idle"
                       /\ state'[t] \in {"waiting", "acked"} => state[t] \in {"waiting", "acked"}
  BY DEF Quiet
<1>4. \A t \in Sends : (Started(t)' <=> Started(t)) /\ (Live(t)' <=> Live(t)) /\ (Live(t) => chunk'[t] = chunk[t])
  BY <1>2, <1>3, Zenon DEF Started, Live, Long
<1>5. Numbered'
  BY <1>1, <1>2, <1>4, NumberedFrame
<1>6. ASSUME NEW t \in Sends
      PROVE  /\ offset'[t] <= Bytes[t]
             /\ offset'[t] = Bytes[t] \/ \E j \in Nat : offset'[t] = At(j)
             /\ Started(t) => offset'[t] > 0
             /\ state[t] = "idle" => offset'[t] = 0
             /\ state'[t] \in {"waiting", "acked"} => Long(t)
  <2>1. CASE offset'[t] = offset[t]
    BY <1>1, <1>3, <2>1, WireTyped DEF Offsets
  <2>2. CASE offset'[t] # offset[t]
    <3>1. state[t] # "idle"
      BY <2>2 DEF Quiet
    <3>2. PICK j \in Nat : At(j) < Bytes[t] /\ offset'[t] = At(j) + SliceLen(<<t, At(j)>>)
      BY <2>2 DEF Quiet
    <3>3. offset'[t] > 0 /\ offset'[t] <= Bytes[t] /\ (offset'[t] = Bytes[t] \/ \E i \in Nat : offset'[t] = At(i))
      BY <3>2, OffsetStep
    <3> QED
      BY <1>1, <1>3, <3>1, <3>3 DEF Offsets
  <2> QED
    BY <2>1, <2>2
<1>7. Offsets'
  BY <1>3, <1>4, <1>6, Zenon DEF Offsets, Long, At
<1>8. ChunkTypeOK'
  <2>1. acks' \in [Sides -> [Ids -> Sends \cup {NoSend}]]
    BY <1>1, AcksTyped
  <2> QED
    BY <1>1, <1>2, <1>6, <2>1 DEF ChunkTypeOK, States
<1>9. \A side \in Sides : WireStep(side)
  BY Zenon DEF Quiet, WireStep
<1>10. Sent'
  <2>1. \A t \in Sends : state[t] # "idle" => state'[t] # "idle"
    BY <1>3
  <2> QED
    BY <1>4, <1>9, <2>1, SentFrame
<1> QED
  BY <1>5, <1>7, <1>8, <1>10, Zenon DEF WireInv

\* Everything but the wires and the readers is left alone.
LEMMA WireArrival ==
  ASSUME WireInv, [ChunkNext]_chunkVars,
         state' = state, offset' = offset, chunk' = chunk, conn' = conn, chunkId' = chunkId, epoch' = epoch, torn' = torn,
         chunks' \in [Sides -> [Ids -> Collected]], received' \in [Sides -> Seq(Seq(Sends \X Nat))],
         wire' \in [Sides -> Seq(Message)], \A side \in Sides : WireStep(side)
  PROVE  WireInv'
<1>1. ChunkTypeOK /\ Numbered /\ Offsets
  BY DEF WireInv
<1>2. \A t \in Sends : (Started(t)' <=> Started(t)) /\ (Live(t)' <=> Live(t)) /\ (Live(t) => chunk'[t] = chunk[t])
  BY Zenon DEF Started, Live, Long
<1>3. Numbered'
  BY <1>1, <1>2, NumberedFrame
<1>4. Offsets'
  BY <1>1, <1>2, Zenon DEF Offsets, Long, At
<1>5. ChunkTypeOK'
  <2>1. acks' \in [Sides -> [Ids -> Sends \cup {NoSend}]]
    BY <1>1, AcksTyped
  <2> QED
    BY <1>1, <2>1 DEF ChunkTypeOK
<1>6. Sent'
  <2>1. \A t \in Sends : state[t] # "idle" => state'[t] # "idle"
    OBVIOUS
  <2> QED
    BY <1>2, <2>1, SentFrame
<1> QED
  BY <1>3, <1>4, <1>5, <1>6, Zenon DEF WireInv

LEMMA EitherSide ==
  ASSUME NEW s \in Sends, NEW side \in Sides
  PROVE  side = To(s) \/ side = From[s]
BY Settings DEF Sides, To, Other

LEMMA WireReads ==
  ASSUME WireInv, NEW side \in Sides, NEW s \in Sends, NEW o \in Nat, NEW got, Reads(side, s, o, got), [ChunkNext]_chunkVars
  PROVE  WireInv'
<1>1. /\ To(s) = side /\ wire[side] # <<>> /\ wire'[side] = Tail(wire[side])
      /\ wire'[From[s]] = Append(wire[From[s]], ChunkAck(Id[s])) /\ Live(s)
      /\ state' = state /\ offset' = offset /\ chunk' = chunk /\ conn' = conn /\ chunkId' = chunkId
      /\ epoch' = epoch /\ torn' = torn
      /\ chunks' \in [Sides -> [Ids -> Collected]] /\ received' \in [Sides -> Seq(Seq(Sends \X Nat))]
      /\ wire' \in [Sides -> Seq(Message)]
  BY DEF Reads
<1>2. chunk[s] \in ChunkIds
  BY WireTyped DEF WireInv
<1>3. PICK m : m = ChunkAck(Id[s])
  OBVIOUS
<1>4. m \in Message /\ \A t : ~IsPlain(m, t)
  BY <1>2, <1>3, Kinds
<1>5. OnWire(From[s], m)'
  BY <1>1, <1>3, Zenon DEF OnWire, Live, Started, Long, ChunkAck
<1>6. WireStep(From[s])
  BY <1>1, <1>3, <1>4, <1>5, Zenon DEF WireStep
<1>7. WireStep(side)
  BY <1>1, Zenon DEF WireStep
<1>8. \A x \in Sides : WireStep(x)
  BY <1>1, <1>6, <1>7, EitherSide
<1> QED
  BY <1>1, <1>8, WireArrival

LEMMA WireReadsShort ==
  ASSUME WireInv, NEW side \in Sides, NEW s \in Sends, ReadsShort(side, s), [ChunkNext]_chunkVars
  PROVE  WireInv'
<1>1. /\ To(s) = side /\ wire[side] # <<>> /\ wire'[side] = Tail(wire[side])
      /\ wire'[From[s]] = wire[From[s]]
      /\ state' = state /\ offset' = offset /\ chunk' = chunk /\ conn' = conn /\ chunkId' = chunkId
      /\ epoch' = epoch /\ torn' = torn /\ chunks' = chunks
      /\ received' \in [Sides -> Seq(Seq(Sends \X Nat))]
      /\ wire' \in [Sides -> Seq(Message)]
  BY DEF ReadsShort
<1>2. chunks' \in [Sides -> [Ids -> Collected]]
  BY <1>1 DEF WireInv, ChunkTypeOK
<1>3. WireStep(From[s]) /\ WireStep(side)
  BY <1>1, Zenon DEF WireStep
<1>4. \A x \in Sides : WireStep(x)
  BY <1>1, <1>3, EitherSide
<1> QED
  BY <1>1, <1>2, <1>4, WireArrival

LEMMA WireWritesShort ==
  ASSUME WireInv, NEW s \in Sends, WritesShort(s), [ChunkNext]_chunkVars
  PROVE  WireInv'
<1>1. ChunkTypeOK /\ Numbered /\ Offsets /\ Sent
  BY DEF WireInv
<1>2. /\ ~Long(s) /\ state[s] = "idle"
      /\ state' \in [Sends -> States] /\ state'[s] = "done"
      /\ conn' \in [Sends -> Nat] /\ conn'[s] = epoch
      /\ \A t \in Sends \ {s} : state'[t] = state[t] /\ conn'[t] = conn[t]
      /\ wire' \in [Sides -> Seq(Message)]
      /\ wire'[To(s)] = Append(wire[To(s)], Plain(s))
      /\ wire'[From[s]] = wire[From[s]]
      /\ offset' = offset /\ chunk' = chunk /\ chunkId' = chunkId /\ chunks' = chunks /\ received' = received
      /\ epoch' = epoch /\ torn' = torn
  BY DEF WritesShort
<1>3. \A t \in Sends : (Started(t)' <=> Started(t)) /\ (Live(t)' <=> Live(t)) /\ (Live(t) => chunk'[t] = chunk[t])
  BY <1>2, Zenon DEF Started, Live, Long
<1>4. Numbered'
  BY <1>1, <1>2, <1>3, NumberedFrame
<1>5. Offsets'
  <2>1. \A t \in Sends : /\ state'[t] = "idle" => state[t] = "idle"
                         /\ state'[t] \in {"waiting", "acked"} => state[t] \in {"waiting", "acked"}
    BY <1>2
  <2> QED
    BY <1>1, <1>2, <1>3, <2>1, Zenon DEF Offsets, Long, At
<1>6. ChunkTypeOK'
  <2>1. acks' \in [Sides -> [Ids -> Sends \cup {NoSend}]]
    BY <1>1, AcksTyped
  <2>2. ASSUME NEW t \in Sends PROVE conn'[t] <= epoch
    <3>1. epoch \in Nat /\ conn[t] <= epoch
      BY <1>1, WireTyped
    <3>2. conn'[t] = epoch \/ conn'[t] = conn[t]
      BY <1>2
    <3> QED
      BY <3>1, <3>2
  <2> QED
    BY <1>1, <1>2, <2>1, <2>2 DEF ChunkTypeOK, States
<1>7. PICK m : m = Plain(s)
  OBVIOUS
<1>8. PICK q : q = wire[To(s)]
  OBVIOUS
<1>9. m \in Message /\ \A t : IsPlain(m, t) => t = s
  <2>1. chunk[s] \in ChunkIds
    BY <1>1, WireTyped
  <2> QED
    BY <1>7, <2>1, Kinds
<1>10. \A k \in DOMAIN q : ~IsPlain(q[k], s)
  <2> SUFFICES ASSUME NEW k \in DOMAIN q, IsPlain(q[k], s) PROVE FALSE
    OBVIOUS
  <2>1. PICK p : p = q[k]
    OBVIOUS
  <2>2. OnWire(To(s), p)
    BY <1>1, <1>8, <2>1, Settings, Zenon DEF Sent
  <2>3. p.type = "plain" /\ p.send = s
    BY <2>1 DEF IsPlain
  <2>4. \A t \in Sends : p # ChunkAck(Id[t]) /\ \A o : p # ChunkOf(t, chunk[t], o)
    BY <2>3 DEF ChunkAck, ChunkOf
  <2>5. PICK t \in Sends : p = Plain(t) /\ state[t] # "idle"
    BY <2>2, <2>4, Zenon DEF OnWire
  <2>6. t = s
    BY <2>3, <2>5 DEF Plain
  <2> QED
    BY <1>2, <2>5, <2>6
<1>11. OnWire(To(s), m)'
  <2>1. ~Long(s)' /\ (To(s) = To(s))' /\ state'[s] # "idle" /\ m = Plain(s)'
    BY <1>2, <1>7 DEF Long, To, Plain
  <2> QED
    BY <2>1, Zenon DEF OnWire
<1>12. WireStep(To(s))
  BY <1>2, <1>7, <1>8, <1>9, <1>10, <1>11, Zenon DEF WireStep
<1>13. WireStep(From[s])
  BY <1>2, Zenon DEF WireStep
<1>14. \A x \in Sides : WireStep(x)
  BY <1>12, <1>13, EitherSide
<1>15. Sent'
  <2>1. \A t \in Sends : state[t] # "idle" => state'[t] # "idle"
    BY <1>2
  <2> QED
    BY <1>3, <1>14, <2>1, SentFrame
<1> QED
  BY <1>4, <1>5, <1>6, <1>15, Zenon DEF WireInv

LEMMA WireReconnects ==
  ASSUME WireInv, Reconnect
  PROVE  WireInv'
<1>1. ChunkTypeOK /\ Offsets
  BY DEF WireInv
<1>2. /\ epoch < MaxBreaks /\ epoch' = epoch + 1
      /\ wire' = [side \in Sides |-> <<>>]
      /\ chunkId' = [side \in Sides |-> 0]
      /\ acks' = [acks EXCEPT !["server"] = [i \in Ids |-> NoSend]]
      /\ chunks' = [chunks EXCEPT !["server"] = [c \in Ids |-> Nothing]]
      /\ torn' = (torn \/ \E c \in Ids : chunks["client"][c] # Nothing)
      /\ state' = state /\ offset' = offset /\ chunk' = chunk /\ conn' = conn /\ received' = received
  BY DEF Reconnect
<1>3. epoch \in Nat /\ \A t \in Sends : conn[t] \in Nat /\ conn[t] <= epoch
  BY <1>1, WireTyped
<1>4. \A t \in Sends : ~Live(t)' /\ conn'[t] <= epoch'
  BY <1>2, <1>3 DEF Live
<1>5. Offsets'
  BY <1>1, <1>2, Zenon DEF Offsets, Long, At, Started
<1>6. Numbered'
  <2>1. ASSUME NEW side \in Sides
        PROVE  chunkId'[side] <= Before[side] + Cardinality(Begun(side)')
    <3>1. PICK B : B = Begun(side)'
      OBVIOUS
    <3>2. B \subseteq Sends
      BY <3>1 DEF Begun
    <3>3. Cardinality(B) \in Nat
      BY <3>2, FS_Subset, FS_CardinalityType, ChunkAssumption
    <3>4. Before[side] \in Nat /\ chunkId'[side] = 0
      BY <1>2, ChunkAssumption DEF Sides
    <3>5. chunkId'[side] <= Before[side] + Cardinality(B)
      BY <3>3, <3>4
    <3> QED
      BY <3>1, <3>5
  <2> QED
    BY <1>4, <2>1, Zenon DEF Numbered
<1>7. Sent'
  <2>1. \A side \in Sides : DOMAIN wire'[side] = {}
    BY <1>2
  <2> QED
    BY <2>1, Zenon DEF Sent, Once
<1>8. ChunkTypeOK'
  <2>1. wire' \in [Sides -> Seq(Message)]
    BY <1>2
  <2>2. chunkId' \in [Sides -> ChunkIds]
    <3>1. 0 \in ChunkIds
      BY FS_CardinalityType, ChunkAssumption DEF ChunkIds
    <3> QED
      BY <1>2, <3>1
  <2>3. chunks' \in [Sides -> [Ids -> Collected]]
    <3>1. Nothing \in Collected
      BY DEF Nothing, Collected
    <3>2. [c \in Ids |-> Nothing] \in [Ids -> Collected]
      BY <3>1
    <3> QED
      BY <1>1, <1>2, <3>2, ReadersTyped
  <2>4. acks' \in [Sides -> [Ids -> Sends \cup {NoSend}]]
    BY <1>1, <1>2 DEF ChunkTypeOK
  <2>5. epoch' \in 0 .. MaxBreaks /\ torn' \in BOOLEAN
    BY <1>1, <1>2, <1>3, ReadersTyped, ChunkAssumption
  <2> QED
    BY <1>1, <1>2, <1>4, <2>1, <2>2, <2>3, <2>4, <2>5 DEF ChunkTypeOK
<1> QED
  BY <1>5, <1>6, <1>7, <1>8, Zenon DEF WireInv

\* The first slice takes the next number.
LEMMA NumberTaken ==
  ASSUME WireInv, NEW s \in Sends, NEW c \in ChunkIds, NEW j \in Nat, Writes(s, c, j), state[s] = "idle"
  PROVE  Numbered' /\ chunkId' \in [Sides -> ChunkIds]
<1>1. ChunkTypeOK /\ Numbered
  BY DEF WireInv
<1>2. /\ Long(s) /\ state'[s] = "waiting" /\ chunk'[s] = c /\ conn'[s] = epoch /\ epoch' = epoch
      /\ \A t \in Sends \ {s} : state'[t] = state[t] /\ chunk'[t] = chunk[t] /\ conn'[t] = conn[t]
      /\ c = chunkId[From[s]] /\ chunkId' = [chunkId EXCEPT ![From[s]] = @ + 1]
  BY DEF Writes
<1>3. From[s] \in Sides /\ c \in Nat /\ \A t \in Sends : chunk[t] \in Nat
  <2>1. \A t \in Sends : chunk[t] \in ChunkIds
    BY <1>1, WireTyped
  <2>2. ChunkIds \subseteq Nat
    BY DEF ChunkIds
  <2> QED
    BY <2>1, <2>2, Settings
<1>4. /\ DOMAIN chunkId' = Sides /\ chunkId'[From[s]] = c + 1
      /\ \A side \in Sides \ {From[s]} : chunkId'[side] = chunkId[side]
  BY <1>1, <1>2, <1>3, WireTyped
<1>5. ASSUME NEW t \in Sends, t # s
      PROVE  (Started(t)' <=> Started(t)) /\ (Live(t)' <=> Live(t))
  <2>1. state'[t] = state[t] /\ conn'[t] = conn[t]
    BY <1>2, <1>5
  <2> QED
    BY <1>2, <2>1, Zenon DEF Started, Live, Long
<1>6. Started(s)' /\ ~Started(s) /\ Live(s)' /\ ~Live(s)
  BY <1>2 DEF Started, Live, Long
<1>7. ASSUME NEW side \in Sides
      PROVE  /\ IsFiniteSet(Begun(side)) /\ Begun(side)' \in SUBSET Sends
             /\ chunkId'[side] \in Nat
             /\ chunkId'[side] <= Before[side] + Cardinality(Begun(side)')
  <2>1. PICK B : B = Begun(side)
    OBVIOUS
  <2>2. PICK C : C = Begun(side)'
    OBVIOUS
  <2>3. B = {t \in Sends : From[t] = side /\ Started(t)} /\ C = {t \in Sends : From[t] = side /\ Started(t)'}
    BY <2>1, <2>2 DEF Begun
  <2>4. IsFiniteSet(B) /\ Cardinality(B) \in Nat /\ C \in SUBSET Sends
    BY <2>3, FS_Subset, FS_CardinalityType, ChunkAssumption
  <2>5. chunkId[side] <= Before[side] + Cardinality(B)
    BY <1>1, <2>1 DEF Numbered
  <2>6. Before[side] \in Nat
    BY ChunkAssumption DEF Sides
  <2>7. chunkId[side] \in Nat
    <3>1. chunkId[side] \in ChunkIds
      BY <1>1, WireTyped
    <3> QED
      BY <3>1 DEF ChunkIds
  <2>8. CASE side = From[s]
    <3>1. C = B \cup {s} /\ s \notin B
      BY <1>5, <1>6, <2>3, <2>8
    <3>2. Cardinality(C) = Cardinality(B) + 1
      BY <2>4, <3>1, FS_AddElement
    <3>3. chunkId'[side] = chunkId[side] + 1
      BY <1>2, <1>4, <2>8
    <3>4. chunkId'[side] \in Nat /\ chunkId'[side] <= Before[side] + Cardinality(C)
      BY <2>4, <2>5, <2>6, <2>7, <3>2, <3>3
    <3> QED
      BY <2>1, <2>2, <2>4, <3>4
  <2>9. CASE side # From[s]
    <3>1. C = B
      BY <1>5, <1>6, <2>3, <2>9
    <3>2. chunkId'[side] = chunkId[side]
      BY <1>4, <2>9
    <3> QED
      BY <2>1, <2>2, <2>4, <2>5, <2>7, <3>1, <3>2
  <2> QED
    BY <2>8, <2>9
<1>8. chunkId' \in [Sides -> ChunkIds]
  <2>1. \A side \in Sides : chunkId'[side] \in ChunkIds
    <3> TAKE side \in Sides
    <3>1. PICK C \in SUBSET Sends : C = Begun(side)'
      BY <1>7
    <3>2. PICK n \in Nat : n = chunkId'[side]
      BY <1>7
    <3>3. n <= Before[side] + Cardinality(C)
      BY <1>7, <3>1, <3>2
    <3> QED
      BY <3>2, <3>3, NumbersFit
  <2>2. chunkId' = [side \in Sides |-> chunkId'[side]]
    <3>1. chunkId' = [chunkId EXCEPT ![From[s]] = chunkId[From[s]] + 1]
      BY <1>2
    <3> QED
      BY <1>1, <3>1, WireTyped
  <2> QED
    BY <2>1, <2>2
<1>9. \A t \in Sends : Live(t)' => chunk'[t] < chunkId'[From[t]]
  <2> SUFFICES ASSUME NEW t \in Sends, Live(t)' PROVE chunk'[t] < chunkId'[From[t]]
    OBVIOUS
  <2>1. CASE t = s
    BY <1>2, <1>3, <1>4, <2>1
  <2>2. CASE t # s
    <3>1. chunk'[t] = chunk[t] /\ chunk[t] < chunkId[From[t]] /\ chunk[t] \in Nat /\ From[t] \in Sides
      BY <1>1, <1>2, <1>3, <1>5, <2>2, Settings DEF Numbered
    <3>2. chunkId'[From[t]] = chunkId[From[t]] \/ (chunkId[From[t]] = c /\ chunkId'[From[t]] = c + 1)
      BY <1>2, <1>4, <3>1
    <3> QED
      BY <1>3, <3>1, <3>2
  <2> QED
    BY <2>1, <2>2
<1>10. ASSUME NEW t \in Sends, t # s, Live(t)', From[t] = From[s]
       PROVE  chunk'[t] # chunk'[s]
  <2>1. chunk'[t] = chunk[t] /\ chunk[t] < c /\ chunk[t] \in Nat
    BY <1>1, <1>2, <1>3, <1>5, <1>10 DEF Numbered
  <2> QED
    BY <1>2, <1>3, <2>1
<1>11. \A t, u \in Sends : Live(t)' /\ Live(u)' /\ From[t] = From[u] /\ chunk'[t] = chunk'[u] => t = u
  <2> SUFFICES ASSUME NEW t \in Sends, NEW u \in Sends, Live(t)', Live(u)', From[t] = From[u], chunk'[t] = chunk'[u]
               PROVE  t = u
    OBVIOUS
  <2>1. CASE t = s \/ u = s
    BY <1>10, <2>1
  <2>2. CASE t # s /\ u # s
    <3>1. Live(t) /\ Live(u) /\ chunk[t] = chunk[u]
      BY <1>2, <1>5, <2>2
    <3> QED
      BY <1>1, <3>1 DEF Numbered
  <2> QED
    BY <2>1, <2>2
<1> QED
  BY <1>7, <1>8, <1>9, <1>11, Zenon DEF Numbered

\* Its sender and all others, after a slice is written.
LEMMA WritesLive ==
  ASSUME WireInv, NEW s \in Sends, NEW c \in ChunkIds, NEW j \in Nat, Writes(s, c, j)
  PROVE  /\ Live(s)' /\ Started(s)' /\ state'[s] # "idle"
         /\ \A t \in Sends \ {s} : (Started(t)' <=> Started(t)) /\ (Live(t)' <=> Live(t))
         /\ \A t \in Sends : Live(t) => Live(t)' /\ chunk'[t] = chunk[t]
         /\ state[s] = "acked" => Live(s)
<1>1. /\ Long(s) /\ state'[s] = "waiting" /\ chunk'[s] = c /\ conn'[s] = epoch /\ epoch' = epoch
      /\ \A t \in Sends \ {s} : state'[t] = state[t] /\ chunk'[t] = chunk[t] /\ conn'[t] = conn[t]
      /\ state[s] = "idle" \/ (state[s] = "acked" /\ Live(s) /\ c = chunk[s])
  BY DEF Writes
<1>2. Live(s)' /\ Started(s)'
  BY <1>1 DEF Live, Started, Long
<1>3. ASSUME NEW t \in Sends \ {s}
      PROVE  (Started(t)' <=> Started(t)) /\ (Live(t)' <=> Live(t))
  BY <1>1, Zenon DEF Started, Live, Long
<1>4. Live(s) => chunk'[s] = chunk[s]
  BY <1>1 DEF Live, Started
<1>5. state[s] = "acked" => Live(s)
  BY <1>1
<1>6. ASSUME NEW t \in Sends, Live(t) PROVE Live(t)' /\ chunk'[t] = chunk[t]
  <2>1. CASE t = s
    BY <1>2, <1>4, <1>6, <2>1
  <2>2. CASE t # s
    BY <1>1, <1>3, <1>6, <2>2
  <2> QED
    BY <2>1, <2>2
<1> QED
  BY <1>1, <1>2, <1>3, <1>5, <1>6

LEMMA WireWrites ==
  ASSUME WireInv, NEW s \in Sends, NEW c \in ChunkIds, NEW j \in Nat, Writes(s, c, j), [ChunkNext]_chunkVars
  PROVE  WireInv'
<1>1. ChunkTypeOK /\ Numbered /\ Offsets
  BY DEF WireInv
<1>2. /\ Long(s) /\ offset[s] = At(j) /\ At(j) < Bytes[s]
      /\ state' \in [Sends -> States] /\ state'[s] = "waiting"
      /\ offset' \in [Sends -> Nat] /\ offset'[s] = At(j) + SliceLen(<<s, At(j)>>)
      /\ chunk' \in [Sends -> ChunkIds] /\ chunk'[s] = c
      /\ conn' \in [Sends -> Nat] /\ conn'[s] = epoch
      /\ \A t \in Sends \ {s} : state'[t] = state[t] /\ offset'[t] = offset[t] /\ chunk'[t] = chunk[t] /\ conn'[t] = conn[t]
      /\ wire' \in [Sides -> Seq(Message)]
      /\ wire'[To(s)] = Append(wire[To(s)], ChunkOf(s, c, At(j)))
      /\ wire'[From[s]] = wire[From[s]]
      /\ chunks' = chunks /\ received' = received /\ epoch' = epoch /\ torn' = torn
  BY DEF Writes
<1>3. /\ Live(s)' /\ Started(s)'
      /\ \A t \in Sends \ {s} : (Started(t)' <=> Started(t)) /\ (Live(t)' <=> Live(t))
      /\ \A t \in Sends : Live(t) => Live(t)' /\ chunk'[t] = chunk[t]
  BY WritesLive
<1>4. Numbered' /\ chunkId' \in [Sides -> ChunkIds]
  <2>1. CASE state[s] = "idle"
    BY <2>1, NumberTaken
  <2>2. CASE state[s] # "idle"
    <3>1. state[s] = "acked" /\ Live(s) /\ c = chunk[s] /\ chunkId' = chunkId
      BY <2>2 DEF Writes
    <3>2. \A t \in Sends : (Started(t)' <=> Started(t)) /\ (Live(t)' <=> Live(t)) /\ (Live(t) => chunk'[t] = chunk[t])
      <4>1. Started(s)
        BY <3>1 DEF Live
      <4> QED
        BY <1>3, <3>1, <4>1
    <3>3. Numbered'
      BY <1>1, <3>1, <3>2, NumberedFrame
    <3> QED
      BY <1>1, <3>1, <3>3, WireTyped
  <2> QED
    BY <2>1, <2>2
<1>5. /\ offset'[s] > 0 /\ offset'[s] <= Bytes[s]
      /\ (offset'[s] = Bytes[s] \/ \E i \in Nat : offset'[s] = At(i))
  <2>1. PICK n : n = offset'[s]
    OBVIOUS
  <2>2. n = At(j) + SliceLen(<<s, At(j)>>) /\ At(j) < Bytes[s]
    BY <1>2, <2>1
  <2> QED
    BY <2>1, <2>2, OffsetStep
<1>6. Offsets'
  <2>1. ASSUME NEW t \in Sends
        PROVE  /\ offset'[t] = Bytes[t] \/ \E i \in Nat : offset'[t] = At(i)
               /\ Started(t)' => offset'[t] > 0
               /\ state'[t] = "idle" => offset'[t] = 0
               /\ state'[t] \in {"waiting", "acked"} => Long(t)
    <3>1. CASE t = s
      BY <1>2, <1>5, <3>1
    <3>2. CASE t # s
      <4>1. state'[t] = state[t] /\ offset'[t] = offset[t] /\ (Started(t)' <=> Started(t))
        BY <1>2, <1>3, <3>2
      <4> QED
        BY <1>1, <4>1 DEF Offsets
    <3> QED
      BY <3>1, <3>2
  <2> QED
    BY <2>1, Zenon DEF Offsets, Long, At
<1>7. ChunkTypeOK'
  <2>1. acks' \in [Sides -> [Ids -> Sends \cup {NoSend}]]
    BY <1>1, AcksTyped
  <2>2. ASSUME NEW t \in Sends PROVE conn'[t] <= epoch /\ offset'[t] <= Bytes[t]
    <3>1. epoch \in Nat /\ conn[t] <= epoch /\ offset[t] <= Bytes[t]
      BY <1>1, WireTyped
    <3>2. CASE t = s
      <4>1. conn'[t] = epoch
        BY <1>2, <3>2
      <4> QED
        BY <1>5, <3>1, <3>2, <4>1
    <3>3. CASE t # s
      <4>1. conn'[t] = conn[t] /\ offset'[t] = offset[t]
        BY <1>2, <3>3
      <4> QED
        BY <3>1, <4>1
    <3> QED
      BY <3>2, <3>3
  <2>3. /\ chunks' \in [Sides -> [Ids -> Collected]] /\ received' \in [Sides -> Seq(Seq(Sends \X Nat))]
        /\ epoch' \in 0 .. MaxBreaks /\ torn' \in BOOLEAN
    BY <1>1, <1>2, ReadersTyped
  <2> QED
    BY <1>2, <1>4, <2>1, <2>2, <2>3 DEF ChunkTypeOK, States
<1>8. At(j) \in Nat
  BY Multiples
<1>9. PICK m : m = ChunkOf(s, c, At(j))
  OBVIOUS
<1>10. m \in Message /\ \A t : ~IsPlain(m, t)
  BY <1>8, <1>9, Kinds
<1>11. OnWire(To(s), m)'
  <2>1. m = ChunkOf(s, chunk'[s], At(j)) /\ Live(s)' /\ To(s)' = To(s) /\ At(j) < Bytes[s]
    BY <1>2, <1>3, <1>9 DEF To, Other
  <2> QED
    BY <1>8, <2>1, Zenon DEF OnWire, ChunkOf
<1>12. WireStep(To(s))
  BY <1>2, <1>9, <1>10, <1>11, Zenon DEF WireStep
<1>13. WireStep(From[s])
  BY <1>2, Zenon DEF WireStep
<1>14. \A x \in Sides : WireStep(x)
  BY <1>12, <1>13, EitherSide
<1>15. Sent'
  <2>1. \A t \in Sends : state[t] # "idle" => state'[t] # "idle"
    BY <1>2
  <2> QED
    BY <1>3, <1>14, <2>1, SentFrame
<1> QED
  BY <1>4, <1>6, <1>7, <1>15, Zenon DEF WireInv

LEMMA WireStart ==
  ASSUME ChunkInit
  PROVE  WireInv
<1>1. /\ state = [s \in Sends |-> "idle"] /\ offset = [s \in Sends |-> 0] /\ chunk = [s \in Sends |-> 0]
      /\ conn = [s \in Sends |-> 0] /\ chunkId = Before
      /\ acks = [side \in Sides |-> [i \in Ids |-> NoSend]]
      /\ chunks = [side \in Sides |-> [c \in Ids |-> Nothing]]
      /\ wire = [side \in Sides |-> <<>>] /\ received = [side \in Sides |-> <<>>]
      /\ epoch = 0 /\ torn = FALSE
  BY DEF ChunkInit
<1>2. \A s \in Sends : ~Started(s) /\ ~Live(s)
  BY <1>1 DEF Started, Live
<1>3. /\ 0 \in ChunkIds /\ chunkId \in [Sides -> ChunkIds]
      /\ \A side \in Sides : chunkId[side] <= Before[side] + Cardinality(Begun(side))
  <2>1. Cardinality(Sends) \in Nat
    BY FS_CardinalityType, ChunkAssumption
  <2>2. Before \in [Sides -> Nat] /\ Before["client"] \in Nat /\ Before["server"] \in Nat
    BY ChunkAssumption DEF Sides
  <2>3. 0 \in ChunkIds /\ Before["client"] \in ChunkIds /\ Before["server"] \in ChunkIds
    BY <2>1, <2>2 DEF ChunkIds
  <2>4. \A side \in Sides : Before[side] \in ChunkIds
    BY <2>3 DEF Sides
  <2>5. \A side \in Sides : Begun(side) = {} /\ Cardinality(Begun(side)) = 0
    BY <1>2, FS_EmptySet DEF Begun
  <2> QED
    BY <1>1, <2>2, <2>3, <2>4, <2>5
<1>4. Numbered
  BY <1>2, <1>3 DEF Numbered
<1>5. Offsets
  <2>1. At(0) = 0 /\ 0 \in Nat
    BY Multiples
  <2> QED
    BY <1>1, <1>2, <2>1 DEF Offsets
<1>6. Sent
  <2>1. \A side \in Sides : DOMAIN wire[side] = {}
    BY <1>1
  <2> QED
    BY <2>1, Zenon DEF Sent, Once
<1>7. ChunkTypeOK
  <2>1. Nothing \in Collected
    BY DEF Nothing, Collected
  <2>2. \A s \in Sends : offset[s] <= Bytes[s]
    BY <1>1, Settings
  <2>3. chunks \in [Sides -> [Ids -> Collected]]
    BY <1>1, <2>1
  <2>4. wire \in [Sides -> Seq(Message)] /\ received \in [Sides -> Seq(Seq(Sends \X Nat))]
    BY <1>1
  <2>5. acks \in [Sides -> [Ids -> Sends \cup {NoSend}]]
    BY <1>1
  <2>6. /\ state \in [Sends -> {"idle", "waiting", "acked", "done"}] /\ offset \in [Sends -> Nat]
        /\ chunk \in [Sends -> ChunkIds] /\ conn \in [Sends -> Nat]
    BY <1>1, <1>3
  <2>7. epoch \in 0 .. MaxBreaks /\ torn \in BOOLEAN
    <3>1. epoch = 0 /\ torn = FALSE
      BY <1>1
    <3>2. MaxBreaks \in Nat
      BY ChunkAssumption
    <3>3. 0 \in 0 .. MaxBreaks
      BY <3>2
    <3>4. FALSE \in BOOLEAN
      OBVIOUS
    <3> QED
      BY <3>1, <3>3, <3>4, Zenon
  <2>8. \A s \in Sends : conn[s] <= epoch
    BY <1>1
  <2> QED
    BY <1>3, <2>2, <2>3, <2>4, <2>5, <2>6, <2>7, <2>8, Zenon DEF ChunkTypeOK
<1> QED
  BY <1>4, <1>5, <1>6, <1>7 DEF WireInv

\* What a step can be.
LEMMA Steps ==
  ASSUME WireInv, [ChunkNext]_chunkVars
  PROVE  \/ Quiet
         \/ \E s \in Sends : WritesShort(s)
         \/ \E s \in Sends, c \in ChunkIds, j \in Nat : Writes(s, c, j)
         \/ \E side \in Sides, s \in Sends : ReadsShort(side, s)
         \/ \E side \in Sides, s \in Sends, o \in Nat, got \in Collected : Reads(side, s, o, got)
         \/ Reconnect
<1>1. CASE \E s \in Sends : Step(s)
  <2>1. PICK s \in Sends : Step(s)
    BY <1>1
  <2>2. CASE WriteShort(s)
    BY <2>2, WritingShort
  <2>3. CASE WriteLong(s) \/ NextSlice(s)
    BY <2>3, Writing
  <2>4. CASE Return(s) \/ NextSliceLost(s)
    BY <2>4, QuietSteps
  <2> QED
    BY <2>1, <2>2, <2>3, <2>4, Zenon DEF Step
<1>2. CASE \E side \in Sides : Got(side)
  <2>1. PICK side \in Sides : Got(side)
    BY <1>2
  <2>2. CASE GotPlain(side)
    BY <2>2, ReadingShort
  <2>3. CASE GotAck(side)
    BY <2>3, QuietSteps
  <2>4. CASE GotChunk(side) \/ GotLastChunk(side)
    BY <2>4, Reading
  <2> QED
    BY <2>1, <2>2, <2>3, <2>4, Zenon DEF Got
<1>3. CASE Reconnect
  BY <1>3
<1>4. CASE UNCHANGED chunkVars
  BY <1>4, QuietSteps
<1> QED
  BY <1>1, <1>2, <1>3, <1>4, Zenon DEF ChunkNext

LEMMA WireNext ==
  ASSUME WireInv, [ChunkNext]_chunkVars
  PROVE  WireInv'
<1>1. CASE Quiet
  BY <1>1, WireQuiet
<1>2. CASE \E s \in Sends : WritesShort(s)
  BY <1>2, WireWritesShort
<1>3. CASE \E s \in Sends, c \in ChunkIds, j \in Nat : Writes(s, c, j)
  BY <1>3, WireWrites
<1>4. CASE \E side \in Sides, s \in Sends : ReadsShort(side, s)
  BY <1>4, WireReadsShort
<1>5. CASE \E side \in Sides, s \in Sends, o \in Nat, got \in Collected : Reads(side, s, o, got)
  BY <1>5, WireReads
<1>6. CASE Reconnect
  BY <1>6, WireReconnects
<1> QED
  BY <1>1, <1>2, <1>3, <1>4, <1>5, <1>6, Steps, Zenon

THEOREM WireInvariant == ChunkSpec => []WireInv
<1>1. ChunkInit => WireInv
  BY WireStart
<1>2. WireInv /\ [ChunkNext]_chunkVars => WireInv'
  BY WireNext
<1> QED
  BY <1>1, <1>2, PTL DEF ChunkSpec

\* Every length, offset and number stays in its range, whatever is sent and whenever the
\* connection breaks.
THEOREM ChunkTypes == ChunkSpec => []ChunkTypeOK
<1>1. WireInv => ChunkTypeOK
  BY DEF WireInv
<1> QED
  BY <1>1, WireInvariant, PTL

-----------------------------------------------------------------------------
(* The readers                                                             *)

\* Nothing of s is read or written.
Untouched(s) ==
    \/ wire'[To(s)] = wire[To(s)]
    \/ wire[To(s)] # <<>> /\ ~IsSlice(wire[To(s)][1], s) /\ wire'[To(s)] = Tail(wire[To(s)])
    \/ \E m \in Message : ~IsSlice(m, s) /\ ~IsPlain(m, s) /\ wire'[To(s)] = Append(wire[To(s)], m)

LEMMA FlowFrame ==
  ASSUME WireInv, NEW s \in Sends, Untouched(s)
  PROVE  /\ Absent(wire[To(s)], s) => Absent(wire'[To(s)], s)
         /\ \A g \in Nat : Flow(wire[To(s)], s, g, offset[s]) => Flow(wire'[To(s)], s, g, offset[s])
<1>1. PICK q : q = wire[To(s)]
  OBVIOUS
<1>2. PICK r : r = wire'[To(s)]
  OBVIOUS
<1>3. q \in Seq(Message)
  BY <1>1, WireTyped, Settings DEF WireInv
<1>4. PICK o : o = offset[s]
  OBVIOUS
<1>5. \/ r = q
      \/ q # <<>> /\ ~IsSlice(q[1], s) /\ r = Tail(q)
      \/ \E m \in Message : ~IsSlice(m, s) /\ ~IsPlain(m, s) /\ r = Append(q, m)
  BY <1>1, <1>2, Zenon DEF Untouched
<1>6. Absent(q, s) => Absent(r, s)
  BY <1>3, <1>5, AbsentTail, AbsentAppend
<1>7. \A g : Flow(q, s, g, o) => Flow(r, s, g, o)
  BY <1>3, <1>5, FlowTailOther, FlowAppendOther
<1> QED
  BY <1>1, <1>2, <1>4, <1>6, <1>7

LEMMA CollectKeeps ==
  ASSUME WireInv, NEW s \in Sends, Untouched(s), Live(s), CollectingOf(s), state'[s] # "idle",
         offset'[s] = offset[s], chunk'[s] = chunk[s], chunks'[To(s)][chunk[s]] = chunks[To(s)][chunk[s]]
  PROVE  CollectingOf(s)'
<1>1. To(s)' = To(s)
  BY DEF To, Other
<1>2. CASE Over(s) /\ chunks[To(s)][chunk[s]] = Nothing
  <2>1. Absent(wire'[To(s)], s) /\ offset'[s] = Bytes[s]
    BY <1>2, FlowFrame DEF Over
  <2>2. Absent(wire[To(s)], s)'
    BY <2>1, Zenon DEF Absent, IsSlice, IsPlain, To, Other
  <2>3. Over(s)'
    BY <2>1, <2>2, Zenon DEF Over
  <2>4. (chunks[To(s)][chunk[s]] = Nothing)'
    BY <1>1, <1>2, Zenon DEF Nothing
  <2> QED
    BY <2>3, <2>4, Zenon DEF CollectingOf
<1>3. CASE \E g \in Nat : /\ Assembled(s, g, chunks[To(s)][chunk[s]]) /\ Flow(wire[To(s)], s, g, offset[s])
                          /\ At(g) <= offset[s]
  <2>1. PICK g \in Nat : /\ Assembled(s, g, chunks[To(s)][chunk[s]]) /\ Flow(wire[To(s)], s, g, offset[s])
                         /\ At(g) <= offset[s]
    BY <1>3
  <2>2. Flow(wire'[To(s)], s, g, offset'[s])
    BY <2>1, FlowFrame
  <2>3. Flow(wire[To(s)], s, g, offset[s])'
    BY <1>1, <2>2, Zenon DEF Flow, IsSlice, At
  <2>4. Assembled(s, g, chunks[To(s)][chunk[s]])' /\ (At(g) <= offset[s])'
    BY <1>1, <2>1, Zenon DEF Assembled, At
  <2> QED
    BY <2>3, <2>4, Zenon DEF CollectingOf
<1> QED
  BY <1>2, <1>3, Zenon DEF CollectingOf

LEMMA OverKeeps ==
  ASSUME WireInv, NEW s \in Sends, Untouched(s), Over(s), state'[s] # "idle",
         Live(s)' => Live(s) /\ offset'[s] = offset[s]
  PROVE  Over(s)'
<1>1. Absent(wire'[To(s)], s)
  BY FlowFrame DEF Over
<1>2. Absent(wire[To(s)], s)'
  BY <1>1, Zenon DEF Absent, IsSlice, IsPlain, To, Other
<1>3. Live(s)' => offset'[s] = Bytes[s]
  BY Zenon DEF Over
<1> QED
  BY <1>2, <1>3, Zenon DEF Over

\* Nothing is given to the callback of this side.
LEMMA GivenKeeps ==
  ASSUME NEW side \in Sides, Whole1(side), received'[side] = received[side],
         \A t \in Sends : Over(t) => Over(t)'
  PROVE  Whole1(side)'
<1>1. \A k \in DOMAIN received'[side] :
          \E s \in Sends : To(s)' = side /\ received'[side][k] = Slices(s)' /\ Over(s)'
  <2> TAKE k \in DOMAIN received'[side]
  <2>1. PICK s \in Sends : To(s) = side /\ received[side][k] = Slices(s) /\ Over(s)
    BY DEF Whole1
  <2>2. To(s)' = To(s) /\ Slices(s)' = Slices(s)
    BY DEF To, Other, Slices
  <2> QED
    BY <2>1, <2>2
<1>2. Distinct(received'[side])
  BY DEF Whole1
<1> QED
  BY <1>1, <1>2, Zenon DEF Whole1, Distinct

\* A message that was not yet over is given to the callback.
LEMMA GivenOne ==
  ASSUME NEW side \in Sides, Whole1(side), received[side] \in Seq(Seq(Sends \X Nat)), NEW s \in Sends,
         received'[side] = Append(received[side], Slices(s)), To(s) = side, ~Over(s), Over(s)',
         \A t \in Sends : Over(t) => Over(t)'
  PROVE  Whole1(side)'
<1>1. PICK q : q = received[side]
  OBVIOUS
<1>2. PICK b : b = Slices(s)
  OBVIOUS
<1>3. PICK r : r = received'[side]
  OBVIOUS
<1>4. q \in Seq(Seq(Sends \X Nat)) /\ Distinct(q) /\ b \in Seq(Sends \X Nat) /\ r = Append(q, b)
  BY <1>1, <1>2, <1>3, SlicesTell DEF Whole1
<1>5. ASSUME NEW k \in DOMAIN q PROVE q[k] # b
  <2>1. PICK t \in Sends : q[k] = Slices(t) /\ Over(t)
    BY <1>1, <1>5 DEF Whole1
  <2>2. t # s
    BY <2>1
  <2>3. Slices(t)[1] = <<t, 0>> /\ Slices(s)[1] = <<s, 0>>
    BY SlicesTell
  <2> QED
    BY <1>2, <2>1, <2>2, <2>3
<1>6. /\ Distinct(r)
      /\ \A k \in DOMAIN r : r[k] = b \/ \E l \in DOMAIN q : r[k] = q[l]
  BY <1>4, <1>5, PushKeeps
<1>7. \A t : To(t)' = To(t) /\ Slices(t)' = Slices(t)
  BY DEF To, Other, Slices
<1>8. ASSUME NEW k \in DOMAIN r
      PROVE  \E t \in Sends : To(t)' = side /\ r[k] = Slices(t)' /\ Over(t)'
  <2>1. CASE r[k] = b
    BY <1>2, <1>7, <2>1
  <2>2. CASE \E l \in DOMAIN q : r[k] = q[l]
    <3>1. PICK l \in DOMAIN q : r[k] = q[l]
      BY <2>2
    <3>2. PICK t \in Sends : To(t) = side /\ q[l] = Slices(t) /\ Over(t)
      BY <1>1, <3>1 DEF Whole1
    <3> QED
      BY <1>7, <3>1, <3>2
  <2> QED
    BY <1>6, <2>1, <2>2
<1> QED
  BY <1>3, <1>6, <1>8, Zenon DEF Whole1, Distinct

\* The readers of a step that reads and writes nothing of long messages.
LEMMA ReadersKeep ==
  ASSUME ReaderInv, chunks' = chunks, torn' = torn,
         \A t \in Sends : (Live(t)' <=> Live(t)) /\ (Live(t) => chunk'[t] = chunk[t] /\ offset'[t] = offset[t]),
         \A t \in Sends : state[t] # "idle" => state'[t] # "idle",
         \A t \in Sends : Live(t) => Untouched(t)
  PROVE  Collecting' /\ Free'
<1>1. WireInv /\ Collecting /\ Free
  BY DEF ReaderInv
<1>2. Collecting'
  <2>1. ASSUME NEW t \in Sends, Live(t)', Intact(To(t))'
        PROVE  CollectingOf(t)'
    <3>1. Live(t) /\ state[t] # "idle"
      BY <2>1 DEF Live, Started
    <3>2. Intact(To(t))
      BY <2>1, Zenon DEF Intact, To, Other
    <3>3. CollectingOf(t)
      BY <1>1, <3>1, <3>2 DEF Collecting
    <3> QED
      BY <1>1, <3>1, <3>3, CollectKeeps
  <2> QED
    BY <2>1, Zenon DEF Collecting
<1>3. Free'
  <2>1. \A side \in Sides, c \in Ids : UsedBy(side, c)' <=> UsedBy(side, c)
    BY DEF UsedBy, To, Other
  <2>2. \A side \in Sides : Intact(side)' <=> Intact(side)
    BY DEF Intact
  <2> QED
    BY <1>1, <2>1, <2>2, Zenon DEF Free, Nothing
<1> QED
  BY <1>2, <1>3

\* Who can be told apart on the wire.
LEMMA WireTells ==
  ASSUME WireInv, NEW s \in Sends, NEW k \in DOMAIN wire[To(s)]
  PROVE  /\ IsSlice(wire[To(s)][k], s) => Live(s)
         /\ IsPlain(wire[To(s)][k], s) => ~Long(s) /\ state[s] # "idle"
<1>1. PICK m : m = wire[To(s)][k]
  OBVIOUS
<1>2. OnWire(To(s), m)
  BY <1>1, Settings, Zenon DEF WireInv, Sent
<1>3. ASSUME m.type = "chunk", m.slice[1] = s PROVE Live(s)
  <2>1. \A t \in Sends : m # ChunkAck(Id[t]) /\ m # Plain(t)
    BY <1>3 DEF ChunkAck, Plain
  <2>2. PICK t \in Sends, o \in Nat : m = ChunkOf(t, chunk[t], o) /\ Live(t)
    BY <1>2, <2>1, Zenon DEF OnWire
  <2>3. t = s
    BY <1>3, <2>2 DEF ChunkOf
  <2> QED
    BY <2>2, <2>3
<1>4. ASSUME m.type = "plain", m.send = s PROVE ~Long(s) /\ state[s] # "idle"
  <2>1. \A t \in Sends : m # ChunkAck(Id[t]) /\ \A o : m # ChunkOf(t, chunk[t], o)
    BY <1>4 DEF ChunkAck, ChunkOf
  <2>2. PICK t \in Sends : m = Plain(t) /\ ~Long(t) /\ state[t] # "idle"
    BY <1>2, <2>1, Zenon DEF OnWire
  <2>3. t = s
    BY <1>4, <2>2 DEF Plain
  <2> QED
    BY <2>2, <2>3
<1> QED
  BY <1>1, <1>3, <1>4, Zenon DEF IsSlice, IsPlain

\* A message that has not been written is not on its way.
LEMMA IdleAbsent ==
  ASSUME WireInv, NEW s \in Sends, state[s] = "idle"
  PROVE  Absent(wire[To(s)], s) /\ ~Live(s) /\ ~Over(s)
<1>1. ~Live(s) /\ ~Over(s)
  BY DEF Live, Started, Over
<1>2. Absent(wire[To(s)], s)
  BY <1>1, WireTells, Zenon DEF Absent
<1> QED
  BY <1>1, <1>2

\* An acknowledgement or nothing arrives.
LEMMA ReaderQuiet ==
  ASSUME ReaderInv, Quiet
  PROVE  Collecting' /\ Free' /\ Given'
<1>1. WireInv /\ Given
  BY DEF ReaderInv
<1>2. /\ chunk' = chunk /\ conn' = conn /\ chunks' = chunks /\ received' = received
      /\ epoch' = epoch /\ torn' = torn
      /\ \A t \in Sends : state'[t] = "idle" <=> state[t] = "idle"
      /\ \A t \in Sends : offset'[t] = offset[t] \/ (~Live(t) /\ state[t] # "idle")
      /\ \A side \in Sides : \/ wire'[side] = wire[side]
                             \/ /\ wire[side] # <<>> /\ wire'[side] = Tail(wire[side])
                                /\ \A t : ~IsSlice(wire[side][1], t) /\ ~IsPlain(wire[side][1], t)
  BY DEF Quiet
<1>3. \A t \in Sends : (Live(t)' <=> Live(t)) /\ (Live(t) => chunk'[t] = chunk[t] /\ offset'[t] = offset[t])
  BY <1>2, Zenon DEF Live, Started, Long
<1>4. ASSUME NEW t \in Sends PROVE Untouched(t)
  <2>1. To(t) \in Sides
    BY Settings
  <2> QED
    BY <1>2, <2>1, Zenon DEF Untouched
<1>5. Collecting' /\ Free'
  <2>1. \A t \in Sends : state[t] # "idle" => state'[t] # "idle"
    BY <1>2
  <2>2. \A t \in Sends : Live(t) => Untouched(t)
    BY <1>4
  <2>3. chunks' = chunks /\ torn' = torn
    BY <1>2
  <2> QED
    BY <1>3, <2>1, <2>2, <2>3, ReadersKeep
<1>6. ASSUME NEW t \in Sends, Over(t) PROVE Over(t)'
  <2>1. state'[t] # "idle"
    BY <1>2, <1>6 DEF Over
  <2> QED
    BY <1>1, <1>3, <1>4, <1>6, <2>1, OverKeeps
<1>7. ASSUME NEW side \in Sides, Intact(side)' PROVE Whole1(side)'
  <2>1. Whole1(side)
    BY <1>1, <1>2, <1>7, Zenon DEF Given, Intact
  <2>2. received'[side] = received[side]
    BY <1>2
  <2> QED
    BY <1>6, <2>1, <2>2, GivenKeeps
<1> QED
  BY <1>5, <1>7, Zenon DEF Given

\* A short message is written.
LEMMA ReaderWritesShort ==
  ASSUME ReaderInv, NEW s \in Sends, WritesShort(s)
  PROVE  Collecting' /\ Free' /\ Given'
<1>1. WireInv /\ Given
  BY DEF ReaderInv
<1>2. /\ ~Long(s) /\ state[s] = "idle" /\ state'[s] = "done"
      /\ \A t \in Sends \ {s} : state'[t] = state[t] /\ conn'[t] = conn[t]
      /\ wire'[To(s)] = Append(wire[To(s)], Plain(s))
      /\ wire'[From[s]] = wire[From[s]]
      /\ offset' = offset /\ chunk' = chunk /\ chunks' = chunks /\ received' = received
      /\ epoch' = epoch /\ torn' = torn
  BY DEF WritesShort
<1>3. \A t \in Sends : (Live(t)' <=> Live(t)) /\ (Live(t) => chunk'[t] = chunk[t] /\ offset'[t] = offset[t])
  BY <1>2, Zenon DEF Live, Started, Long
<1>4. PICK m : m = Plain(s)
  OBVIOUS
<1>5. m \in Message /\ (\A t : ~IsSlice(m, t)) /\ (\A t : IsPlain(m, t) => t = s)
  <2>1. chunk[s] \in ChunkIds
    BY <1>1, WireTyped DEF WireInv
  <2> QED
    BY <1>4, <2>1, Kinds
<1>6. ASSUME NEW t \in Sends, t # s PROVE Untouched(t)
  <2>1. To(t) \in Sides /\ ~IsSlice(m, t) /\ ~IsPlain(m, t)
    BY <1>5, <1>6, Settings
  <2>2. To(t) = To(s) \/ To(t) = From[s]
    BY <2>1, EitherSide
  <2> QED
    BY <1>2, <1>4, <1>5, <2>1, <2>2, Zenon DEF Untouched
<1>7. ~Live(s) /\ ~Over(s)
  BY <1>1, <1>2, IdleAbsent
<1>8. Collecting' /\ Free'
  <2>1. \A t \in Sends : state[t] # "idle" => state'[t] # "idle"
    BY <1>2
  <2>2. \A t \in Sends : Live(t) => Untouched(t)
    BY <1>6, <1>7
  <2>3. chunks' = chunks /\ torn' = torn
    BY <1>2
  <2> QED
    BY <1>3, <2>1, <2>2, <2>3, ReadersKeep
<1>9. ASSUME NEW t \in Sends, Over(t) PROVE Over(t)'
  <2>1. t # s
    BY <1>7, <1>9
  <2>2. state'[t] # "idle"
    BY <1>2, <1>9, <2>1 DEF Over
  <2> QED
    BY <1>1, <1>3, <1>6, <1>9, <2>1, <2>2, OverKeeps
<1>10. ASSUME NEW side \in Sides, Intact(side)' PROVE Whole1(side)'
  <2>1. Whole1(side)
    BY <1>1, <1>2, <1>10, Zenon DEF Given, Intact
  <2>2. received'[side] = received[side]
    BY <1>2
  <2> QED
    BY <1>9, <2>1, <2>2, GivenKeeps
<1> QED
  BY <1>8, <1>10, Zenon DEF Given

\* A short message is given to the callback.
LEMMA ReaderReadsShort ==
  ASSUME ReaderInv, NEW side \in Sides, NEW s \in Sends, ReadsShort(side, s)
  PROVE  Collecting' /\ Free' /\ Given'
<1>1. WireInv /\ Given
  BY DEF ReaderInv
<1>2. /\ ~Long(s) /\ To(s) = side /\ state[s] # "idle"
      /\ wire[side] # <<>> /\ IsPlain(wire[side][1], s) /\ \A t : ~IsSlice(wire[side][1], t)
      /\ wire'[side] = Tail(wire[side]) /\ wire'[From[s]] = wire[From[s]]
      /\ received'[side] = Append(received[side], <<<<s, 0>>>>)
      /\ received'[From[s]] = received[From[s]]
      /\ state' = state /\ offset' = offset /\ chunk' = chunk /\ conn' = conn
      /\ chunks' = chunks /\ epoch' = epoch /\ torn' = torn
  BY DEF ReadsShort
<1>3. \A t \in Sends : (Live(t)' <=> Live(t)) /\ (Live(t) => chunk'[t] = chunk[t] /\ offset'[t] = offset[t])
  BY <1>2, Zenon DEF Live, Started, Long
<1>4. ASSUME NEW t \in Sends PROVE Untouched(t)
  <2>1. To(t) \in Sides
    BY Settings
  <2>2. To(t) = side \/ To(t) = From[s]
    BY <1>2, <2>1, EitherSide
  <2> QED
    BY <1>2, <2>2, Zenon DEF Untouched
<1>5. Collecting' /\ Free'
  <2>1. \A t \in Sends : state[t] # "idle" => state'[t] # "idle"
    BY <1>2
  <2>2. \A t \in Sends : Live(t) => Untouched(t)
    BY <1>4
  <2>3. chunks' = chunks /\ torn' = torn
    BY <1>2
  <2> QED
    BY <1>3, <2>1, <2>2, <2>3, ReadersKeep
<1>6. ASSUME NEW t \in Sends, Over(t) PROVE Over(t)'
  <2>1. state'[t] # "idle"
    BY <1>2, <1>6 DEF Over
  <2> QED
    BY <1>1, <1>3, <1>4, <1>6, <2>1, OverKeeps
<1>7. PICK q : q = wire[side]
  OBVIOUS
<1>8. q \in Seq(Message) /\ Once(q) /\ 1 \in DOMAIN q
  <2>1. q \in Seq(Message) /\ Once(q)
    BY <1>1, <1>7, WireTyped DEF WireInv, Sent
  <2> QED
    BY <1>2, <1>7, <2>1, TailAt
<1>9. ~Over(s)
  BY <1>2, <1>7, <1>8, Zenon DEF Over, Absent
<1>10. Over(s)'
  <2>1. ~Live(s)
    BY <1>2 DEF Live, Started
  <2>2. \A k \in DOMAIN q : ~IsSlice(q[k], s)
    BY <1>1, <1>2, <1>7, <2>1, WireTells
  <2>3. \A k \in DOMAIN Tail(q) : k + 1 \in DOMAIN q /\ Tail(q)[k] = q[k + 1]
    BY <1>2, <1>7, <1>8, TailAt
  <2>4. \A k \in DOMAIN Tail(q) : ~IsPlain(Tail(q)[k], s)
    BY <1>2, <1>7, <1>8, OnceTail
  <2>5. Absent(Tail(q), s)
    BY <2>2, <2>3, <2>4, Zenon DEF Absent
  <2>8. wire'[To(s)] = Tail(q)
    BY <1>2, <1>7
  <2>6. Absent(wire[To(s)], s)'
    BY <2>5, <2>8, Zenon DEF Absent, IsSlice, IsPlain, To, Other
  <2>7. ~Live(s)' /\ state'[s] # "idle"
    BY <1>2, <1>3, <2>1
  <2> QED
    BY <2>6, <2>7, Zenon DEF Over
<1>11. Slices(s) = <<<<s, 0>>>>
  BY <1>2, Settings DEF Slices, Long
<1>12. ASSUME NEW x \in Sides, Intact(x)' PROVE Whole1(x)'
  <2>1. Whole1(x)
    BY <1>1, <1>2, <1>12, Zenon DEF Given, Intact
  <2>2. CASE x = side
    <3>1. received[side] \in Seq(Seq(Sends \X Nat))
      BY <1>1, ReadersTyped DEF WireInv
    <3>2. received'[side] = Append(received[side], Slices(s))
      BY <1>2, <1>11
    <3> QED
      BY <1>2, <1>6, <1>9, <1>10, <2>1, <2>2, <3>1, <3>2, GivenOne
  <2>3. CASE x # side
    <3>1. x = From[s]
      BY <1>2, <2>3, EitherSide
    <3>2. received'[x] = received[x]
      BY <1>2, <3>1
    <3> QED
      BY <1>6, <2>1, <3>2, GivenKeeps
  <2> QED
    BY <2>2, <2>3
<1> QED
  BY <1>5, <1>12, Zenon DEF Given

\* The connection breaks: a reader that is kept has put nothing together.
LEMMA ReaderReconnects ==
  ASSUME ReaderInv, Reconnect
  PROVE  Collecting' /\ Free' /\ Given'
<1>1. WireInv /\ Given
  BY DEF ReaderInv
<1>2. /\ epoch' = epoch + 1
      /\ wire' = [side \in Sides |-> <<>>]
      /\ chunks' = [chunks EXCEPT !["server"] = [c \in Ids |-> Nothing]]
      /\ torn' = (torn \/ \E c \in Ids : chunks["client"][c] # Nothing)
      /\ state' = state /\ conn' = conn /\ received' = received
  BY DEF Reconnect
<1>3. epoch \in Nat /\ \A t \in Sends : conn[t] \in Nat /\ conn[t] <= epoch
  BY <1>1, WireTyped DEF WireInv
<1>4. \A t \in Sends : ~Live(t)'
  BY <1>2, <1>3 DEF Live
<1>5. Collecting'
  BY <1>4, Zenon DEF Collecting
<1>6. chunks \in [Sides -> [Ids -> Collected]]
  BY <1>1, ReadersTyped DEF WireInv
<1>7. ASSUME NEW side \in Sides, Intact(side)', NEW c \in Ids
      PROVE  chunks'[side][c] = Nothing
  <2>1. CASE side = "server"
    BY <1>2, <1>6, <2>1
  <2>2. CASE side = "client"
    <3>1. ~torn'
      BY <1>7, <2>2 DEF Intact
    <3>2. chunks["client"][c] = Nothing
      BY <1>2, <3>1
    <3>3. chunks'["client"] = chunks["client"]
      BY <1>2, <1>6 DEF Sides
    <3> QED
      BY <2>2, <3>2, <3>3
  <2> QED
    BY <2>1, <2>2 DEF Sides
<1>8. Free'
  BY <1>7, Zenon DEF Free, Nothing
<1>9. ASSUME NEW t \in Sends, Over(t) PROVE Over(t)'
  <2>1. state'[t] # "idle"
    BY <1>2, <1>9 DEF Over
  <2>2. DOMAIN wire'[To(t)] = {}
    BY <1>2, Settings
  <2>3. Absent(wire[To(t)], t)'
    BY <2>2, Zenon DEF Absent, To, Other
  <2> QED
    BY <1>4, <2>1, <2>3, Zenon DEF Over
<1>10. ASSUME NEW side \in Sides, Intact(side)' PROVE Whole1(side)'
  <2>1. Intact(side)
    BY <1>2, <1>10 DEF Intact
  <2>2. Whole1(side) /\ received'[side] = received[side]
    BY <1>1, <1>2, <2>1 DEF Given
  <2> QED
    BY <1>9, <2>2, GivenKeeps
<1> QED
  BY <1>5, <1>8, <1>10, Zenon DEF Given

\* A slice is written: its reader has the ones before it or will get them first.
LEMMA ReaderWrites ==
  ASSUME ReaderInv, NEW s \in Sends, NEW c \in ChunkIds, NEW j \in Nat, Writes(s, c, j)
  PROVE  Collecting' /\ Free' /\ Given'
<1>1. WireInv /\ Collecting /\ Free /\ Given
  BY DEF ReaderInv
<1>2. /\ Long(s) /\ offset[s] = At(j) /\ At(j) < Bytes[s]
      /\ state'[s] = "waiting" /\ offset'[s] = At(j) + SliceLen(<<s, At(j)>>) /\ chunk'[s] = c
      /\ \A t \in Sends \ {s} : state'[t] = state[t] /\ offset'[t] = offset[t] /\ chunk'[t] = chunk[t]
      /\ wire'[To(s)] = Append(wire[To(s)], ChunkOf(s, c, At(j)))
      /\ wire'[From[s]] = wire[From[s]]
      /\ chunks' = chunks /\ received' = received /\ torn' = torn
  BY DEF Writes
<1>3. /\ Live(s)' /\ \A t \in Sends \ {s} : Live(t)' <=> Live(t)
      /\ \A t \in Sends : Live(t) => chunk'[t] = chunk[t]
  BY <1>1, WritesLive
<1>4. PICK m : m = ChunkOf(s, c, At(j))
  OBVIOUS
<1>5. /\ m \in Message /\ IsSlice(m, s) /\ m.slice = <<s, At(j)>>
      /\ \A t : ~IsPlain(m, t) /\ (IsSlice(m, t) => t = s)
  <2>1. At(j) \in Nat
    BY Multiples
  <2> QED
    BY <1>4, <2>1, Kinds
<1>6. ASSUME NEW t \in Sends, t # s PROVE Untouched(t)
  <2>1. To(t) \in Sides /\ ~IsSlice(m, t) /\ ~IsPlain(m, t)
    BY <1>5, <1>6, Settings
  <2>2. To(t) = To(s) \/ To(t) = From[s]
    BY <2>1, EitherSide
  <2> QED
    BY <1>2, <1>4, <1>5, <2>1, <2>2, Zenon DEF Untouched
<1>7. /\ offset'[s] \in Nat /\ At(j) \in Nat /\ At(j) < offset'[s] /\ offset'[s] <= At(j + 1)
      /\ Bytes[s] \in Nat /\ offset[s] # Bytes[s]
  <2>1. PICK n : n = At(j) + SliceLen(<<s, At(j)>>)
    OBVIOUS
  <2>2. n \in Nat /\ At(j) < n /\ n <= At(j + 1)
    BY <1>2, <2>1, SliceIs
  <2>3. offset'[s] = n /\ At(j) \in Nat /\ Bytes[s] \in Nat
    BY <1>2, <2>1, Multiples, Settings
  <2>4. offset[s] # Bytes[s]
    BY <1>2, <2>3
  <2> QED
    BY <2>2, <2>3, <2>4
<1>8. ~Over(s)
  <2>1. CASE state[s] = "idle"
    BY <1>1, <2>1, IdleAbsent
  <2>2. CASE state[s] # "idle"
    <3>1. Live(s)
      BY <2>2 DEF Writes
    <3> QED
      BY <1>7, <3>1 DEF Over
  <2> QED
    BY <2>1, <2>2
<1>9. PICK q : q = wire[To(s)]
  OBVIOUS
<1>10. q \in Seq(Message) /\ wire'[To(s)] = Append(q, m)
  BY <1>1, <1>2, <1>4, <1>9, WireTyped, Settings DEF WireInv
<1>11. c \in Ids /\ To(s) \in Sides
  BY Settings DEF Ids
<1>12. ASSUME Intact(To(s))
       PROVE  \E g \in Nat : /\ Assembled(s, g, chunks[To(s)][c]) /\ Flow(q, s, g, At(j))
                             /\ g <= j
  <2>1. CASE state[s] = "idle"
    <3>1. c = chunkId[From[s]] /\ offset[s] = 0
      BY <1>1, <2>1 DEF Writes, WireInv, Offsets
    <3>2. ~UsedBy(To(s), c)
      <4> SUFFICES ASSUME NEW t \in Sends, Live(t), To(t) = To(s), chunk[t] = c PROVE FALSE
        BY DEF UsedBy
      <4>1. From[t] = From[s]
        BY Settings
      <4>2. chunk[t] < chunkId[From[t]]
        BY <1>1 DEF WireInv, Numbered
      <4>3. c \in Int
        BY DEF ChunkIds
      <4> QED
        BY <3>1, <4>1, <4>2, <4>3
    <3>3. chunks[To(s)][c] = Nothing
      BY <1>1, <1>11, <1>12, <3>2 DEF Free
    <3>4. At(0) = 0 /\ 0 \in Nat /\ Bytes[s] \in Nat \ {0} /\ At(j) = 0
      BY <1>2, <3>1, Multiples, Settings
    <3>5. Assembled(s, 0, chunks[To(s)][c])
      BY <3>3, <3>4 DEF Assembled, Nothing
    <3>6. \A k \in DOMAIN q : ~IsSlice(q[k], s)
      BY <1>1, <1>9, <2>1, IdleAbsent DEF Absent
    <3>7. \A i \in Nat : ~(At(i) < At(j))
      <4> SUFFICES ASSUME NEW i \in Nat PROVE ~(At(i) < At(j))
        OBVIOUS
      <4>1. At(i) \in Nat
        BY Multiples
      <4> QED
        BY <3>4, <4>1
    <3>8. Flow(q, s, 0, At(j))
      BY <3>6, <3>7, Zenon DEF Flow
    <3> QED
      BY <3>4, <3>5, <3>8
  <2>2. CASE state[s] # "idle"
    <3>1. Live(s) /\ c = chunk[s]
      BY <2>2 DEF Writes
    <3>2. CollectingOf(s)
      BY <1>1, <1>12, <3>1 DEF Collecting
    <3>3. PICK g \in Nat : /\ Assembled(s, g, chunks[To(s)][chunk[s]]) /\ Flow(wire[To(s)], s, g, offset[s])
                           /\ At(g) <= offset[s]
      BY <1>8, <3>2 DEF CollectingOf
    <3>4. g <= j
      <4>1. j < g => At(j) + ChunkSize <= At(g)
        BY Multiples
      <4>2. At(g) <= At(j) /\ At(g) \in Nat /\ ChunkSize \in Nat \ {0}
        BY <1>2, <3>3, Multiples, ChunkAssumption
      <4> HIDE DEF At
      <4> QED
        BY <1>7, <4>1, <4>2
    <3> QED
      BY <1>2, <1>9, <3>1, <3>3, <3>4
  <2> QED
    BY <2>1, <2>2
<1>13. ASSUME Intact(To(s)) PROVE CollectingOf(s)'
  <2>1. PICK g \in Nat : Assembled(s, g, chunks[To(s)][c]) /\ Flow(q, s, g, At(j)) /\ g <= j
    BY <1>12, <1>13
  <2>2. Flow(Append(q, m), s, g, offset'[s])
    BY <1>5, <1>7, <1>10, <2>1, FlowAppendNext
  <2>3. To(s)' = To(s) /\ chunks'[To(s)][chunk'[s]] = chunks[To(s)][c]
    BY <1>2 DEF To, Other
  <2>4. Flow(wire[To(s)], s, g, offset[s])'
    BY <1>10, <2>2, <2>3, Zenon DEF Flow, IsSlice, At
  <2>5. Assembled(s, g, chunks[To(s)][chunk[s]])'
    BY <2>1, <2>3, Zenon DEF Assembled, At
  <2>6. At(g) <= offset'[s]
    <3>1. g < j => At(g) + ChunkSize <= At(j)
      BY <2>1, Multiples
    <3>2. At(g) \in Nat /\ ChunkSize \in Nat \ {0} /\ (g = j \/ g < j)
      BY <2>1, Multiples, ChunkAssumption
    <3>3. At(g) <= At(j)
      <4> HIDE DEF At
      <4> QED
        BY <1>7, <3>1, <3>2
    <3> HIDE DEF At
    <3> QED
      BY <1>7, <3>2, <3>3
  <2>7. (At(g) <= offset[s])'
    BY <2>6 DEF At
  <2> QED
    BY <2>4, <2>5, <2>7, Zenon DEF CollectingOf
<1>14. \A side \in Sides : Intact(side)' <=> Intact(side)
  BY <1>2 DEF Intact
<1>15. Collecting'
  <2>1. ASSUME NEW t \in Sends, Live(t)', Intact(To(t))'
        PROVE  CollectingOf(t)'
    <3>1. Intact(To(t))
      BY <1>2, <2>1, Zenon DEF Intact, To, Other
    <3>2. CASE t = s
      BY <1>13, <3>1, <3>2
    <3>3. CASE t # s
      <4>1. Live(t) /\ CollectingOf(t)
        BY <1>1, <1>3, <2>1, <3>1, <3>3 DEF Collecting
      <4>2. state'[t] # "idle" /\ offset'[t] = offset[t] /\ chunk'[t] = chunk[t]
        BY <1>2, <3>3, <4>1 DEF Live, Started
      <4>3. chunks'[To(t)][chunk[t]] = chunks[To(t)][chunk[t]]
        BY <1>2
      <4> QED
        BY <1>1, <1>6, <3>3, <4>1, <4>2, <4>3, CollectKeeps
    <3> QED
      BY <3>2, <3>3
  <2> QED
    BY <2>1, Zenon DEF Collecting
<1>16. Free'
  <2>1. \A t \in Sends : Live(t) => Live(t)' /\ chunk'[t] = chunk[t]
    BY <1>1, WritesLive
  <2>2. \A side \in Sides, d \in Ids : UsedBy(side, d) => UsedBy(side, d)'
    BY <2>1, Zenon DEF UsedBy, To, Other
  <2> QED
    BY <1>1, <1>2, <1>14, <2>2, Zenon DEF Free, Nothing
<1>17. ASSUME NEW t \in Sends, Over(t) PROVE Over(t)'
  <2>1. t # s
    BY <1>8, <1>17
  <2>2. state'[t] # "idle" /\ offset'[t] = offset[t] /\ (Live(t)' <=> Live(t))
    BY <1>2, <1>3, <1>17, <2>1 DEF Over
  <2> QED
    BY <1>1, <1>6, <1>17, <2>1, <2>2, OverKeeps
<1>18. ASSUME NEW side \in Sides, Intact(side)' PROVE Whole1(side)'
  <2>1. Whole1(side)
    BY <1>1, <1>14, <1>18 DEF Given
  <2>2. received'[side] = received[side]
    BY <1>2
  <2> QED
    BY <1>17, <2>1, <2>2, GivenKeeps
<1> QED
  BY <1>15, <1>16, <1>18, Zenon DEF Given

\* The slice that arrives is the next one; it completes the message or it does not.
LEMMA NextSliceArrives ==
  ASSUME ReaderInv, NEW side \in Sides, NEW s \in Sends, NEW o \in Nat, NEW got \in Collected, Reads(side, s, o, got),
         Intact(side)
  PROVE  \/ got.loaded # Bytes[s] /\ CollectingOf(s)'
         \/ got.loaded = Bytes[s] /\ CollectingOf(s)' /\ Over(s)' /\ got.buffers = Slices(s)
<1>1. WireInv /\ Collecting
  BY DEF ReaderInv
<1>2. /\ To(s) = side /\ Live(s) /\ o < Bytes[s]
      /\ wire[side] # <<>> /\ IsSlice(wire[side][1], s) /\ wire[side][1].slice = <<s, o>>
      /\ got.loaded = chunks[side][chunk[s]].loaded + SliceLen(<<s, o>>)
      /\ got.buffers = Append(chunks[side][chunk[s]].buffers, <<s, o>>)
      /\ wire'[side] = Tail(wire[side])
      /\ state' = state /\ offset' = offset /\ chunk' = chunk
      /\ \/ got.loaded # Bytes[s] /\ chunks'[side][chunk[s]] = got
         \/ got.loaded = Bytes[s] /\ chunks'[side][chunk[s]] = Nothing
  BY DEF Reads
<1>3. PICK q : q = wire[side]
  OBVIOUS
<1>4. q \in Seq(Message) /\ 1 \in DOMAIN q /\ q # <<>>
  <2>1. q \in Seq(Message)
    BY <1>1, <1>3, WireTyped DEF WireInv
  <2> QED
    BY <1>2, <1>3, <2>1, TailAt
<1>5. ~Over(s)
  BY <1>2, <1>3, <1>4, Zenon DEF Over, Absent
<1>6. PICK e : e = chunks[side][chunk[s]]
  OBVIOUS
<1>7. PICK w : w = offset[s]
  OBVIOUS
<1>8. PICK g \in Nat : Assembled(s, g, e) /\ Flow(q, s, g, w) /\ At(g) <= w
  <2>1. CollectingOf(s)
    BY <1>1, <1>2 DEF Collecting
  <2> QED
    BY <1>2, <1>3, <1>5, <1>6, <1>7, <2>1 DEF CollectingOf
<1>9. /\ w \in Nat /\ w <= Bytes[s] /\ Bytes[s] \in Nat \ {0} /\ (w = Bytes[s] \/ \E i \in Nat : w = At(i))
      /\ Long(s) /\ state[s] # "idle"
  BY <1>1, <1>2, <1>7, WireTyped, Settings DEF WireInv, Offsets, Live, Started
<1>10. q[1].slice = <<s, At(g)>> /\ At(g) < w /\ Flow(Tail(q), s, g + 1, w)
  BY <1>2, <1>3, <1>4, <1>8, <1>9, FlowTailNext
<1>11. o = At(g)
  BY <1>2, <1>3, <1>10
<1>12. PICK n : n = At(g) + SliceLen(<<s, At(g)>>)
  OBVIOUS
<1>13. /\ At(g) < Bytes[s] /\ n \in Nat /\ n <= Bytes[s] /\ n <= At(g + 1)
       /\ n # Bytes[s] => n = At(g + 1) /\ At(g + 1) < Bytes[s]
  <2>1. At(g) < Bytes[s]
    BY <1>8 DEF Assembled
  <2> QED
    BY <1>12, <2>1, SliceIs
<1>14. g + 1 \in Nat /\ At(g) \in Nat /\ At(g + 1) \in Nat
  <2>1. g + 1 \in Nat
    OBVIOUS
  <2> QED
    BY <2>1, Multiples
<1>15. w = Bytes[s] \/ At(g + 1) <= w
  <2> SUFFICES ASSUME NEW i \in Nat, w = At(i) PROVE At(g + 1) <= w
    BY <1>9
  <2>1. g < i
    BY <1>10, Multiples
  <2>2. g + 1 = i \/ g + 1 < i
    BY <2>1
  <2>3. g + 1 < i => At(g + 1) + ChunkSize <= At(i)
    BY <1>14, Multiples
  <2>4. At(i) \in Nat /\ ChunkSize \in Nat
    BY Multiples, ChunkAssumption
  <2>5. CASE g + 1 = i
    BY <1>14, <2>5
  <2>6. CASE g + 1 < i
    <3> HIDE DEF At
    <3> QED
      BY <1>14, <2>3, <2>4, <2>6
  <2> QED
    BY <2>2, <2>5, <2>6
<1>16. /\ got.loaded = n /\ got.buffers = Append(e.buffers, <<s, At(g)>>)
       /\ e.loaded = At(g) /\ Len(e.buffers) = g /\ \A i \in 1 .. g : e.buffers[i] = <<s, At(i - 1)>>
  BY <1>2, <1>6, <1>8, <1>11, <1>12 DEF Assembled
<1>17. e \in Collected /\ e.buffers \in Seq(Sends \X Nat)
  <2>1. chunk[s] \in Ids
    BY <1>1, WireTyped DEF WireInv, Ids
  <2>2. e \in Collected
    BY <1>1, <1>6, <2>1, ReadersTyped DEF WireInv
  <2> QED
    BY <2>2 DEF Collected
<1>18. PICK b : b = got.buffers
  OBVIOUS
<1>19. /\ b \in Seq(Sends \X Nat) /\ Len(b) = g + 1 /\ DOMAIN b = 1 .. g + 1
       /\ \A i \in 1 .. g + 1 : b[i] = <<s, At(i - 1)>>
  <2>1. PICK p : p = <<s, At(g)>>
    OBVIOUS
  <2>2. p \in Sends \X Nat
    BY <1>14, <2>1
  <2>3. b = Append(e.buffers, p)
    BY <1>16, <1>18, <2>1
  <2>4. PICK d : d = e.buffers
    OBVIOUS
  <2>5. /\ b \in Seq(Sends \X Nat) /\ Len(b) = g + 1
        /\ \A i \in 1 .. g : b[i] = d[i]
        /\ b[g + 1] = p
    <3>1. b = Append(d, p) /\ d \in Seq(Sends \X Nat) /\ Len(d) = g
      BY <1>16, <1>17, <2>3, <2>4
    <3> QED
      BY <2>2, <3>1, AppendProperties
  <2>6. DOMAIN b = 1 .. g + 1
    BY <2>5
  <2>7. \A i \in 1 .. g + 1 : b[i] = <<s, At(i - 1)>>
    <3> TAKE i \in 1 .. g + 1
    <3>1. CASE i = g + 1
      <4>1. i - 1 = g
        BY <3>1
      <4> QED
        BY <2>1, <2>5, <3>1, <4>1
    <3>2. CASE i # g + 1
      <4>1. i \in 1 .. g
        BY <3>2
      <4> QED
        BY <1>16, <2>4, <2>5, <4>1
    <3> QED
      BY <3>1, <3>2
  <2> QED
    BY <2>5, <2>6, <2>7
<1>20. To(s)' = side
  BY <1>2 DEF To, Other
<1>21. CASE n # Bytes[s]
  <2>1. n = At(g + 1) /\ At(g + 1) < Bytes[s]
    BY <1>13, <1>21
  <2>2. chunks'[side][chunk'[s]] = got
    BY <1>2, <1>16, <1>21
  <2>3. Assembled(s, g + 1, got)
    BY <1>16, <1>18, <1>19, <2>1 DEF Assembled
  <2>4. Assembled(s, g + 1, chunks[To(s)][chunk[s]])'
    BY <1>20, <2>2, <2>3, Zenon DEF Assembled, At
  <2>5. Flow(wire[To(s)], s, g + 1, offset[s])'
    <3>1. wire'[side] = Tail(q) /\ offset'[s] = w
      BY <1>2, <1>3, <1>7
    <3> QED
      BY <1>10, <1>20, <3>1, Zenon DEF Flow, IsSlice, At
  <2>6. At(g + 1) <= w
    <3> HIDE DEF At
    <3> QED
      BY <1>9, <1>14, <1>15, <2>1
  <2>7. (At(g + 1) <= offset[s])'
    BY <1>2, <1>7, <2>6 DEF At
  <2>8. CollectingOf(s)'
    BY <1>14, <2>4, <2>5, <2>7, Zenon DEF CollectingOf
  <2> QED
    BY <1>16, <1>21, <2>8
<1>22. CASE n = Bytes[s]
  <2>1. Bytes[s] <= At(g + 1)
    BY <1>13, <1>22
  <2>2. Slices(s) = [k \in 1 .. g + 1 |-> <<s, At(k - 1)>>]
    BY <1>9, <1>13, <2>1, SlicesAre
  <2>3. b = Slices(s)
    <3>1. b = [k \in 1 .. g + 1 |-> b[k]]
      BY <1>19
    <3> QED
      BY <1>19, <2>2, <3>1
  <2>4. w = Bytes[s] /\ w <= At(g + 1)
    <3> HIDE DEF At
    <3> QED
      BY <1>9, <1>14, <1>15, <2>1
  <2>5. Tail(q) \in Seq(Message)
    BY <1>4, TailAt
  <2>6. \A k \in DOMAIN Tail(q) : ~IsSlice(Tail(q)[k], s)
    BY <1>9, <1>10, <1>14, <2>4, <2>5, FlowEnds
  <2>7. \A k \in DOMAIN Tail(q) : ~IsPlain(Tail(q)[k], s)
    <3>1. \A k \in DOMAIN q : ~IsPlain(q[k], s)
      BY <1>1, <1>2, <1>3, <1>9, WireTells
    <3>2. \A k \in DOMAIN Tail(q) : k + 1 \in DOMAIN q /\ Tail(q)[k] = q[k + 1]
      BY <1>4, TailAt
    <3> QED
      BY <3>1, <3>2, Zenon
  <2>8. Absent(wire'[side], s)
    BY <1>2, <1>3, <2>6, <2>7, Zenon DEF Absent
  <2>9. Absent(wire[To(s)], s)'
    BY <1>20, <2>8, Zenon DEF Absent, IsSlice, IsPlain
  <2>10. state'[s] # "idle" /\ offset'[s] = Bytes[s]
    BY <1>2, <1>7, <1>9, <2>4
  <2>11. Over(s)'
    BY <2>9, <2>10, Zenon DEF Over
  <2>12. chunks'[side][chunk'[s]] = Nothing
    BY <1>2, <1>16, <1>22
  <2>13. CollectingOf(s)'
    BY <1>20, <2>11, <2>12, Zenon DEF CollectingOf, Nothing
  <2> QED
    BY <1>16, <1>18, <1>22, <2>3, <2>11, <2>13
<1> QED
  BY <1>21, <1>22

LEMMA ReaderReads ==
  ASSUME ReaderInv, NEW side \in Sides, NEW s \in Sends, NEW o \in Nat, NEW got \in Collected, Reads(side, s, o, got)
  PROVE  Collecting' /\ Free' /\ Given'
<1>1. WireInv /\ Collecting /\ Free /\ Given
  BY DEF ReaderInv
<1>2. /\ To(s) = side /\ Live(s)
      /\ wire[side] # <<>> /\ IsSlice(wire[side][1], s)
      /\ wire'[side] = Tail(wire[side])
      /\ wire'[From[s]] = Append(wire[From[s]], ChunkAck(Id[s]))
      /\ state' = state /\ offset' = offset /\ chunk' = chunk /\ conn' = conn
      /\ epoch' = epoch /\ torn' = torn
      /\ \A side2 \in Sides, d \in Ids : side2 # side \/ d # chunk[s] => chunks'[side2][d] = chunks[side2][d]
      /\ received'[From[s]] = received[From[s]]
      /\ \/ got.loaded # Bytes[s] /\ received'[side] = received[side]
         \/ got.loaded = Bytes[s] /\ received'[side] = Append(received[side], got.buffers)
  BY DEF Reads
<1>3. \A t \in Sends : Live(t)' <=> Live(t)
  BY <1>2, Zenon DEF Live, Started, Long
<1>4. PICK m : m = ChunkAck(Id[s])
  OBVIOUS
<1>5. m \in Message /\ \A t : ~IsSlice(m, t) /\ ~IsPlain(m, t)
  <2>1. chunk[s] \in ChunkIds
    BY <1>1, WireTyped DEF WireInv
  <2> QED
    BY <1>4, <2>1, Kinds
<1>6. \A t : IsSlice(wire[side][1], t) => t = s
  BY <1>2 DEF IsSlice
<1>7. ASSUME NEW t \in Sends, t # s PROVE Untouched(t)
  <2>1. To(t) = side \/ To(t) = From[s]
    BY <1>2, Settings, EitherSide
  <2>2. ~IsSlice(wire[side][1], t)
    BY <1>6, <1>7
  <2> QED
    BY <1>2, <1>4, <1>5, <2>1, <2>2, Zenon DEF Untouched
<1>8. ~Over(s)
  <2>1. 1 \in DOMAIN wire[side]
    BY <1>1, <1>2, WireRead DEF WireInv
  <2> QED
    BY <1>2, <2>1, Zenon DEF Over, Absent
<1>9. \A x \in Sides : Intact(x)' <=> Intact(x)
  BY <1>2 DEF Intact
<1>10. Collecting'
  <2>1. ASSUME NEW t \in Sends, Live(t)', Intact(To(t))'
        PROVE  CollectingOf(t)'
    <3>1. Intact(To(t))
      BY <1>2, <2>1, Zenon DEF Intact, To, Other
    <3>2. CASE t = s
      BY <1>2, <3>1, <3>2, NextSliceArrives
    <3>3. CASE t # s
      <4>1. Live(t) /\ CollectingOf(t)
        BY <1>1, <1>3, <2>1, <3>1 DEF Collecting
      <4>2. state'[t] # "idle" /\ offset'[t] = offset[t] /\ chunk'[t] = chunk[t]
        BY <1>2, <4>1 DEF Live, Started
      <4>3. To(t) # side \/ chunk[t] # chunk[s]
        <5> SUFFICES ASSUME To(t) = side, chunk[t] = chunk[s] PROVE FALSE
          OBVIOUS
        <5>1. From[t] = From[s]
          BY <1>2, Settings
        <5> QED
          BY <1>1, <1>2, <3>3, <4>1, <5>1 DEF WireInv, Numbered
      <4>4. chunk[t] \in Ids /\ To(t) \in Sides
        BY <1>1, WireTyped, Settings DEF WireInv, Ids
      <4>5. chunks'[To(t)][chunk[t]] = chunks[To(t)][chunk[t]]
        BY <1>2, <4>3, <4>4
      <4> QED
        BY <1>1, <1>7, <3>3, <4>1, <4>2, <4>5, CollectKeeps
    <3> QED
      BY <3>2, <3>3
  <2> QED
    BY <2>1, Zenon DEF Collecting
<1>11. Free'
  <2>1. ASSUME NEW x \in Sides, Intact(x)', NEW d \in Ids, ~UsedBy(x, d)' PROVE chunks'[x][d] = Nothing
    <3>1. ~UsedBy(x, d)
      BY <1>2, <1>3, <2>1, Zenon DEF UsedBy, To, Other
    <3>2. chunks[x][d] = Nothing
      BY <1>1, <1>9, <2>1, <3>1 DEF Free
    <3>3. x # side \/ d # chunk[s]
      BY <1>2, <3>1 DEF UsedBy
    <3> QED
      BY <1>2, <3>2, <3>3
  <2> QED
    BY <2>1, Zenon DEF Free, Nothing
<1>12. ASSUME NEW t \in Sends, Over(t) PROVE Over(t)'
  <2>1. t # s
    BY <1>8, <1>12
  <2>2. state'[t] # "idle" /\ offset'[t] = offset[t] /\ (Live(t)' <=> Live(t))
    BY <1>2, <1>3, <1>12 DEF Over
  <2> QED
    BY <1>1, <1>7, <1>12, <2>1, <2>2, OverKeeps
<1>13. ASSUME NEW x \in Sides, Intact(x)' PROVE Whole1(x)'
  <2>1. Whole1(x) /\ Intact(x)
    BY <1>1, <1>9, <1>13 DEF Given
  <2>2. CASE x # side
    <3>1. x = From[s]
      BY <1>2, <2>2, EitherSide
    <3>2. received'[x] = received[x]
      BY <1>2, <3>1
    <3> QED
      BY <1>12, <2>1, <3>2, GivenKeeps
  <2>3. CASE x = side /\ got.loaded # Bytes[s]
    <3>1. received'[x] = received[x]
      BY <1>2, <2>3
    <3> QED
      BY <1>12, <2>1, <3>1, GivenKeeps
  <2>4. CASE x = side /\ got.loaded = Bytes[s]
    <3>1. Over(s)' /\ got.buffers = Slices(s)
      BY <2>1, <2>4, NextSliceArrives
    <3>2. received[side] \in Seq(Seq(Sends \X Nat))
      BY <1>1, ReadersTyped DEF WireInv
    <3>3. received'[side] = Append(received[side], Slices(s))
      BY <1>2, <2>4, <3>1
    <3> QED
      BY <1>2, <1>8, <1>12, <2>1, <2>4, <3>1, <3>2, <3>3, GivenOne
  <2> QED
    BY <2>2, <2>3, <2>4
<1> QED
  BY <1>10, <1>11, <1>13, Zenon DEF Given

LEMMA ReaderStart ==
  ASSUME ChunkInit
  PROVE  ReaderInv
<1>1. WireInv
  BY WireStart
<1>2. /\ state = [s \in Sends |-> "idle"]
      /\ chunks = [side \in Sides |-> [c \in Ids |-> Nothing]]
      /\ received = [side \in Sides |-> <<>>]
  BY DEF ChunkInit
<1>3. Collecting
  BY <1>2 DEF Collecting, Live, Started
<1>4. Free
  BY <1>2 DEF Free
<1>5. Given
  <2>1. \A side \in Sides : DOMAIN received[side] = {}
    BY <1>2
  <2> QED
    BY <2>1, Zenon DEF Given, Whole1, Distinct
<1> QED
  BY <1>1, <1>3, <1>4, <1>5 DEF ReaderInv

LEMMA ReaderNext ==
  ASSUME ReaderInv, [ChunkNext]_chunkVars
  PROVE  ReaderInv'
<1>1. WireInv /\ WireInv'
  BY WireNext DEF ReaderInv
<1>2. CASE Quiet
  BY <1>1, <1>2, ReaderQuiet, Zenon DEF ReaderInv
<1>3. CASE \E s \in Sends : WritesShort(s)
  BY <1>1, <1>3, ReaderWritesShort, Zenon DEF ReaderInv
<1>4. CASE \E s \in Sends, c \in ChunkIds, j \in Nat : Writes(s, c, j)
  BY <1>1, <1>4, ReaderWrites, Zenon DEF ReaderInv
<1>5. CASE \E side \in Sides, s \in Sends : ReadsShort(side, s)
  BY <1>1, <1>5, ReaderReadsShort, Zenon DEF ReaderInv
<1>6. CASE \E side \in Sides, s \in Sends, o \in Nat, got \in Collected : Reads(side, s, o, got)
  BY <1>1, <1>6, ReaderReads, Zenon DEF ReaderInv
<1>7. CASE Reconnect
  BY <1>1, <1>7, ReaderReconnects, Zenon DEF ReaderInv
<1> QED
  BY <1>1, <1>2, <1>3, <1>4, <1>5, <1>6, <1>7, Steps, Zenon

THEOREM ReaderInvariant == ChunkSpec => []ReaderInv
<1>1. ChunkInit => ReaderInv
  BY ReaderStart
<1>2. ReaderInv /\ [ChunkNext]_chunkVars => ReaderInv'
  BY ReaderNext
<1> QED
  BY <1>1, <1>2, PTL DEF ChunkSpec

\* The callback is given whole messages, each once, with any number of messages of any length
\* from both sides, whatever their ids are and however often the connection breaks, unless the
\* client's reader kept a part of a message over a break.
THEOREM MessagesWhole == ChunkSpec => []WholeMessages
<1>1. ASSUME ReaderInv PROVE WholeMessages
  <2> SUFFICES ASSUME NEW side \in Sides, Intact(side)
               PROVE  /\ \A b \in ReceivedOf(side) : WholeMessage(side, b)
                      /\ Cardinality(ReceivedOf(side)) = Len(received[side])
    BY DEF WholeMessages, Intact
  <2>1. PICK q : q = received[side]
    OBVIOUS
  <2>2. q \in Seq(Seq(Sends \X Nat))
    BY <1>1, <2>1, ReadersTyped DEF ReaderInv, WireInv
  <2>3. Distinct(q) /\ \A k \in DOMAIN q : \E s \in Sends : To(s) = side /\ q[k] = Slices(s)
    BY <1>1, <2>1 DEF ReaderInv, Given, Whole1
  <2>4. \A b \in ReceivedOf(side) : WholeMessage(side, b)
    <3> SUFFICES ASSUME NEW k \in DOMAIN q PROVE WholeMessage(side, q[k])
      BY <2>1 DEF ReceivedOf
    <3>1. PICK s \in Sends : To(s) = side /\ q[k] = Slices(s)
      BY <2>3
    <3>2. From[s] = Other(side)
      BY <3>1, Settings
    <3> QED
      BY <3>1, <3>2 DEF WholeMessage
  <2>5. Cardinality(ReceivedOf(side)) = Len(q)
    <3>1. Len(q) \in Nat /\ DOMAIN q = 1 .. Len(q)
      BY <2>2
    <3>2. IsFiniteSet(1 .. Len(q)) /\ Cardinality(1 .. Len(q)) = Len(q)
      <4>1. PICK n \in Nat : n = Len(q)
        BY <3>1
      <4>2. IsFiniteSet(1 .. n) /\ Cardinality(1 .. n) = n
        BY FS_Interval
      <4> QED
        BY <4>1, <4>2
    <3>3. q \in Bijection(1 .. Len(q), ReceivedOf(side))
      <4>1. q \in [1 .. Len(q) -> ReceivedOf(side)]
        BY <2>1, <2>2, <3>1 DEF ReceivedOf
      <4>2. \A b \in ReceivedOf(side) : \E k \in 1 .. Len(q) : q[k] = b
        BY <2>1, <3>1 DEF ReceivedOf
      <4> QED
        BY <2>3, <3>1, <4>1, <4>2 DEF Bijection, Injection, Surjection, IsInjective, Distinct
    <3> QED
      BY <3>2, <3>3, FS_Bijection DEF ExistsBijection
  <2> QED
    BY <2>1, <2>4, <2>5
<1> QED
  BY <1>1, ReaderInvariant, PTL

-----------------------------------------------------------------------------
(* How much is on its way                                                  *)

\* No two long messages of one side have one message id.  A client counts its requests
\* (client.ts:429); a server answers under the id of the request, where two long answers to one
\* request would share an entry of chunkAcks.
UniqueIds == \A s, t \in Sends : Long(s) /\ Long(t) /\ From[s] = From[t] /\ Id[s] = Id[t] => s = t

SlicesOf(s) == {m \in Message : IsSlice(m, s)}
AnswersTo(s) == {ChunkAck(Id[s])}

\* A promise is registered under the id of a long message of this side.
Registered == \A side \in Sides, i \in Ids : acks[side][i] # NoSend =>
    /\ acks[side][i] \in Sends /\ Long(acks[side][i])
    /\ Id[acks[side][i]] = i /\ From[acks[side][i]] = side

\* Whoever does not wait has nothing on its way.
Counted == \A s \in Sends : Long(s) =>
    HowMany(wire[To(s)], SlicesOf(s)) + HowMany(wire[From[s]], AnswersTo(s)) <= (IF state[s] = "waiting" THEN 1 ELSE 0)

PacedInv == WireInv /\ Registered /\ Counted

\* Nothing that is counted is written.
NoMore(q, r, T) == \/ r = q
                   \/ q # <<>> /\ r = Tail(q)
                   \/ \E m \in Message : r = Append(q, m) /\ m \notin T

LEMMA CountLess ==
  ASSUME NEW q \in Seq(Message), NEW r, NEW T, NoMore(q, r, T)
  PROVE  HowMany(q, T) \in Nat /\ HowMany(r, T) \in Nat /\ HowMany(r, T) <= HowMany(q, T)
<1>1. HowMany(q, T) \in Nat
  BY HowManyBounds
<1>2. CASE r = q
  BY <1>1, <1>2
<1>3. CASE q # <<>> /\ r = Tail(q)
  <2>1. HowMany(q, T) = HowMany(Tail(q), T) + (IF q[1] \in T THEN 1 ELSE 0)
    BY <1>3, HowManyTail
  <2>2. Tail(q) \in Seq(Message)
    BY <1>3, TailAt
  <2>3. HowMany(Tail(q), T) \in Nat
    BY <2>2, HowManyBounds
  <2> QED
    BY <1>1, <1>3, <2>1, <2>3
<1>4. CASE \E m \in Message : r = Append(q, m) /\ m \notin T
  <2>1. PICK m \in Message : r = Append(q, m) /\ m \notin T
    BY <1>4
  <2>2. HowMany(Append(q, m), T) = HowMany(q, T) + (IF m \in T THEN 1 ELSE 0)
    BY HowManyAppend
  <2> QED
    BY <1>1, <2>1, <2>2
<1> QED
  BY <1>2, <1>3, <1>4 DEF NoMore

\* The counts of one message.
LEMMA CountNat ==
  ASSUME WireInv, NEW t \in Sends
  PROVE  /\ HowMany(wire[To(t)], SlicesOf(t)) \in Nat /\ HowMany(wire[From[t]], AnswersTo(t)) \in Nat
         /\ wire[To(t)] \in Seq(Message) /\ wire[From[t]] \in Seq(Message)
<1>1. wire[To(t)] \in Seq(Message) /\ wire[From[t]] \in Seq(Message)
  BY WireTyped, Settings DEF WireInv
<1> QED
  BY <1>1, HowManyBounds

\* A message of which nothing is read or written, and that waits if it waited.
LEMMA CountedKeeps ==
  ASSUME WireInv, Counted, NEW t \in Sends, Long(t),
         NoMore(wire[To(t)], wire'[To(t)], SlicesOf(t)), NoMore(wire[From[t]], wire'[From[t]], AnswersTo(t)),
         state[t] = "waiting" => state'[t] = "waiting"
  PROVE  HowMany(wire'[To(t)], SlicesOf(t)) + HowMany(wire'[From[t]], AnswersTo(t))
             <= (IF state'[t] = "waiting" THEN 1 ELSE 0)
<1>1. PICK a, b : a = HowMany(wire[To(t)], SlicesOf(t)) /\ b = HowMany(wire[From[t]], AnswersTo(t))
  OBVIOUS
<1>2. a \in Nat /\ b \in Nat /\ wire[To(t)] \in Seq(Message) /\ wire[From[t]] \in Seq(Message)
  BY <1>1, CountNat
<1>3. PICK d, e : d = HowMany(wire'[To(t)], SlicesOf(t)) /\ e = HowMany(wire'[From[t]], AnswersTo(t))
  OBVIOUS
<1>4. d \in Nat /\ d <= a
  BY <1>1, <1>2, <1>3, CountLess
<1>5. e \in Nat /\ e <= b
  BY <1>1, <1>2, <1>3, CountLess
<1>6. a + b <= (IF state[t] = "waiting" THEN 1 ELSE 0)
  BY <1>1 DEF Counted
<1>7. d + e <= (IF state'[t] = "waiting" THEN 1 ELSE 0)
  BY <1>2, <1>4, <1>5, <1>6
<1> QED
  BY <1>3, <1>7

\* What is counted for whom.
LEMMA WhatCounts ==
  ASSUME NEW m \in Message, NEW t \in Sends
  PROVE  /\ m \in SlicesOf(t) <=> m.type = "chunk" /\ m.slice[1] = t
         /\ m \in AnswersTo(t) <=> m.type = "ack" /\ m.id = Id[t]
<1>1. m \in SlicesOf(t) <=> m.type = "chunk" /\ m.slice[1] = t
  BY DEF SlicesOf, IsSlice
<1>2. m \in AnswersTo(t) => m.type = "ack" /\ m.id = Id[t]
  BY DEF AnswersTo, ChunkAck
<1>3. ASSUME m.type = "ack", m.id = Id[t] PROVE m = ChunkAck(Id[t])
  <2>1. m \in [type : {"ack"}, id : Ids]
    BY <1>3 DEF Message
  <2>2. m = [type |-> m.type, id |-> m.id]
    BY <2>1
  <2> QED
    BY <1>3, <2>2 DEF ChunkAck
<1> QED
  BY <1>1, <1>2, <1>3 DEF AnswersTo

\* Counted, spelled out for a step.
LEMMA CountedIs ==
  ASSUME \A t \in Sends : Long(t) =>
             HowMany(wire'[To(t)], SlicesOf(t)) + HowMany(wire'[From[t]], AnswersTo(t))
                 <= (IF state'[t] = "waiting" THEN 1 ELSE 0)
  PROVE  Counted'
<1>1. \A t : To(t)' = To(t) /\ SlicesOf(t)' = SlicesOf(t) /\ AnswersTo(t)' = AnswersTo(t) /\ (Long(t)' <=> Long(t))
  BY DEF To, Other, SlicesOf, AnswersTo, IsSlice, ChunkAck, Long
<1>2. ASSUME NEW t \in Sends, Long(t)
      PROVE  (HowMany(wire[To(t)], SlicesOf(t)) + HowMany(wire[From[t]], AnswersTo(t))
                 <= (IF state[t] = "waiting" THEN 1 ELSE 0))'
  BY <1>1, <1>2, Zenon DEF HowMany
<1> QED
  BY <1>1, <1>2, Zenon DEF Counted

LEMMA CountWritesShort ==
  ASSUME PacedInv, NEW s \in Sends, WritesShort(s)
  PROVE  Counted'
<1>1. WireInv /\ Counted
  BY DEF PacedInv
<1>2. /\ ~Long(s) /\ \A t \in Sends \ {s} : state'[t] = state[t]
      /\ wire'[To(s)] = Append(wire[To(s)], Plain(s)) /\ wire'[From[s]] = wire[From[s]]
  BY DEF WritesShort
<1>3. PICK m : m = Plain(s)
  OBVIOUS
<1>4. m \in Message /\ m.type = "plain"
  <2>1. chunk[s] \in ChunkIds
    BY <1>1, WireTyped DEF WireInv
  <2> QED
    BY <1>3, <2>1, Kinds
<1>5. ASSUME NEW t \in Sends, NEW side \in Sides
      PROVE  NoMore(wire[side], wire'[side], SlicesOf(t)) /\ NoMore(wire[side], wire'[side], AnswersTo(t))
  <2>1. m \notin SlicesOf(t) /\ m \notin AnswersTo(t)
    BY <1>4, WhatCounts
  <2>2. side = To(s) \/ side = From[s]
    BY EitherSide
  <2> QED
    BY <1>2, <1>3, <1>4, <2>1, <2>2, Zenon DEF NoMore
<1>6. ASSUME NEW t \in Sends, Long(t)
      PROVE  HowMany(wire'[To(t)], SlicesOf(t)) + HowMany(wire'[From[t]], AnswersTo(t))
                 <= (IF state'[t] = "waiting" THEN 1 ELSE 0)
  <2>1. To(t) \in Sides /\ From[t] \in Sides /\ state'[t] = state[t]
    BY <1>2, <1>6, Settings
  <2> QED
    BY <1>1, <1>5, <1>6, <2>1, CountedKeeps
<1> QED
  BY <1>6, CountedIs

LEMMA CountReadsShort ==
  ASSUME PacedInv, NEW side \in Sides, NEW s \in Sends, ReadsShort(side, s)
  PROVE  Counted'
<1>1. WireInv /\ Counted
  BY DEF PacedInv
<1>2. /\ To(s) = side /\ state' = state
      /\ wire[side] # <<>> /\ IsPlain(wire[side][1], s)
      /\ wire'[side] = Tail(wire[side]) /\ wire'[From[s]] = wire[From[s]]
  BY DEF ReadsShort
<1>3. PICK m : m = wire[side][1]
  OBVIOUS
<1>4. m \in Message /\ m.type = "plain"
  <2>1. m \in Message
    BY <1>1, <1>2, <1>3, WireRead DEF WireInv
  <2> QED
    BY <1>2, <1>3, <2>1 DEF IsPlain
<1>5. ASSUME NEW t \in Sends, NEW x \in Sides
      PROVE  NoMore(wire[x], wire'[x], SlicesOf(t)) /\ NoMore(wire[x], wire'[x], AnswersTo(t))
  <2>1. m \notin SlicesOf(t) /\ m \notin AnswersTo(t)
    BY <1>4, WhatCounts
  <2>2. x = To(s) \/ x = From[s]
    BY EitherSide
  <2> QED
    BY <1>2, <1>3, <2>1, <2>2, Zenon DEF NoMore
<1>6. ASSUME NEW t \in Sends, Long(t)
      PROVE  HowMany(wire'[To(t)], SlicesOf(t)) + HowMany(wire'[From[t]], AnswersTo(t))
                 <= (IF state'[t] = "waiting" THEN 1 ELSE 0)
  <2>1. To(t) \in Sides /\ From[t] \in Sides /\ state'[t] = state[t]
    BY <1>2, <1>6, Settings
  <2> QED
    BY <1>1, <1>5, <1>6, <2>1, CountedKeeps
<1> QED
  BY <1>6, CountedIs

\* A slice is written by a call that does not wait, and then it waits.
LEMMA CountWrites ==
  ASSUME PacedInv, NEW s \in Sends, NEW c \in ChunkIds, NEW j \in Nat, Writes(s, c, j)
  PROVE  Counted'
<1>1. WireInv /\ Counted
  BY DEF PacedInv
<1>2. /\ Long(s) /\ state'[s] = "waiting" /\ \A t \in Sends \ {s} : state'[t] = state[t]
      /\ wire'[To(s)] = Append(wire[To(s)], ChunkOf(s, c, At(j))) /\ wire'[From[s]] = wire[From[s]]
      /\ state[s] = "idle" \/ state[s] = "acked"
  BY DEF Writes
<1>3. PICK m : m = ChunkOf(s, c, At(j))
  OBVIOUS
<1>4. m \in Message /\ m.type = "chunk" /\ m.slice[1] = s
  <2>1. At(j) \in Nat
    BY Multiples
  <2>2. m \in Message /\ m.type = "chunk" /\ m.slice = <<s, At(j)>>
    BY <1>3, <2>1, Kinds
  <2> QED
    BY <2>2
<1>5. ASSUME NEW t \in Sends, NEW side \in Sides
      PROVE  /\ t # s => NoMore(wire[side], wire'[side], SlicesOf(t))
             /\ NoMore(wire[side], wire'[side], AnswersTo(t))
  <2>1. (t # s => m \notin SlicesOf(t)) /\ m \notin AnswersTo(t)
    BY <1>4, WhatCounts
  <2>2. side = To(s) \/ side = From[s]
    BY EitherSide
  <2> QED
    BY <1>2, <1>3, <1>4, <2>1, <2>2, Zenon DEF NoMore
<1>6. ASSUME NEW t \in Sends, Long(t)
      PROVE  HowMany(wire'[To(t)], SlicesOf(t)) + HowMany(wire'[From[t]], AnswersTo(t))
                 <= (IF state'[t] = "waiting" THEN 1 ELSE 0)
  <2>1. To(t) \in Sides /\ From[t] \in Sides
    BY Settings
  <2>2. CASE t # s
    <3>1. state'[t] = state[t]
      BY <1>2, <2>2
    <3> QED
      BY <1>1, <1>5, <1>6, <2>1, <2>2, <3>1, CountedKeeps
  <2>3. CASE t = s
    <3>1. PICK a, b : a = HowMany(wire[To(s)], SlicesOf(s)) /\ b = HowMany(wire[From[s]], AnswersTo(s))
      OBVIOUS
    <3>2. a \in Nat /\ b \in Nat /\ wire[To(s)] \in Seq(Message) /\ wire[From[s]] \in Seq(Message)
      BY <1>1, <3>1, CountNat
    <3>3. a + b <= 0
      BY <1>1, <1>2, <3>1 DEF Counted
    <3>4. a = 0 /\ b = 0
      BY <3>2, <3>3
    <3>5. PICK d, e : d = HowMany(wire'[To(s)], SlicesOf(s)) /\ e = HowMany(wire'[From[s]], AnswersTo(s))
      OBVIOUS
    <3>6. HowMany(Append(wire[To(s)], m), SlicesOf(s)) = a + (IF m \in SlicesOf(s) THEN 1 ELSE 0)
      BY <1>4, <3>1, <3>2, HowManyAppend
    <3>7. d = IF m \in SlicesOf(s) THEN 1 ELSE 0
      BY <1>2, <1>3, <3>4, <3>5, <3>6
    <3>8. e = 0
      BY <1>2, <3>1, <3>4, <3>5
    <3>9. d + e <= (IF state'[s] = "waiting" THEN 1 ELSE 0)
      BY <1>2, <3>7, <3>8
    <3> QED
      BY <2>3, <3>5, <3>9
  <2> QED
    BY <2>2, <2>3
<1> QED
  BY <1>6, CountedIs

\* A slice is answered: it is the answer that is on its way now.
LEMMA CountReads ==
  ASSUME UniqueIds, PacedInv, NEW side \in Sides, NEW s \in Sends, NEW o \in Nat, NEW got, Reads(side, s, o, got)
  PROVE  Counted'
<1>1. WireInv /\ Counted
  BY DEF PacedInv
<1>2. /\ To(s) = side /\ Live(s) /\ state' = state
      /\ wire[side] # <<>> /\ IsSlice(wire[side][1], s)
      /\ wire'[side] = Tail(wire[side]) /\ wire'[From[s]] = Append(wire[From[s]], ChunkAck(Id[s]))
  BY DEF Reads
<1>3. PICK m : m = wire[side][1]
  OBVIOUS
<1>4. PICK r : r = ChunkAck(Id[s])
  OBVIOUS
<1>5. m \in Message /\ m.type = "chunk" /\ m.slice[1] = s /\ Long(s)
  <2>1. m \in Message
    BY <1>1, <1>2, <1>3, WireRead DEF WireInv
  <2> QED
    BY <1>2, <1>3, <2>1 DEF IsSlice, Live, Started
<1>6. r \in Message /\ r.type = "ack" /\ r.id = Id[s]
  <2>1. chunk[s] \in ChunkIds
    BY <1>1, WireTyped DEF WireInv
  <2> QED
    BY <1>4, <2>1, Kinds
<1>7. ASSUME NEW t \in Sends, Long(t), t # s
      PROVE  /\ NoMore(wire[To(t)], wire'[To(t)], SlicesOf(t))
             /\ NoMore(wire[From[t]], wire'[From[t]], AnswersTo(t))
  <2>1. m \notin SlicesOf(t) /\ m \notin AnswersTo(t) /\ r \notin SlicesOf(t)
    BY <1>5, <1>6, <1>7, WhatCounts
  <2>2. From[t] = From[s] => r \notin AnswersTo(t)
    <3> SUFFICES ASSUME From[t] = From[s], r \in AnswersTo(t) PROVE FALSE
      OBVIOUS
    <3>1. Id[t] = Id[s]
      BY <1>6, WhatCounts
    <3> QED
      BY <1>5, <1>7, <3>1 DEF UniqueIds
  <2>3. (From[t] = From[s] /\ To(t) = side) \/ (From[t] = side /\ To(t) = From[s])
    <3>1. To(t) = side \/ To(t) = From[s]
      BY <1>2, Settings, EitherSide
    <3>2. From[t] = Other(To(t)) /\ From[s] = Other(To(s)) /\ To(s) = Other(From[s])
      BY Settings DEF To
    <3> QED
      BY <1>2, <3>1, <3>2
  <2> QED
    BY <1>2, <1>3, <1>4, <1>6, <2>1, <2>2, <2>3, Zenon DEF NoMore
<1>8. ASSUME NEW t \in Sends, Long(t)
      PROVE  HowMany(wire'[To(t)], SlicesOf(t)) + HowMany(wire'[From[t]], AnswersTo(t))
                 <= (IF state'[t] = "waiting" THEN 1 ELSE 0)
  <2>1. CASE t # s
    BY <1>1, <1>2, <1>7, <1>8, <2>1, CountedKeeps
  <2>2. CASE t = s
    <3>1. PICK a, b : a = HowMany(wire[To(s)], SlicesOf(s)) /\ b = HowMany(wire[From[s]], AnswersTo(s))
      OBVIOUS
    <3>2. a \in Nat /\ b \in Nat /\ wire[To(s)] \in Seq(Message) /\ wire[From[s]] \in Seq(Message)
      BY <1>1, <3>1, CountNat
    <3>3. a + b <= (IF state[s] = "waiting" THEN 1 ELSE 0)
      BY <1>1, <1>5, <3>1 DEF Counted
    <3>4. m \in SlicesOf(s) /\ r \in AnswersTo(s)
      BY <1>5, <1>6, WhatCounts
    <3>5. PICK d, e : d = HowMany(wire'[To(s)], SlicesOf(s)) /\ e = HowMany(wire'[From[s]], AnswersTo(s))
      OBVIOUS
    <3>6. a = HowMany(Tail(wire[side]), SlicesOf(s)) + (IF m \in SlicesOf(s) THEN 1 ELSE 0)
      BY <1>2, <1>3, <3>1, <3>2, HowManyTail
    <3>7. a = d + 1 /\ d \in Nat
      <4>1. a = d + (IF m \in SlicesOf(s) THEN 1 ELSE 0)
        BY <1>2, <3>5, <3>6
      <4>2. wire'[To(s)] \in Seq(Message)
        BY <1>2, <3>2, TailAt
      <4>3. d \in Nat
        BY <3>5, <4>2, HowManyBounds
      <4> QED
        BY <3>4, <4>1, <4>3
    <3>8. HowMany(Append(wire[From[s]], r), AnswersTo(s)) = b + (IF r \in AnswersTo(s) THEN 1 ELSE 0)
      BY <1>6, <3>1, <3>2, HowManyAppend
    <3>9. e = b + 1
      BY <1>2, <1>4, <3>2, <3>4, <3>5, <3>8
    <3>10. d + e <= (IF state'[s] = "waiting" THEN 1 ELSE 0)
      <4>1. d + e = a + b
        BY <3>2, <3>7, <3>9
      <4> QED
        BY <1>2, <3>3, <4>1
    <3> QED
      BY <2>2, <3>5, <3>10
  <2> QED
    BY <2>1, <2>2
<1> QED
  BY <1>8, CountedIs

\* writeFull() goes on or returns: nothing is read or written.
LEMMA CountStill ==
  ASSUME PacedInv, wire' = wire, \A t \in Sends : state[t] = "waiting" => state'[t] = "waiting"
  PROVE  Counted'
<1>1. WireInv /\ Counted
  BY DEF PacedInv
<1>2. ASSUME NEW t \in Sends, Long(t)
      PROVE  HowMany(wire'[To(t)], SlicesOf(t)) + HowMany(wire'[From[t]], AnswersTo(t))
                 <= (IF state'[t] = "waiting" THEN 1 ELSE 0)
  <2>1. /\ NoMore(wire[To(t)], wire'[To(t)], SlicesOf(t))
        /\ NoMore(wire[From[t]], wire'[From[t]], AnswersTo(t))
    BY Zenon DEF NoMore
  <2> QED
    BY <1>1, <1>2, <2>1, CountedKeeps
<1> QED
  BY <1>2, CountedIs

\* An acknowledgement arrives.  The promise it resolves is that of the message it is for.
LEMMA CountAcked ==
  ASSUME PacedInv, NEW side \in Sides, GotAck(side)
  PROVE  Counted'
<1>1. WireInv /\ Counted /\ Registered
  BY DEF PacedInv
<1>2. PICK m : m = wire[side][1]
  OBVIOUS
<1>3. PICK s : s = acks[side][m.id]
  OBVIOUS
<1>4. /\ wire[side] # <<>> /\ m \in Message /\ m.type = "ack" /\ m = Head(wire[side])
      /\ wire'[side] = Tail(wire[side]) /\ wire'[Other(side)] = wire[Other(side)]
  <2>1. wire[side] # <<>> /\ Head(wire[side]).type = "ack" /\ wire' = [wire EXCEPT ![side] = Tail(@)]
    BY DEF GotAck, Arrives
  <2> QED
    BY <1>1, <1>2, <2>1, WireRead DEF WireInv
<1>5. m.id \in Ids
  BY <1>4 DEF Message
<1>6. state' = IF s # NoSend /\ state[s] = "waiting" THEN [state EXCEPT ![s] = "acked"] ELSE state
  BY <1>3, <1>4 DEF GotAck
<1>7. state \in [Sends -> States]
  BY <1>1, WireTyped DEF WireInv
<1>8. ASSUME NEW t \in Sends, NEW x \in Sides, NEW T PROVE NoMore(wire[x], wire'[x], T)
  <2>1. x = side \/ x = Other(side)
    BY DEF Sides, Other
  <2> QED
    BY <1>4, <2>1, Zenon DEF NoMore
<1>9. ASSUME NEW t \in Sends, Long(t)
      PROVE  HowMany(wire'[To(t)], SlicesOf(t)) + HowMany(wire'[From[t]], AnswersTo(t))
                 <= (IF state'[t] = "waiting" THEN 1 ELSE 0)
  <2>1. To(t) \in Sides /\ From[t] \in Sides /\ To(t) = Other(From[t])
    BY Settings DEF To
  <2>2. CASE state'[t] = state[t]
    BY <1>1, <1>8, <1>9, <2>1, <2>2, CountedKeeps
  <2>3. CASE state'[t] # state[t]
    <3>1. t = s /\ s # NoSend /\ state[t] = "waiting"
      BY <1>6, <1>7, <2>3
    <3>2. Id[t] = m.id /\ From[t] = side
      BY <1>1, <1>3, <1>5, <3>1 DEF Registered
    <3>3. PICK a, b : a = HowMany(wire[To(t)], SlicesOf(t)) /\ b = HowMany(wire[side], AnswersTo(t))
      OBVIOUS
    <3>4. a \in Nat /\ b \in Nat /\ wire[side] \in Seq(Message)
      BY <1>1, <3>2, <3>3, CountNat
    <3>5. a + b <= 1
      BY <1>1, <1>9, <3>1, <3>2, <3>3 DEF Counted
    <3>6. m \in AnswersTo(t)
      BY <1>4, <3>2, WhatCounts
    <3>7. b = HowMany(Tail(wire[side]), AnswersTo(t)) + (IF m \in AnswersTo(t) THEN 1 ELSE 0)
      BY <1>2, <1>4, <3>3, <3>4, HowManyTail
    <3>8. PICK d, e : d = HowMany(wire'[To(t)], SlicesOf(t)) /\ e = HowMany(wire'[side], AnswersTo(t))
      OBVIOUS
    <3>9. d = a
      BY <1>4, <2>1, <3>2, <3>3, <3>8
    <3>10. e \in Nat
      <4>1. wire'[side] \in Seq(Message)
        BY <1>4, <3>4, TailAt
      <4> QED
        BY <3>8, <4>1, HowManyBounds
    <3>11. b = e + 1
      BY <1>4, <3>6, <3>7, <3>8, <3>10
    <3>12. d = 0 /\ e = 0
      BY <3>4, <3>5, <3>9, <3>10, <3>11
    <3>13. d + e <= (IF state'[t] = "waiting" THEN 1 ELSE 0)
      BY <3>12
    <3> QED
      BY <3>2, <3>8, <3>13
  <2> QED
    BY <2>2, <2>3
<1> QED
  BY <1>9, CountedIs

\* The connection breaks, or has just been made: nothing is on its way.
LEMMA CountNone ==
  ASSUME NEW t \in Sends, NEW w, w = [side \in Sides |-> <<>>]
  PROVE  HowMany(w[To(t)], SlicesOf(t)) + HowMany(w[From[t]], AnswersTo(t)) = 0
<1>1. w[To(t)] = <<>> /\ w[From[t]] = <<>>
  BY Settings
<1>2. HowMany(w[To(t)], SlicesOf(t)) = 0 /\ HowMany(w[From[t]], AnswersTo(t)) = 0
  BY <1>1, HowManyEmpty
<1> QED
  BY <1>2

LEMMA CountReconnects ==
  ASSUME Reconnect
  PROVE  Counted'
<1>1. wire' = [side \in Sides |-> <<>>]
  BY DEF Reconnect
<1>2. ASSUME NEW t \in Sends
      PROVE  HowMany(wire'[To(t)], SlicesOf(t)) + HowMany(wire'[From[t]], AnswersTo(t))
                 <= (IF state'[t] = "waiting" THEN 1 ELSE 0)
  <2>1. HowMany(wire'[To(t)], SlicesOf(t)) + HowMany(wire'[From[t]], AnswersTo(t)) = 0
    BY <1>1, CountNone
  <2> QED
    BY <2>1
<1> QED
  BY <1>2, CountedIs

\* A promise is registered by the writer of the message; the reader only removes some.
LEMMA RegisteredNext ==
  ASSUME WireInv, Registered, [ChunkNext]_chunkVars
  PROVE  Registered'
<1>1. /\ acks \in [Sides -> [Ids -> Sends \cup {NoSend}]]
      /\ ChunkTypeOK /\ Offsets
  BY DEF WireInv, ChunkTypeOK
<1> DEFINE Becomes(side, i) == \/ acks'[side][i] = acks[side][i]
                               \/ acks'[side][i] = NoSend
                               \/ \E s \in Sends : /\ Long(s) /\ Id[s] = i /\ From[s] = side
                                                   /\ acks'[side][i] = s
<1>2. ASSUME NEW x \in Sides, NEW n, NEW s \in Sends, acks' = [acks EXCEPT ![x][n] = s], Long(s), Id[s] = n, From[s] = x,
             NEW side \in Sides, NEW i \in Ids
      PROVE  Becomes(side, i)
  <2>1. CASE side = x /\ i = n
    BY <1>1, <1>2, <2>1
  <2>2. CASE ~(side = x /\ i = n)
    <3>1. acks'[side][i] = acks[side][i]
      BY <1>1, <1>2, <2>2
    <3> QED
      BY <3>1
  <2> QED
    BY <2>1, <2>2
<1>3. ASSUME NEW s \in Sends, Step(s), NEW side \in Sides, NEW i \in Ids
      PROVE  Becomes(side, i)
  <2>1. \/ acks' = acks
        \/ acks' = [acks EXCEPT ![From[s]][Id[s]] = s] /\ (Bytes[s] >= ChunkSize \/ state[s] = "acked")
        \/ acks' = [acks EXCEPT !["client"][Id[s]] = s] /\ From[s] = "client" /\ state[s] = "acked"
    BY <1>3 DEF Step, WriteShort, WriteLong, NextSlice, Acked, Return, NextSliceLost, WriteSlice
  <2>2. state[s] = "acked" => Long(s)
    BY <1>1 DEF Offsets
  <2>3. From[s] \in Sides
    BY Settings
  <2>4. CASE acks' = acks
    BY <2>4
  <2>5. CASE acks' = [acks EXCEPT ![From[s]][Id[s]] = s] /\ Long(s)
    BY <1>2, <1>3, <2>3, <2>5
  <2> QED
    BY <2>1, <2>2, <2>4, <2>5 DEF Long
<1>4. ASSUME NEW x \in Sides, Got(x), NEW side \in Sides, NEW i \in Ids
      PROVE  Becomes(side, i)
  <2>1. acks' = acks \/ \E n : acks' = [acks EXCEPT ![x][n] = NoSend]
    BY <1>4 DEF Got, GotPlain, GotAck, GotChunk, GotLastChunk
  <2>2. acks'[side][i] = acks[side][i] \/ acks'[side][i] = NoSend
    BY <1>1, <2>1
  <2> QED
    BY <2>2
<1>5. ASSUME Reconnect, NEW side \in Sides, NEW i \in Ids
      PROVE  Becomes(side, i)
  <2>1. acks' = [acks EXCEPT !["server"] = [n \in Ids |-> NoSend]]
    BY <1>5 DEF Reconnect
  <2>2. acks'[side][i] = acks[side][i] \/ acks'[side][i] = NoSend
    BY <1>1, <2>1
  <2> QED
    BY <2>2
<1>6. ASSUME UNCHANGED chunkVars, NEW side \in Sides, NEW i \in Ids
      PROVE  Becomes(side, i)
  BY <1>6 DEF chunkVars
<1>7. \A side \in Sides, i \in Ids : Becomes(side, i)
  BY <1>3, <1>4, <1>5, <1>6 DEF ChunkNext
<1>8. ASSUME NEW side \in Sides, NEW i \in Ids, acks'[side][i] # NoSend
      PROVE  /\ acks'[side][i] \in Sends /\ Long(acks'[side][i])
             /\ Id[acks'[side][i]] = i /\ From[acks'[side][i]] = side
  <2>1. PICK s : s = acks'[side][i]
    OBVIOUS
  <2>2. \/ s = acks[side][i]
        \/ s \in Sends /\ Long(s) /\ Id[s] = i /\ From[s] = side
    BY <1>7, <1>8, <2>1
  <2> QED
    BY <1>8, <2>1, <2>2 DEF Registered
<1> QED
  BY <1>8, Zenon DEF Registered, Long

LEMMA PacedStart ==
  ASSUME ChunkInit
  PROVE  PacedInv
<1>1. WireInv
  BY WireStart
<1>2. acks = [side \in Sides |-> [i \in Ids |-> NoSend]] /\ wire = [side \in Sides |-> <<>>]
  BY DEF ChunkInit
<1>3. Registered
  BY <1>2 DEF Registered
<1>4. Counted
  <2> SUFFICES ASSUME NEW t \in Sends
               PROVE  HowMany(wire[To(t)], SlicesOf(t)) + HowMany(wire[From[t]], AnswersTo(t))
                          <= (IF state[t] = "waiting" THEN 1 ELSE 0)
    BY DEF Counted
  <2>1. HowMany(wire[To(t)], SlicesOf(t)) + HowMany(wire[From[t]], AnswersTo(t)) = 0
    BY <1>2, CountNone
  <2> QED
    BY <2>1
<1> QED
  BY <1>1, <1>3, <1>4 DEF PacedInv

LEMMA PacedNext ==
  ASSUME UniqueIds, PacedInv, [ChunkNext]_chunkVars
  PROVE  PacedInv'
<1>1. WireInv /\ WireInv' /\ Registered
  BY WireNext DEF PacedInv
<1>2. Registered'
  BY <1>1, RegisteredNext
<1>3. state \in [Sends -> States]
  BY <1>1, WireTyped DEF WireInv
<1>4. ASSUME NEW s \in Sends, Step(s) PROVE Counted'
  <2>1. CASE WriteShort(s)
    BY <1>1, <2>1, WritingShort, CountWritesShort
  <2>2. CASE WriteLong(s) \/ NextSlice(s)
    <3>1. PICK c \in ChunkIds, j \in Nat : Writes(s, c, j)
      BY <1>1, <2>2, Writing
    <3> QED
      BY <3>1, CountWrites
  <2>3. CASE Return(s) \/ NextSliceLost(s)
    <3>1. /\ wire' = wire /\ state[s] = "acked"
          /\ state' = [state EXCEPT ![s] = "done"] \/ state' = [state EXCEPT ![s] = "waiting"]
      BY <2>3 DEF Return, NextSliceLost, Acked
    <3>2. \A t \in Sends : state[t] = "waiting" => state'[t] = "waiting"
      BY <1>3, <3>1
    <3> QED
      BY <3>1, <3>2, CountStill
  <2> QED
    BY <1>4, <2>1, <2>2, <2>3 DEF Step
<1>5. ASSUME NEW side \in Sides, Got(side) PROVE Counted'
  <2>1. CASE GotPlain(side)
    <3>1. PICK s \in Sends : ReadsShort(side, s)
      BY <1>1, <2>1, ReadingShort
    <3> QED
      BY <3>1, CountReadsShort
  <2>2. CASE GotAck(side)
    BY <2>2, CountAcked
  <2>3. CASE GotChunk(side) \/ GotLastChunk(side)
    <3>1. PICK s \in Sends, o \in Nat, got \in Collected : Reads(side, s, o, got)
      BY <1>1, <2>3, Reading
    <3> QED
      BY <3>1, CountReads
  <2> QED
    BY <1>5, <2>1, <2>2, <2>3 DEF Got
<1>6. ASSUME Reconnect PROVE Counted'
  BY <1>6, CountReconnects
<1>7. ASSUME UNCHANGED chunkVars PROVE Counted'
  <2>1. wire' = wire /\ state' = state
    BY <1>7 DEF chunkVars
  <2> QED
    BY <2>1, CountStill
<1>8. Counted'
  BY <1>4, <1>5, <1>6, <1>7 DEF ChunkNext
<1> QED
  BY <1>1, <1>2, <1>8, Zenon DEF PacedInv

\* What the invariant says of the set of positions.
LEMMA InFlight ==
  ASSUME PacedInv
  PROVE  OneInFlight
<1>1. WireInv /\ Counted
  BY DEF PacedInv
<1> SUFFICES ASSUME NEW s \in Sends
             PROVE  LET to == Other(From[s])
                        slices == {k \in DOMAIN wire[to] : wire[to][k].type = "chunk" /\ wire[to][k].slice[1] = s}
                        answers == {k \in DOMAIN wire[From[s]] : wire[From[s]][k] = ChunkAck(Id[s])}
                    IN Cardinality(slices) + Cardinality(answers) <= 1
  BY DEF OneInFlight
<1> DEFINE to == Other(From[s])
           slices == {k \in DOMAIN wire[to] : wire[to][k].type = "chunk" /\ wire[to][k].slice[1] = s}
           answers == {k \in DOMAIN wire[From[s]] : wire[From[s]][k] = ChunkAck(Id[s])}
<1>2. to = To(s) /\ wire[to] \in Seq(Message) /\ wire[From[s]] \in Seq(Message)
  BY <1>1, CountNat DEF To
<1>3. Cardinality(slices) = HowMany(wire[To(s)], SlicesOf(s))
  <2>1. \A k \in DOMAIN wire[to] : wire[to][k] \in Message
    BY <1>2
  <2>2. \A k \in DOMAIN wire[to] : wire[to][k] \in SlicesOf(s) <=> wire[to][k].type = "chunk" /\ wire[to][k].slice[1] = s
    BY <2>1, Zenon DEF SlicesOf, IsSlice
  <2>3. slices = {k \in DOMAIN wire[to] : wire[to][k] \in SlicesOf(s)}
    BY <2>2, Zenon
  <2> QED
    BY <1>2, <2>3 DEF HowMany
<1>4. Cardinality(answers) = HowMany(wire[From[s]], AnswersTo(s))
  <2>1. answers = {k \in DOMAIN wire[From[s]] : wire[From[s]][k] \in AnswersTo(s)}
    BY DEF AnswersTo
  <2> QED
    BY <2>1 DEF HowMany
<1>5. PICK a, b : a = HowMany(wire[To(s)], SlicesOf(s)) /\ b = HowMany(wire[From[s]], AnswersTo(s))
  OBVIOUS
<1>6. a \in Nat /\ b \in Nat
  BY <1>1, <1>5, CountNat
<1>7. a + b <= 1
  <2>1. CASE Long(s)
    <3>1. a + b <= (IF state[s] = "waiting" THEN 1 ELSE 0)
      BY <1>1, <1>5, <2>1 DEF Counted
    <3> QED
      BY <1>6, <3>1
  <2>2. CASE ~Long(s)
    <3>1. slices = {}
      <4> SUFFICES ASSUME NEW k \in slices PROVE FALSE
        OBVIOUS
      <4>1. k \in DOMAIN wire[To(s)] /\ IsSlice(wire[To(s)][k], s)
        BY <1>2 DEF IsSlice
      <4> QED
        BY <1>1, <2>2, <4>1, WireTells DEF Live, Started
    <3>2. a = 0
      BY <1>3, <1>5, <3>1, FS_EmptySet
    <3>3. b <= 1
      <4>1. CASE answers = {}
        BY <1>4, <1>5, <4>1, FS_EmptySet
      <4>2. CASE answers # {}
        <5>1. PICK k \in DOMAIN wire[From[s]] : wire[From[s]][k] = ChunkAck(Id[s])
          BY <4>2
        <5>2. PICK m : m = ChunkAck(Id[s])
          OBVIOUS
        <5>3. OnWire(From[s], m)
          BY <1>1, <5>1, <5>2, Settings DEF WireInv, Sent
        <5>4. m.type = "ack" /\ \A t \in Sends : m # Plain(t) /\ \A o : m # ChunkOf(t, chunk[t], o)
          BY <5>2 DEF ChunkAck, Plain, ChunkOf
        <5>5. PICK t \in Sends : m = ChunkAck(Id[t]) /\ Long(t) /\ From[t] = From[s]
          BY <5>3, <5>4, Zenon DEF OnWire
        <5>6. b = HowMany(wire[From[t]], AnswersTo(t))
          BY <1>5, <5>2, <5>5 DEF AnswersTo
        <5>7. PICK c : c = HowMany(wire[To(t)], SlicesOf(t))
          OBVIOUS
        <5>8. c + b <= (IF state[t] = "waiting" THEN 1 ELSE 0)
          BY <1>1, <5>5, <5>6, <5>7 DEF Counted
        <5>9. c \in Nat
          BY <1>1, <5>7, CountNat
        <5> QED
          BY <1>6, <5>8, <5>9
      <4> QED
        BY <4>1, <4>2
    <3> QED
      BY <1>6, <3>2, <3>3
  <2> QED
    BY <2>1, <2>2
<1>8. Cardinality(slices) + Cardinality(answers) <= 1
  BY <1>3, <1>4, <1>5, <1>7
<1> QED
  BY <1>8

\* The writers wait for their readers: with any number of messages of any length from both sides
\* and however often the connection breaks, each long message has at most one slice or one
\* acknowledgement on its way, if the long messages of a side have different ids.
THEOREM ChunksPaced == UniqueIds => (ChunkSpec => []Paced)
<1> SUFFICES ASSUME UniqueIds PROVE ChunkSpec => []Paced
  OBVIOUS
<1>1. ChunkInit => PacedInv
  BY PacedStart
<1>2. PacedInv /\ [ChunkNext]_chunkVars => PacedInv'
  BY PacedNext
<1>3. PacedInv => Paced
  BY InFlight DEF PacedInv, WireInv, Paced
<1> QED
  BY <1>1, <1>2, <1>3, PTL DEF ChunkSpec

=============================================================================
