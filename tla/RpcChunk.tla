------------------------------ MODULE RpcChunk ------------------------------
(***************************************************************************)
(* Two ends of an RPC connection, each with the RpcMessageWriter of        *)
(* packages/rpc/src/writer.ts and the RpcMessageReader of protocol.ts.  A  *)
(* message of ChunkSize bytes or more is cut into chunks; the next chunk   *)
(* is written when the other reader has acknowledged the one before.       *)
(*                                                                         *)
(* The connection may break and be made again.  The server then has a new  *)
(* RpcKernelConnection with a new reader and writer; the client has a new  *)
(* writer (client.ts:210) but keeps the one reader it was created with     *)
(* (client.ts:116), partly assembled messages and acknowledgements         *)
(* included.                                                               *)
(*                                                                         *)
(* A slice of a message is <<send, offset>>.  Byte streams, framing and    *)
(* the Progress trackers are left out (RpcBufferReader has the framing).   *)
(***************************************************************************)
EXTENDS Integers, Sequences, FiniteSets

CONSTANTS Sends,        \* the calls of write()
          Id,           \* message.id of each
          From,         \* the side that writes it: "client" or "server"
          Bytes,        \* its length
          ChunkSize,    \* options.chunkSize
          Before,       \* long messages each side has already written: its first chunkId
          MaxBreaks     \* bound: how often the connection breaks

ASSUME ChunkAssumption ==
    /\ IsFiniteSet(Sends)
    /\ ChunkSize \in Nat \ {0}
    /\ MaxBreaks \in Nat
    /\ Before \in [{"client", "server"} -> Nat]
    /\ Id \in [Sends -> Nat]
    /\ From \in [Sends -> {"client", "server"}]
    /\ Bytes \in [Sends -> Nat \ {0}]

Sides == {"client", "server"}
Other(side) == IF side = "client" THEN "server" ELSE "client"
ChunkIds == 0 .. Cardinality(Sends) + Before["client"] + Before["server"]
Ids == {Id[s] : s \in Sends} \cup ChunkIds     \* the numbers that occur
NoSend == "none"
Nothing == [loaded |-> 0, buffers |-> <<>>]

VARIABLES state,       \* of writeFull(s): not called, waiting for an ack, acked, returned
          offset,      \* its local offset
          chunk,       \* its local chunkId
          conn,        \* the connection its writer belongs to
          chunkId,     \* writer.chunkId, per side
          acks,        \* reader.chunkAcks: the send whose promise is registered
          chunks,      \* reader.chunks
          wire,        \* what is on its way to a side
          received,    \* the messages given to onMessage, as the slices they consist of
          epoch,       \* number of the connection
          torn         \* history: did the client's reader keep part of a message over a break?

writers == <<state, offset, chunk, conn, chunkId>>
chunkVars == <<state, offset, chunk, conn, chunkId, acks, chunks, wire, received, epoch, torn>>

Least(a, b) == IF a < b THEN a ELSE b
SliceLen(p) == Least(ChunkSize, Bytes[p[1]] - p[2])
Slices(s) == IF Bytes[s] < ChunkSize THEN <<<<s, 0>>>>
             ELSE [k \in 1 .. (Bytes[s] + ChunkSize - 1) \div ChunkSize |-> <<s, (k - 1) * ChunkSize>>]

Plain(s) == [type |-> "plain", id |-> Id[s], send |-> s]
ChunkOf(s, c, o) == [type |-> "chunk", id |-> Id[s], body |-> c, slice |-> <<s, o>>]
ChunkAck(id) == [type |-> "ack", id |-> id]

Collected == [loaded : Nat, buffers : Seq(Sends \X Nat)]
Message == [type : {"plain"}, id : Nat, send : Sends]
           \cup [type : {"chunk"}, id : Ids, body : ChunkIds, slice : Sends \X Nat]
           \cup [type : {"ack"}, id : Ids]

ChunkTypeOK ==
    /\ state \in [Sends -> {"idle", "waiting", "acked", "done"}]
    /\ offset \in [Sends -> Nat] /\ \A s \in Sends : offset[s] <= Bytes[s]
    /\ chunk \in [Sends -> ChunkIds]
    /\ conn \in [Sends -> Nat] /\ \A s \in Sends : conn[s] <= epoch
    /\ chunkId \in [Sides -> ChunkIds]
    /\ acks \in [Sides -> [Ids -> Sends \cup {NoSend}]]
    /\ chunks \in [Sides -> [Ids -> Collected]]
    /\ wire \in [Sides -> Seq(Message)]
    /\ received \in [Sides -> Seq(Seq(Sends \X Nat))]
    /\ epoch \in 0 .. MaxBreaks
    /\ torn \in BOOLEAN

ChunkInit ==
    /\ state = [s \in Sends |-> "idle"]
    /\ offset = [s \in Sends |-> 0]
    /\ chunk = [s \in Sends |-> 0]
    /\ conn = [s \in Sends |-> 0]
    /\ chunkId = Before
    /\ acks = [side \in Sides |-> [i \in Ids |-> NoSend]]
    /\ chunks = [side \in Sides |-> [c \in Ids |-> Nothing]]
    /\ wire = [side \in Sides |-> <<>>]
    /\ received = [side \in Sides |-> <<>>]
    /\ epoch = 0
    /\ torn = FALSE

-----------------------------------------------------------------------------
(* RpcMessageWriter.writeFull                                              *)

\* Mutant: offset is advanced by the chunk size instead of the slice's length.
WriteSlice_FullStep(s, c, o) ==
    /\ state' = [state EXCEPT ![s] = "waiting"]
    /\ offset' = [offset EXCEPT ![s] = o + ChunkSize]
    /\ wire' = [wire EXCEPT ![Other(From[s])] = Append(@, ChunkOf(s, c, o))]
    /\ acks' = [acks EXCEPT ![From[s]][Id[s]] = s]

\* One turn of its loop: register for the ack, then write the slice.
WriteSlice(s, c, o) ==
    /\ state' = [state EXCEPT ![s] = "waiting"]
    /\ offset' = [offset EXCEPT ![s] = o + SliceLen(<<s, o>>)]
    /\ wire' = [wire EXCEPT ![Other(From[s])] = Append(@, ChunkOf(s, c, o))]
    /\ acks' = [acks EXCEPT ![From[s]][Id[s]] = s]

\* A short message is written as it is.
WriteShort(s) == /\ state[s] = "idle"
                 /\ Bytes[s] < ChunkSize
                 /\ wire' = [wire EXCEPT ![Other(From[s])] = Append(@, Plain(s))]
                 /\ state' = [state EXCEPT ![s] = "done"]
                 /\ conn' = [conn EXCEPT ![s] = epoch]
                 /\ UNCHANGED <<offset, chunk, chunkId, acks, chunks, received, epoch, torn>>

WriteLong(s) == /\ state[s] = "idle"
                /\ Bytes[s] >= ChunkSize
                /\ chunk' = [chunk EXCEPT ![s] = chunkId[From[s]]]
                /\ chunkId' = [chunkId EXCEPT ![From[s]] = @ + 1]
                /\ conn' = [conn EXCEPT ![s] = epoch]
                /\ WriteSlice(s, chunkId[From[s]], 0)
                /\ UNCHANGED <<chunks, received, epoch, torn>>

\* Mutant: the writer does not wait for the acknowledgement.
Acked_NoWait(s) == state[s] \in {"waiting", "acked"}

\* Its promise has been resolved.
Acked(s) == state[s] = "acked"

NextSlice(s) == /\ Acked(s)
                /\ offset[s] < Bytes[s]
                /\ conn[s] = epoch
                /\ WriteSlice(s, chunk[s], offset[s])
                /\ UNCHANGED <<chunk, conn, chunkId, chunks, received, epoch, torn>>

Return(s) == /\ Acked(s)
             /\ offset[s] = Bytes[s]
             /\ state' = [state EXCEPT ![s] = "done"]
             /\ UNCHANGED <<offset, chunk, conn, chunkId, acks, chunks, wire, received, epoch, torn>>

\* The writer of an earlier connection goes on.  What it writes is lost; on
\* the client it still registers with the reader, which is the same one.
NextSliceLost(s) ==
    /\ state[s] = "acked"
    /\ offset[s] < Bytes[s]
    /\ conn[s] # epoch
    /\ state' = [state EXCEPT ![s] = "waiting"]
    /\ offset' = [offset EXCEPT ![s] = @ + SliceLen(<<s, @>>)]
    /\ acks' = IF From[s] = "client" THEN [acks EXCEPT !["client"][Id[s]] = s] ELSE acks
    /\ UNCHANGED <<chunk, conn, chunkId, chunks, wire, received, epoch, torn>>

-----------------------------------------------------------------------------
(* RpcMessageReader.gotMessage                                             *)

Arrives(side, type) == wire[side] # <<>> /\ Head(wire[side]).type = type

GotPlain(side) ==
    /\ Arrives(side, "plain")
    /\ received' = [received EXCEPT ![side] = Append(@, <<<<Head(wire[side]).send, 0>>>>)]
    /\ wire' = [wire EXCEPT ![side] = Tail(@)]
    /\ UNCHANGED <<writers, acks, chunks, epoch, torn>>

\* The callback registered for the message id, if there is one, is called;
\* for a promise that is resolved already this does nothing.
GotAck(side) ==
    LET s == acks[side][Head(wire[side]).id]
    IN /\ Arrives(side, "ack")
       /\ wire' = [wire EXCEPT ![side] = Tail(@)]
       /\ state' = IF s # NoSend /\ state[s] = "waiting" THEN [state EXCEPT ![s] = "acked"] ELSE state
       /\ UNCHANGED <<offset, chunk, conn, chunkId, acks, chunks, received, epoch, torn>>

\* What the chunks of a message are collected under: body.id.
Key(m) == m.body

\* A chunk has been added and acknowledged; more are missing.
GotChunk(side) ==
    LET m == Head(wire[side])
        got == [loaded |-> chunks[side][Key(m)].loaded + SliceLen(m.slice),
                buffers |-> Append(chunks[side][Key(m)].buffers, m.slice)]
    IN /\ Arrives(side, "chunk")
       /\ got.loaded # Bytes[m.slice[1]]
       /\ chunks' = [chunks EXCEPT ![side][Key(m)] = got]
       /\ wire' = [wire EXCEPT ![side] = Tail(@), ![Other(side)] = Append(@, ChunkAck(m.id))]
       /\ UNCHANGED <<writers, acks, received, epoch, torn>>

\* Mutant: the last chunk is not acknowledged.
GotLastChunk_NoAck(side) ==
    LET m == Head(wire[side])
        got == [loaded |-> chunks[side][Key(m)].loaded + SliceLen(m.slice),
                buffers |-> Append(chunks[side][Key(m)].buffers, m.slice)]
    IN /\ Arrives(side, "chunk")
       /\ got.loaded = Bytes[m.slice[1]]
       /\ received' = [received EXCEPT ![side] = Append(@, got.buffers)]
       /\ chunks' = [chunks EXCEPT ![side][Key(m)] = Nothing]
       /\ acks' = [acks EXCEPT ![side][m.body] = NoSend]
       /\ wire' = [wire EXCEPT ![side] = Tail(@)]
       /\ UNCHANGED <<writers, epoch, torn>>

\* loaded === total: `we're done`.  chunkAcks.delete() is given the id the
\* other side has numbered its chunks with, although this side's chunkAcks
\* are kept by message id.
GotLastChunk(side) ==
    LET m == Head(wire[side])
        got == [loaded |-> chunks[side][Key(m)].loaded + SliceLen(m.slice),
                buffers |-> Append(chunks[side][Key(m)].buffers, m.slice)]
    IN /\ Arrives(side, "chunk")
       /\ got.loaded = Bytes[m.slice[1]]
       /\ received' = [received EXCEPT ![side] = Append(@, got.buffers)]
       /\ chunks' = [chunks EXCEPT ![side][Key(m)] = Nothing]
       /\ acks' = [acks EXCEPT ![side][m.body] = NoSend]
       /\ wire' = [wire EXCEPT ![side] = Tail(@), ![Other(side)] = Append(@, ChunkAck(m.id))]
       /\ UNCHANGED <<writers, epoch, torn>>

-----------------------------------------------------------------------------
\* Mutant: the server keeps its reader as well.
Reconnect_KeepsReader == /\ epoch < MaxBreaks
                         /\ epoch' = epoch + 1
                         /\ wire' = [side \in Sides |-> <<>>]
                         /\ chunkId' = [side \in Sides |-> 0]
                         /\ torn' = (torn \/ \E c \in Ids : chunks["client"][c] # Nothing)
                         /\ UNCHANGED <<state, offset, chunk, conn, acks, chunks, received>>

\* The connection breaks; what was on its way is lost.  The next one has new
\* writers and, on the server, a new reader.
Reconnect == /\ epoch < MaxBreaks
             /\ epoch' = epoch + 1
             /\ wire' = [side \in Sides |-> <<>>]
             /\ chunkId' = [side \in Sides |-> 0]
             /\ acks' = [acks EXCEPT !["server"] = [i \in Ids |-> NoSend]]
             /\ chunks' = [chunks EXCEPT !["server"] = [c \in Ids |-> Nothing]]
             /\ torn' = (torn \/ \E c \in Ids : chunks["client"][c] # Nothing)
             /\ UNCHANGED <<state, offset, chunk, conn, received>>

Step(s) == WriteShort(s) \/ WriteLong(s) \/ NextSlice(s) \/ Return(s) \/ NextSliceLost(s)
Got(side) == GotPlain(side) \/ GotAck(side) \/ GotChunk(side) \/ GotLastChunk(side)
ChunkNext == (\E s \in Sends : Step(s)) \/ (\E side \in Sides : Got(side)) \/ Reconnect

ChunkSpec == ChunkInit /\ [][ChunkNext]_chunkVars

\* A promise that is resolved continues, and a connection delivers.  Nobody
\* has to call write(), and no connection has to break.
ChunkFairSpec ==
    /\ ChunkSpec
    /\ \A s \in Sends : WF_chunkVars(NextSlice(s) \/ Return(s))
    /\ \A side \in Sides : WF_chunkVars(Got(side))

-----------------------------------------------------------------------------
(* Properties                                                              *)

WholeMessage(side, b) == \E s \in Sends : From[s] = Other(side) /\ b = Slices(s)
ReceivedOf(side) == {received[side][k] : k \in DOMAIN received[side]}

\* onMessage is given whole messages only, all slices of one message in
\* order, and none twice, however chunks of several messages are interleaved
\* and across reconnects, unless the client's reader was in the middle of a
\* message when the connection broke.
WholeMessages == \A side \in Sides : side = "server" \/ ~torn =>
    /\ \A b \in ReceivedOf(side) : WholeMessage(side, b)
    /\ Cardinality(ReceivedOf(side)) = Len(received[side])

\* Messages with different ids have at most one chunk on its way each, or
\* its acknowledgement: this is how the writer waits for a slow reader.
OneInFlight == \A s \in Sends :
    LET to == Other(From[s])
        slices == {k \in DOMAIN wire[to] : wire[to][k].type = "chunk" /\ wire[to][k].slice[1] = s}
        answers == {k \in DOMAIN wire[From[s]] : wire[From[s]][k] = ChunkAck(Id[s])}
    IN Cardinality(slices) + Cardinality(answers) <= 1

\* The writers and readers of both sides are well-formed, and wait.
Paced == ChunkTypeOK /\ OneInFlight

\* Every message that is written arrives and writeFull() returns, unless the
\* connection breaks.  This is what chunking is for (writer.ts:110-112).
Delivered == \A s \in Sends :
    state[s] # "idle" ~> \/ state[s] = "done" /\ Slices(s) \in ReceivedOf(Other(From[s]))
                         \/ conn[s] # epoch
=============================================================================
