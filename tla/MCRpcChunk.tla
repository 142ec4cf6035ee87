----------------------------- MODULE MCRpcChunk -----------------------------
(* Instances of RpcChunk for TLC.                                          *)
EXTENDS RpcChunk, TLC

NewBefore == [side \in Sides |-> 0]

\* Two uploads of the client, a long answer of the server and a short
\* message that belongs to the same request as the answer.
MixedSends == {"upload", "upload2", "answer", "short"}
MixedFrom == "upload" :> "client" @@ "upload2" :> "client" @@ "answer" :> "server" @@ "short" :> "server"
MixedBytes == "upload" :> 4 @@ "upload2" :> 4 @@ "answer" :> 3 @@ "short" :> 1
MixedId == "upload" :> 6 @@ "upload2" :> 7 @@ "answer" :> 5 @@ "short" :> 5
=============================================================================
