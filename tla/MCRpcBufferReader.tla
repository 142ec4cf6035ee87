-------------------------- MODULE MCRpcBufferReader --------------------------
(* Instances of RpcBufferReader for TLC: all streams of up to three        *)
(* messages of four to six bytes.                                          *)
EXTENDS RpcBufferReader

Sizes == 4 .. 6
Offsets(s) == [k \in 1 .. Len(s) + 1 |-> IF k = 1 THEN 0 ELSE
                  IF k = 2 THEN s[1] ELSE IF k = 3 THEN s[1] + s[2] ELSE s[1] + s[2] + s[3]]
AllStreams == {Offsets(s) : s \in UNION {[1 .. n -> Sizes] : n \in 1 .. 3}}
=============================================================================
