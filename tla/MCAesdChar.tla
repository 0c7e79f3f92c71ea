----------------------------- MODULE MCAesdChar -----------------------------
(* Bounded instances of AesdChar: two processes, commands of one and two   *)
(* bytes, some of them completed by a second write.                        *)
EXTENDS AesdChar

CONSTANTS p1, p2, f1, f2

OwnFiles   == (p1 :> f1) @@ (p2 :> f2)
AllOps     == {"write", "read", "llseek", "ioctl"}
OneFile    == p1 :> f1
SharedFile == [p \in {p1, p2} |-> f1]
OneUser    == p1 :> AllOps
Everything == [p \in {p1, p2} |-> AllOps]
WriterUser == (p1 :> {"write"}) @@ (p2 :> {"read", "llseek", "ioctl"})
Writers    == (p1 :> {"write"}) @@ (p2 :> {"write"})
MCByte     == {"a", "n"}
MCChunk    == {<<"a">>, <<"n">>, <<"a", "n">>}
MixedChunk == {<<>>, <<"a">>, <<"n", "a">>}
OneChunk   == {<<"n">>}
OneSeekTo  == {[write_cmd |-> 1, write_cmd_offset |-> 0]}
MCCount    == {1, 2}
MCOffset   == {-1, 0, 1}
MCSeekTo   == [write_cmd : {0, 1, 2}, write_cmd_offset : {0, 1}]
=============================================================================
