---------------------------- MODULE MCAesdSocket ----------------------------
(* A bounded instance of AesdSocket: each client sends its command, or a   *)
(* part of it, and a command is nowhere in the file but where its thread   *)
(* has appended it.                                                        *)
EXTENDS AesdSocket, TLC

CONSTANTS c1, c2

MCByte    == {"a", "b", "t", "n"}
OneEach   == (c1 :> <<"a", "n">>) @@ (c2 :> <<"b", "n">>)
EmptyFile == << >>
MCStamp   == <<"t", "n">>
=============================================================================
