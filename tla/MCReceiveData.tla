--------------------------- MODULE MCReceiveData ---------------------------
(* Bounded instances of ReceiveData: up to three clients, one of which may *)
(* send a NUL and a byte behind its newline and one of which asks the      *)
(* device to seek; the file or the device already holds a command.  A      *)
(* command of two bytes is longer than the stdio buffer.                   *)
EXTENDS ReceiveData, TLC

CONSTANTS c1, c2, c3

MCByte     == {"a", "b", "e", "s", "t", "0", "n"}
Commands   == (c1 :> <<"a", "0", "n", "b">>) @@ (c2 :> <<"b", "n">>) @@ (c3 :> <<"s", "n">>)
TwoClients == (c1 :> <<"a", "n", "b">>) @@ (c2 :> <<"b", "n">>)
EarlierRun == << <<"e", "n">> >>
MCStamp    == <<"t", "n">>
=============================================================================
